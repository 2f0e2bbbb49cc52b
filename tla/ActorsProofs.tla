---------------------------- MODULE ActorsProofs ----------------------------
(***************************************************************************)
(* The game room of caf-example, for any number of players and rounds of   *)
(* its clock: all players see what is said in one order, and a room that   *)
(* has handled its messages has the members it should.                     *)
(*                                                                         *)
(* A line that will be told to the players is at any time in one place     *)
(* (OnePlace): it is on somebody's list or in a mailbox, it will be told   *)
(* when a monitored player ends, or it is a time the clock has not shown.  *)
(* Nobody has seen it then (Unseen), so that the room tells it to all its  *)
(* members after everything they have seen, and the orders in which two    *)
(* players see things never disagree (OneOrder).  Membership follows a     *)
(* player from the message with which it joins to the one with which the   *)
(* room learns of its end.                                                 *)
(***************************************************************************)
EXTENDS Actors, FiniteSetTheorems, SequenceTheorems, TLAPS

-----------------------------------------------------------------------------
(* What is on its way in the game room.                                    *)

Texts == {"joins", "left", "hello", "where is it"}
ClockFrom(k) == {<<"clock", j>> : j \in {j \in Nat : j >= k}}
Lines == (Players \X Texts) \cup ClockFrom(1)

MainOps == {Spawn("room", NewRoom), Tell("room", "start", Rounds), Quit("normal")}
           \cup {JoinRoom(p) : p \in Players}
           \cup {Tell(p, "say", t) : p \in Players, t \in Texts}
           \cup {Kill(a) : a \in Players \cup {"room"}}
PlayerOps(p) == {Tell("room", "join", p)} \cup {Tell("room", "chat", l) : l \in Lines}
RoomOps == {Watch(p) : p \in Players} \cup {Later("tick")}
           \cup {Cast(ps, "chat", l) : ps \in SUBSET Players, l \in Lines}
Ops(a) == IF a = "main" THEN MainOps ELSE IF a = "room" THEN RoomOps ELSE PlayerOps(a)

TickMsg == Message("tick", Nothing, "room", 0)
PlayerMsgs == {Message("say", t, "main", 0) : t \in Texts}
              \cup {Message("chat", l, "room", 0) : l \in Lines}
RoomMsgs == {Message("join", p, p, 0) : p \in Players}
            \cup {Message("chat", l, p, 0) : l \in Lines, p \in Players}
            \cup {Down(p, why) : p \in Players, why \in {"killed", "gone"}}
            \cup {Message("start", Rounds, "main", 0), TickMsg}
Msgs(a) == IF a = "main" THEN {} ELSE IF a = "room" THEN RoomMsgs ELSE PlayerMsgs
States(a) == IF a = "main" THEN {Nothing} ELSE IF a = "room"
             THEN {Nothing} \cup [members : SUBSET Players, ticks_left : Int, tick_id : Nat \ {0}]
             ELSE Seq(Lines)
RoleOf(a) == IF a = "main" THEN "script" ELSE IF a = "room" THEN "game room" ELSE "player"

Fields == {"role", "life", "st", "todo", "box", "watchers", "closed", "killed", "timers",
           "asked", "heard", "answers", "got"}
Typed(a, x) ==
  /\ DOMAIN x = Fields /\ x.role = RoleOf(a) /\ x.life \in {"unborn", "up", "down"}
  /\ x.st \in States(a) /\ x.todo \in Seq(Ops(a)) /\ x.box \in Seq(Msgs(a))
  /\ x.watchers \subseteq (IF a \in Players THEN {"room"} ELSE {}) /\ x.closed = FALSE
  /\ x.killed \in BOOLEAN /\ (a = "main" => ~x.killed)
  /\ x.timers \subseteq (IF a = "room" THEN {TickMsg} ELSE {})
  /\ (x.life # "up" => x.todo = <<>>) /\ (x.life = "down" => x.watchers = {})
  /\ a = "room" /\ x.life = "up" => x.st # Nothing
Types == /\ Actor = Players \cup {"main", "room"} /\ \A a \in Actor : Typed(a, actor[a])

\* The lines that an entry stands for; a player has seen a chat message already.
Both(p) == {<<p, "joins">>, <<p, "left">>}
OpLines(o) == CASE o.op = "start" -> IF o.actor = "room" THEN ClockFrom(1) ELSE Both(o.actor)
                [] o.op = "tell" /\ o.tag = "say" -> {<<o.to, o.arg>>}
                [] o.op = "tell" /\ o.tag = "join" -> Both(o.arg)
                [] o.op = "tell" /\ o.tag = "chat" -> {o.arg}
                [] o.op = "cast" -> {o.arg}
                [] o.op = "watch" -> {<<o.actor, "left">>}
                [] OTHER -> {}
MsgLines(a, m) == CASE m.tag = "say" -> {<<a, m.arg>>}
                    [] m.tag = "join" -> Both(m.arg)
                    [] m.tag = "down" -> {<<m.from, "left">>}
                    [] m.tag = "chat" /\ a = "room" -> {m.arg}
                    [] OTHER -> {}

Apart(a, x) ==
  /\ \A i, j \in DOMAIN x.todo : i # j => OpLines(x.todo[i]) \cap OpLines(x.todo[j]) = {}
  /\ \A i, j \in DOMAIN x.box : i # j => MsgLines(a, x.box[i]) \cap MsgLines(a, x.box[j]) = {}

\* Where a line is: on a list, in a mailbox, with a monitor, or still to come from the clock.
Kinds == {"todo", "box", "watch", "clock"}
Holds(kind, a, x, l) ==
  \/ kind = "todo" /\ \E k \in DOMAIN x.todo : l \in OpLines(x.todo[k])
  \/ kind = "box" /\ \E k \in DOMAIN x.box : l \in MsgLines(a, x.box[k])
  \/ kind = "watch" /\ "room" \in x.watchers /\ l = <<a, "left">>
  \/ kind = "clock" /\ a = "room" /\ x.life = "up" /\ l \in ClockFrom(x.st.tick_id)
OnePlace == \A k1, k2 \in Kinds : \A a, b \in Actor : \A l \in Lines :
              Holds(k1, a, actor[a], l) /\ Holds(k2, b, actor[b], l) => k1 = k2 /\ a = b

\* What player x sees, or will when it looks into its mailbox, and in which order.
IsLine(m, l) == m.tag = "chat" /\ m.arg = l
Sees(x, l) == \/ \E i \in DOMAIN x.st : x.st[i] = l
              \/ \E i \in DOMAIN x.box : IsLine(x.box[i], l)
Unseen == \A k \in Kinds : \A a \in Actor : \A l \in Lines : \A p \in Players :
            Holds(k, a, actor[a], l) => ~Sees(actor[p], l)

Before(x, l, m) ==
  \/ \E i, j \in DOMAIN x.st : i < j /\ x.st[i] = l /\ x.st[j] = m
  \/ \E i \in DOMAIN x.st : \E j \in DOMAIN x.box : x.st[i] = l /\ IsLine(x.box[j], m)
  \/ \E i, j \in DOMAIN x.box : i < j /\ IsLine(x.box[i], l) /\ IsLine(x.box[j], m)
OneOrder == \A p, q \in Players : \A l, m \in Lines :
              Before(actor[p], l, m) => ~Before(actor[q], m, l)

-----------------------------------------------------------------------------
\* What the list and the mailbox of an actor hold; x is the record of player p, r that of the room.
HasOp(x, op) == \E k \in DOMAIN x.todo : x.todo[k] = op
HasMsg(x, m) == \E k \in DOMAIN x.box : x.box[k] = m
JoinOp(p) == Tell("room", "join", p)
JoinMsg(p) == Message("join", p, p, 0)
HasDown(r, p) == \E why \in {"killed", "gone"} : HasMsg(r, Down(p, why))
MembersOf(r) == IF r.life = "up" THEN r.st.members ELSE {}
Member(p, x, r) ==
  /\ HasOp(x, JoinOp(p)) => Len(x.todo) = 1
  /\ x.life = "up" /\ ~HasOp(x, JoinOp(p)) /\ r.life # "down"
       => p \in MembersOf(r) \/ HasMsg(r, JoinMsg(p))
  /\ HasMsg(r, JoinMsg(p)) => x.life # "unborn" /\ p \notin MembersOf(r) /\ ~HasOp(x, JoinOp(p))
  /\ p \in MembersOf(r) => x.life # "unborn" /\ ~HasOp(x, JoinOp(p))
  /\ p \in MembersOf(r) => \/ HasOp(r, Watch(p)) \/ HasDown(r, p)
                           \/ x.life = "up" /\ "room" \in x.watchers
  /\ HasDown(r, p) => x.life = "down"
Starts(x, a) == \E k \in DOMAIN x.todo : x.todo[k].op = "start" /\ x.todo[k].actor = a
Membership == /\ \A a \in Actor : Starts(actor["main"], a) => actor[a].life = "unborn"
              /\ \A p \in Players : Member(p, actor[p], actor["room"])

Game == name = "game room" /\ Types
IInv == Game /\ (\A a \in Actor : Apart(a, actor[a])) /\ OnePlace /\ Unseen /\ OneOrder /\ Membership

-----------------------------------------------------------------------------
(* Sequences.                                                              *)

LEMMA TailOf ==
  ASSUME NEW S, NEW s \in Seq(S), s # <<>>
  PROVE  /\ Head(s) = s[1] /\ s[1] \in S /\ 1 \in DOMAIN s /\ Tail(s) \in Seq(S)
         /\ \A i \in DOMAIN Tail(s) : i \in Nat \ {0} /\ i + 1 \in DOMAIN s /\ Tail(s)[i] = s[i + 1]
         /\ \A i \in DOMAIN s : i = 1 \/ (i - 1 \in DOMAIN Tail(s) /\ Tail(s)[i - 1] = s[i])
         /\ Len(Tail(s)) = Len(s) - 1
<1>1. Tail(s) \in Seq(S) /\ Len(Tail(s)) = Len(s) - 1
         /\ \A i \in 1..Len(Tail(s)) : Tail(s)[i] = s[i + 1]
  BY HeadTailProperties
<1>2. Len(s) \in Nat /\ DOMAIN s = 1..Len(s) /\ DOMAIN Tail(s) = 1..Len(Tail(s)) /\ Len(s) # 0
         /\ Len(Tail(s)) \in Nat
  BY <1>1, LenProperties, EmptySeq
<1>3. Head(s) = s[1] /\ 1 \in DOMAIN s /\ s[1] \in S
  BY <1>2, ElementOfSeq
<1>4. \A i \in DOMAIN Tail(s) : i \in Nat \ {0} /\ i + 1 \in DOMAIN s /\ Tail(s)[i] = s[i + 1]
  BY <1>1, <1>2
<1>5. \A i \in DOMAIN s : i = 1 \/ (i - 1 \in DOMAIN Tail(s) /\ Tail(s)[i - 1] = s[i])
  BY <1>1, <1>2
<1> QED BY <1>1, <1>3, <1>4, <1>5

LEMMA AppendOf ==
  ASSUME NEW S, NEW s \in Seq(S), NEW e \in S
  PROVE  /\ Append(s, e) \in Seq(S) /\ Len(s) \in Nat
         /\ DOMAIN Append(s, e) = DOMAIN s \cup {Len(s) + 1} /\ DOMAIN s = 1..Len(s)
         /\ Append(s, e)[Len(s) + 1] = e
         /\ \A i \in DOMAIN s : i <= Len(s) /\ Append(s, e)[i] = s[i]
  BY AppendProperties, LenProperties

-----------------------------------------------------------------------------
(* What is on the lists and in the mailboxes.                              *)

LEMMA MainOpsAre ==
  \A o \in MainOps :
       \/ o.op = "tell" /\ o.to \in Players /\ o.tag = "say" /\ o.arg \in Texts
       \/ o.op = "tell" /\ o.to = "room" /\ o.tag = "start" /\ o.arg = Rounds
       \/ o.op = "start" /\ o.actor = "room" /\ o.st = NewRoom /\ o.todo = <<>>
       \/ o.op = "start" /\ o.actor \in Players /\ o.st = <<>>
            /\ o.todo = <<Tell("room", "join", o.actor)>>
       \/ o.op = "kill" /\ o.actor \in Players \cup {"room"}
       \/ o.op = "quit"
<1>1. ASSUME NEW p \in Players, NEW o, o = JoinRoom(p)
      PROVE  o.op = "start" /\ o.actor = p /\ o.st = <<>> /\ o.todo = <<Tell("room", "join", p)>>
  BY <1>1 DEF JoinRoom, Start
<1>2. ASSUME NEW p, NEW t, NEW o, o = Tell(p, "say", t)
      PROVE  o.op = "tell" /\ o.to = p /\ o.tag = "say" /\ o.arg = t
  BY <1>2 DEF Tell
<1>3. ASSUME NEW o, o = Spawn("room", NewRoom)
      PROVE  o.op = "start" /\ o.actor = "room" /\ o.st = NewRoom /\ o.todo = <<>>
  BY <1>3 DEF Spawn, Start
<1>4. ASSUME NEW o, o = Tell("room", "start", Rounds)
      PROVE  o.op = "tell" /\ o.to = "room" /\ o.tag = "start" /\ o.arg = Rounds
  BY <1>4 DEF Tell
<1>5. ASSUME NEW a, NEW o, o = Kill(a) PROVE o.op = "kill" /\ o.actor = a
  BY <1>5 DEF Kill
<1>6. Quit("normal").op = "quit"
  BY DEF Quit
<1> QED BY <1>1, <1>2, <1>3, <1>4, <1>5, <1>6 DEF MainOps

LEMMA PlayerOpsAre ==
  \A p : \A o \in PlayerOps(p) :
       /\ o.op = "tell" /\ o.to = "room"
       /\ \/ o.tag = "join" /\ o.arg = p
          \/ o.tag = "chat" /\ o.arg \in Lines
  BY DEF PlayerOps, Tell

LEMMA RoomOpsAre ==
  \A o \in RoomOps :
       \/ o.op = "watch" /\ o.actor \in Players
       \/ o.op = "cast" /\ o.tos \in SUBSET Players /\ o.tag = "chat" /\ o.arg \in Lines
       \/ o.op = "later" /\ o.tag = "tick"
  BY DEF RoomOps, Watch, Cast, Later

LEMMA MsgsAre ==
  /\ \A m \in PlayerMsgs : \/ m.tag = "say" /\ m.arg \in Texts /\ m.id = 0 /\ m.from = "main"
                           \/ m.tag = "chat" /\ m.arg \in Lines /\ m.id = 0 /\ m.from = "room"
  /\ \A m \in RoomMsgs :
       /\ m.id = 0
       /\ \/ m.tag = "join" /\ m.arg \in Players /\ m.from = m.arg
          \/ m.tag = "chat" /\ m.arg \in Lines
          \/ m.tag = "down" /\ m.from \in Players
          \/ m.tag = "start" /\ m.arg = Rounds
          \/ m.tag = "tick"
  BY DEF PlayerMsgs, RoomMsgs, Message, Down, TickMsg

LEMMA Names == "main" \notin Players /\ "room" \notin Players /\ "clock" \notin Players
  BY PlayersAreNamed

LEMMA FirstOp ==
  ASSUME Game, NEW p \in Actor, actor[p].todo # <<>>
  PROVE  /\ Now(p) \in Ops(p) /\ Now(p) = actor[p].todo[1] /\ Tail(actor[p].todo) \in Seq(Ops(p))
         /\ actor[p].life = "up"
<1>1. actor[p].todo \in Seq(Ops(p)) /\ actor[p].life = "up"
  BY DEF Game, Types, Typed
<1> QED BY <1>1, TailOf DEF Now

LEMMA FirstMsg ==
  ASSUME Game, NEW p \in Actor, actor[p].box # <<>>
  PROVE  /\ Head(actor[p].box) \in Msgs(p) /\ Head(actor[p].box) = actor[p].box[1]
         /\ Tail(actor[p].box) \in Seq(Msgs(p)) /\ p # "main"
<1>1. actor[p].box \in Seq(Msgs(p))
  BY DEF Game, Types, Typed
<1>2. Head(actor[p].box) \in Msgs(p) /\ Head(actor[p].box) = actor[p].box[1]
         /\ Tail(actor[p].box) \in Seq(Msgs(p))
  BY <1>1, TailOf
<1> QED BY <1>2 DEF Msgs

LEMMA OpsOf ==
  ASSUME Game, NEW p \in Actor
  PROVE  /\ p \in Players \/ p = "main" \/ p = "room"
         /\ p = "main" => Ops(p) = MainOps /\ Msgs(p) = {}
         /\ p = "room" => Ops(p) = RoomOps /\ Msgs(p) = RoomMsgs
         /\ p \in Players => Ops(p) = PlayerOps(p) /\ Msgs(p) = PlayerMsgs
  BY Names DEF Game, Types, Ops, Msgs

-----------------------------------------------------------------------------
(* What the steps of the game room do, actor by actor.                     *)

Popped(p) == [actor[p] EXCEPT !.todo = Tail(@)]
Told(x, m) == [x EXCEPT !.box = Append(@, m)]
Taken(x, s, t) == [x EXCEPT !.st = s, !.todo = t, !.box = Tail(@)]
Rest(S) == \A b \in Actor \ S : actor'[b] = actor[b]

LEMMA Life == ASSUME Game, NEW a \in Actor PROVE Typed(a, actor[a])
  BY DEF Game, Types

LEMMA TypedPopped ==
  ASSUME NEW a, NEW x, Typed(a, x), x.todo # <<>>
  PROVE  Typed(a, [x EXCEPT !.todo = Tail(@)])
<1>1. Tail(x.todo) \in Seq(Ops(a)) /\ x.life = "up"
  BY TailOf DEF Typed
<1>2. PICK y : y = [x EXCEPT !.todo = Tail(@)]
  OBVIOUS
<1>3. y.todo = Tail(x.todo) /\ DOMAIN y = Fields /\ \A f \in Fields : f # "todo" => y[f] = x[f]
  BY <1>2 DEF Typed, Fields
<1> QED BY <1>1, <1>2, <1>3 DEF Typed, Fields

LEMMA TypedTold ==
  ASSUME NEW a, NEW x, Typed(a, x), NEW m \in Msgs(a)
  PROVE  Typed(a, Told(x, m))
<1>1. Append(x.box, m) \in Seq(Msgs(a))
  BY AppendOf DEF Typed
<1>2. PICK y : y = Told(x, m)
  OBVIOUS
<1>3. y.box = Append(x.box, m) /\ DOMAIN y = Fields /\ \A f \in Fields : f # "box" => y[f] = x[f]
  BY <1>2 DEF Typed, Told, Fields
<1> QED BY <1>1, <1>2, <1>3 DEF Typed, Fields

LEMMA SendDoes ==
  ASSUME Game, NEW p \in Actor, Send(p), NEW q, q = Now(p).to,
         NEW m, m = Message(Now(p).tag, Now(p).arg, p, 0)
  PROVE  /\ q \in Actor /\ p # q /\ m \in Msgs(q) /\ Now(p).op = "tell" /\ actor[p].todo # <<>>
         /\ Actor' = Actor /\ actor'[p] = Popped(p) /\ Rest({p, q})
         /\ actor'[q] = IF actor[q].life # "down" THEN Told(actor[q], m) ELSE actor[q]
<1>1. actor[p].todo # <<>> /\ Now(p).op = "tell" /\ actor' = Sent(Done(p), q, m) /\ p # "room"
  <2>1. actor[p].todo # <<>> /\ Now(p).op = "tell" /\ actor' = Sent(Done(p), q, m)
    BY DEF Send, Doing, Now, Becomes
  <2> QED BY <2>1, FirstOp, OpsOf, RoomOpsAre
<1>2. q \in Actor /\ p # q /\ m \in Msgs(q)
  <2>1. CASE p = "main"
    <3>1. Now(p) \in MainOps
      BY <2>1, <1>1, FirstOp, OpsOf
    <3>2. CASE q \in Players /\ Now(p).tag = "say" /\ Now(p).arg \in Texts
      <4>1. m \in PlayerMsgs
        BY <3>2, <2>1 DEF PlayerMsgs
      <4> QED BY <4>1, <3>2, <2>1, Names, OpsOf DEF Game, Types
    <3>3. CASE q = "room" /\ Now(p).tag = "start" /\ Now(p).arg = Rounds
      <4>1. m \in RoomMsgs
        BY <3>3, <2>1 DEF RoomMsgs
      <4> QED BY <4>1, <3>3, <2>1, OpsOf DEF Game, Types
    <3> QED BY <3>1, <3>2, <3>3, <1>1, MainOpsAre
  <2>2. CASE p \in Players
    <3>1. Now(p) \in PlayerOps(p)
      BY <2>2, <1>1, FirstOp, OpsOf
    <3>2. q = "room" /\ m \in RoomMsgs
      BY <3>1, <2>2, PlayerOpsAre DEF RoomMsgs
    <3> QED BY <3>2, <2>2, Names, OpsOf DEF Game, Types
  <2> QED BY <2>1, <2>2, <1>1, OpsOf
<1>3. Done(p)[q] = actor[q] /\ Done(p)[p] = Popped(p) /\ DOMAIN Done(p) = Actor
        /\ \A b \in Actor \ {p} : Done(p)[b] = actor[b]
  BY <1>2 DEF Done, Popped, Actor
<1>4. actor' = IF actor[q].life # "down" THEN [Done(p) EXCEPT ![q].box = Append(@, m)] ELSE Done(p)
  BY <1>1, <1>3 DEF Sent, Message
<1> QED BY <1>1, <1>2, <1>3, <1>4 DEF Told, Rest, Actor

LEMMA CastDoes ==
  ASSUME Game, NEW p \in Actor, SendToAll(p), NEW m, m = Message("chat", Now(p).arg, "room", 0)
  PROVE  /\ p = "room" /\ Now(p).op = "cast" /\ Now(p).arg \in Lines /\ Now(p).tos \in SUBSET Players
         /\ actor[p].todo # <<>> /\ m \in PlayerMsgs
         /\ Actor' = Actor /\ actor'[p] = Popped(p) /\ Rest({"room"} \cup Now(p).tos)
         /\ \A q \in Now(p).tos :
              actor'[q] = IF actor[q].life # "down" THEN Told(actor[q], m) ELSE actor[q]
<1>1. actor[p].todo # <<>> /\ Now(p).op = "cast"
  BY DEF SendToAll, Doing, Now
<1>2. p = "room" /\ Now(p).arg \in Lines /\ Now(p).tos \in SUBSET Players /\ Now(p).tag = "chat"
  BY <1>1, FirstOp, OpsOf, RoomOpsAre, MainOpsAre, PlayerOpsAre
<1>3. m \in PlayerMsgs
  BY <1>2 DEF PlayerMsgs
<1>4. Players \subseteq Actor /\ p \notin Players
  BY <1>2, Names DEF Game, Types
<1>5. /\ Done(p)[p] = Popped(p) /\ DOMAIN Done(p) = Actor
      /\ \A b \in Actor \ {p} : Done(p)[b] = actor[b]
  BY DEF Done, Popped, Actor
<1>6. \A q \in Now(p).tos : Sent(Done(p), q, m)[q] =
                              IF actor[q].life # "down" THEN Told(actor[q], m) ELSE actor[q]
  <2>1. SUFFICES ASSUME NEW q \in Now(p).tos
                 PROVE  Sent(Done(p), q, m)[q] =
                              IF actor[q].life # "down" THEN Told(actor[q], m) ELSE actor[q]
    OBVIOUS
  <2>2. q \in Actor /\ q # p /\ Done(p)[q] = actor[q]
    BY <1>2, <1>4, <1>5
  <2>3. m.id = 0
    BY DEF Message
  <2> QED BY <2>2, <2>3, <1>5 DEF Sent, Told
<1>7. actor' = [b \in Actor |-> IF b \in Now(p).tos THEN Sent(Done(p), b, m)[b] ELSE Done(p)[b]]
  BY <1>2 DEF SendToAll, Becomes
<1> QED BY <1>1, <1>2, <1>3, <1>4, <1>5, <1>6, <1>7 DEF Rest, Actor

LEMMA SetTimerDoes ==
  ASSUME Game, NEW p \in Actor, SetTimer(p)
  PROVE  /\ p = "room" /\ actor[p].todo # <<>> /\ Actor' = Actor /\ Rest({p})
         /\ actor'[p] = [Popped(p) EXCEPT !.timers = @ \cup {TickMsg}]
<1>1. actor[p].todo # <<>> /\ Now(p).op = "later"
  BY DEF SetTimer, Doing, Now
<1>2. p = "room" /\ Now(p).tag = "tick"
  BY <1>1, FirstOp, OpsOf, RoomOpsAre, MainOpsAre, PlayerOpsAre
<1>3. actor' = [Done(p) EXCEPT ![p].timers = @ \cup {TickMsg}]
  BY <1>2 DEF SetTimer, Becomes, TickMsg
<1> QED BY <1>1, <1>2, <1>3 DEF Done, Popped, Rest, Actor

LEMMA StartDoes ==
  ASSUME Game, NEW p \in Actor, StartActor(p), NEW a, a = Now(p).actor
  PROVE  /\ p = "main" /\ actor[p].todo # <<>> /\ Actor' = Actor /\ Now(p).op = "start"
         /\ \/ a = "room" /\ Now(p).st = NewRoom /\ Now(p).todo = <<>>
            \/ a \in Players /\ Now(p).st = <<>> /\ Now(p).todo = <<Tell("room", "join", a)>>
         /\ actor'[p] = Popped(p) /\ Rest({p, a}) /\ a \in Actor /\ a # p
         /\ actor'[a] = [actor[a] EXCEPT !.life = "up", !.st = Now(p).st, !.todo = Now(p).todo]
<1>1. actor[p].todo # <<>> /\ Now(p).op = "start"
  BY DEF StartActor, Doing, Now
<1>2. p = "main" /\ Now(p) \in MainOps
  BY <1>1, FirstOp, OpsOf, RoomOpsAre, PlayerOpsAre
<1>3. \/ a = "room" /\ Now(p).st = NewRoom /\ Now(p).todo = <<>>
      \/ a \in Players /\ Now(p).st = <<>> /\ Now(p).todo = <<Tell("room", "join", a)>>
  BY <1>1, <1>2, MainOpsAre
<1>4. a \in Actor /\ a # p
  BY <1>2, <1>3, Names DEF Game, Types
<1>5. actor' = [Done(p) EXCEPT ![a].life = "up", ![a].st = Now(p).st, ![a].todo = Now(p).todo]
  BY DEF StartActor, Becomes
<1> QED BY <1>1, <1>2, <1>3, <1>4, <1>5 DEF Done, Popped, Rest, Actor

LEMMA MonitorDoes ==
  ASSUME Game, NEW p \in Actor, Monitor(p), NEW q, q = Now(p).actor
  PROVE  /\ p = "room" /\ actor[p].todo # <<>> /\ Now(p).op = "watch" /\ q \in Players /\ q \in Actor
         /\ Actor' = Actor
         /\ \/ /\ actor[q].life = "down" /\ actor'[p] = Told(Popped(p), Down(q, "gone")) /\ Rest({p})
            \/ /\ actor[q].life # "down" /\ actor'[p] = Popped(p) /\ Rest({p, q})
               /\ actor'[q] = [actor[q] EXCEPT !.watchers = @ \cup {"room"}]
<1>1. actor[p].todo # <<>> /\ Now(p).op = "watch"
  BY DEF Monitor, Doing, Now
<1>2. p = "room" /\ q \in Players /\ actor[p].life = "up"
  BY <1>1, FirstOp, OpsOf, RoomOpsAre, MainOpsAre, PlayerOpsAre
<1>3. q \in Actor /\ q # p
  BY <1>2, Names DEF Game, Types
<1>4. Done(p)[p] = Popped(p) /\ DOMAIN Done(p) = Actor
        /\ \A b \in Actor \ {p} : Done(p)[b] = actor[b]
  BY DEF Done, Popped, Actor
<1>5. CASE actor[q].life = "down"
  <2>1. actor' = Sent(Done(p), p, Down(q, "gone"))
    BY <1>5 DEF Monitor, Becomes
  <2>2. Popped(p).life = "up"
    BY <1>2 DEF Popped
  <2>3. actor' = [Done(p) EXCEPT ![p].box = Append(@, Down(q, "gone"))]
    BY <2>1, <2>2, <1>4 DEF Sent
  <2> QED BY <1>1, <1>2, <1>3, <1>4, <1>5, <2>3 DEF Told, Rest, Actor
<1>6. CASE actor[q].life # "down"
  <2>1. actor' = [Done(p) EXCEPT ![q].watchers = @ \cup {p}]
    BY <1>6 DEF Monitor, Becomes
  <2> QED BY <1>1, <1>2, <1>3, <1>4, <1>6, <2>1 DEF Rest, Actor
<1> QED BY <1>5, <1>6

LEMMA KillDoes ==
  ASSUME Game, NEW p \in Actor, SendExit(p), NEW a, a = Now(p).actor
  PROVE  /\ p = "main" /\ actor[p].todo # <<>> /\ a \in Actor /\ a # p /\ Actor' = Actor
         /\ actor'[p] = Popped(p) /\ Rest({p, a})
         /\ actor'[a] = [actor[a] EXCEPT !.killed = TRUE]
<1>1. actor[p].todo # <<>> /\ Now(p).op = "kill"
  BY DEF SendExit, Doing, Now
<1>2. p = "main" /\ a \in Players \cup {"room"}
  BY <1>1, FirstOp, OpsOf, RoomOpsAre, MainOpsAre, PlayerOpsAre
<1>3. a \in Actor /\ a # p
  BY <1>2, Names DEF Game, Types
<1>4. actor' = [Done(p) EXCEPT ![a].killed = TRUE]
  BY DEF SendExit, Becomes
<1> QED BY <1>1, <1>2, <1>3, <1>4 DEF Done, Popped, Rest, Actor

\* What is left of p when it has ended, and of another one.
Gone(p, x) == /\ DOMAIN x = Fields /\ x.role = actor[p].role /\ x.life = "down"
              /\ x.st = actor[p].st /\ x.todo = <<>> /\ x.box = <<>> /\ x.watchers = {}
              /\ x.closed = FALSE /\ x.killed = FALSE /\ x.timers = {}
Alike(b, x) == DOMAIN x = Fields /\ \A f \in Fields \ {"answers"} : x[f] = actor[b][f]

LEMMA EndDoes ==
  ASSUME Game, NEW p \in Actor, NEW why, actor' = Ended(actor, p, why)
  PROVE  /\ Actor' = Actor /\ Gone(p, actor'[p])
         /\ \A b \in Actor \ {p} :
              LET told == b \in actor[p].watchers /\ actor[b].life # "down"
              IN  \E x : /\ Alike(b, x)
                         /\ actor'[b] = IF told THEN Told(x, Down(p, why)) ELSE x
<1>1. DOMAIN actor = Actor
  BY DEF Actor
<1>2. PICK x : x = [Unborn(actor[p].role) EXCEPT !.life = "down", !.st = actor[p].st,
                        !.got = actor[p].got, !.asked = actor[p].asked, !.heard = actor[p].asked]
  OBVIOUS
<1>3. Gone(p, x)
  BY <1>2 DEF Gone, Unborn, Fields, Nothing
<1>4. actor'[p] = x /\ Actor' = Actor
  BY <1>1, <1>2 DEF Ended, Actor
<1>5. ASSUME NEW b \in Actor \ {p}
      PROVE  LET told == b \in actor[p].watchers /\ actor[b].life # "down"
             IN  \E y : /\ Alike(b, y)
                        /\ actor'[b] = IF told THEN Told(y, Down(p, why)) ELSE y
  <2> DEFINE told == b \in actor[p].watchers /\ actor[b].life # "down"
             open == {m \in ToSet(actor[p].box) : m.from = b /\ m.id > actor[b].heard}
  <2>1. PICK ans : ans = actor[b].answers @@ [id \in {m.id : m \in open} |-> Nothing]
    OBVIOUS
  <2>2. actor'[b] = [actor[b] EXCEPT !.box = IF told THEN Append(@, Down(p, why)) ELSE @,
                                     !.answers = ans]
    BY <1>1, <2>1 DEF Ended
  <2>3. PICK y : y = [actor[b] EXCEPT !.answers = ans]
    OBVIOUS
  <2>4. DOMAIN actor[b] = Fields
    BY Life DEF Typed
  <2>5. Alike(b, y)
    BY <2>3, <2>4 DEF Alike
  <2>6. actor'[b] = IF told THEN Told(y, Down(p, why)) ELSE y
    BY <2>2, <2>3, <2>4 DEF Told, Fields
  <2> QED BY <2>5, <2>6
<1> QED BY <1>3, <1>4, <1>5

\* The one that quits is the script.
LEMMA LeaveDoes ==
  ASSUME Game, NEW p \in Actor, Leave(p)
  PROVE  p = "main" /\ \E why : actor' = Ended(actor, p, why)
<1>1. actor[p].todo # <<>> /\ Now(p).op = "quit"
  BY DEF Leave, Doing, Now
<1>2. p = "main"
  BY <1>1, FirstOp, OpsOf, RoomOpsAre, PlayerOpsAre
<1> QED BY <1>2 DEF Leave, Becomes

LEMMA ExitDoes ==
  ASSUME Game, NEW p \in Actor, Exit(p)
  PROVE  /\ p # "main" /\ actor[p].life = "up" /\ actor[p].todo = <<>>
         /\ actor' = Ended(actor, p, "killed")
<1>1. actor[p].killed /\ actor[p].life = "up" /\ actor[p].todo = <<>>
  BY DEF Exit, Idle
<1> QED BY <1>1, Life DEF Exit, Becomes, Typed

LEMMA TimerDoes ==
  ASSUME Game, NEW p \in Actor, NEW m \in actor[p].timers, TimerFires(p, m)
  PROVE  /\ p = "room" /\ actor[p].life = "up" /\ Actor' = Actor /\ Rest({p})
         /\ actor'[p] = [Told(actor[p], TickMsg) EXCEPT !.timers = @ \ {TickMsg}]
<1>1. p = "room" /\ m = TickMsg /\ DOMAIN actor[p] = Fields
  BY Life DEF Typed
<1>2. actor[p].life = "up"
  BY DEF TimerFires
<1>3. Sent(actor, p, m) = [actor EXCEPT ![p].box = Append(@, TickMsg)]
  BY <1>1, <1>2 DEF Sent
<1>4. actor' = [[actor EXCEPT ![p].box = Append(@, TickMsg)] EXCEPT ![p].timers = @ \ {TickMsg}]
  BY <1>1, <1>3 DEF TimerFires, Becomes
<1> QED BY <1>1, <1>2, <1>4 DEF Told, Rest, Actor

\* A player tells the room what it is to say, or prints what it hears.
LEMMA PlayerTakes ==
  ASSUME Game, NEW p \in Players, TakeMessage(p), NEW m, m = Head(actor[p].box)
  PROVE  /\ actor[p].life = "up" /\ actor[p].todo = <<>> /\ actor[p].box # <<>> /\ p \in Actor
         /\ m \in PlayerMsgs /\ Actor' = Actor /\ Rest({p})
         /\ \/ /\ m.tag = "say"
               /\ actor'[p] = Taken(actor[p], actor[p].st, <<Tell("room", "chat", <<p, m.arg>>)>>)
            \/ /\ m.tag = "chat"
               /\ actor'[p] = Taken(actor[p], Append(actor[p].st, m.arg), actor[p].todo)
<1>1. actor[p].life = "up" /\ actor[p].todo = <<>> /\ actor[p].box # <<>>
  BY DEF TakeMessage, Idle
<1>2. p \in Actor /\ p # "room" /\ p # "main"
  BY Names DEF Game, Types
<1>3. m \in PlayerMsgs /\ actor[p].role = "player" /\ DOMAIN actor[p] = Fields
  BY <1>1, <1>2, FirstMsg, OpsOf, Life, ZenonT(60) DEF Typed, RoleOf
<1>4. Handle(p, m) = Player(actor[p].st, m, p)
  BY <1>3 DEF Handle, OfAsio, AsioPrograms, CafHandle, Game
<1>5. actor' = [actor EXCEPT ![p].st = Handle(p, m).st, ![p].todo = Handle(p, m).todo,
                             ![p].box = Tail(actor[p].box)]
  BY DEF TakeMessage, Run, Becomes
<1>6. Actor' = Actor /\ Rest({p})
        /\ actor'[p] = Taken(actor[p], Handle(p, m).st, Handle(p, m).todo)
  BY <1>2, <1>5 DEF Taken, Rest, Actor
<1>7. CASE m.tag = "say"
  <2>1. Handle(p, m).st = actor[p].st /\ Handle(p, m).todo = <<Tell("room", "chat", <<p, m.arg>>)>>
    BY <1>7, <1>4 DEF Player, Then
  <2> QED BY <1>1, <1>2, <1>3, <1>6, <1>7, <2>1
<1>8. CASE m.tag = "chat"
  <2>1. Handle(p, m).st = Append(actor[p].st, m.arg) /\ Handle(p, m).todo = actor[p].todo
    BY <1>1, <1>8, <1>4 DEF Player, Then
  <2> QED BY <1>1, <1>2, <1>3, <1>6, <1>8, <2>1
<1> QED BY <1>3, <1>7, <1>8, MsgsAre

\* What the room makes of message m: its state s and its list t then.
RoomDoes(m, r, s, t) ==
  /\ s \in [members : SUBSET Players, ticks_left : Int, tick_id : Nat \ {0}] /\ t \in Seq(RoomOps)
  /\ \/ /\ m.tag = "join" /\ s.members = r.members \cup {m.arg} /\ s.tick_id = r.tick_id
        /\ DOMAIN t = {1, 2} /\ t[1] = Watch(m.arg)
        /\ t[2] = Cast(s.members, "chat", <<m.arg, "joins">>)
     \/ /\ m.tag = "down" /\ s.members = r.members \ {m.from} /\ s.tick_id = r.tick_id
        /\ DOMAIN t = {1} /\ t[1] = Cast(s.members, "chat", <<m.from, "left">>)
     \/ /\ m.tag = "chat" /\ s.members = r.members /\ s.tick_id = r.tick_id
        /\ DOMAIN t = {1} /\ t[1] = Cast(s.members, "chat", m.arg)
     \/ /\ m.tag = "start" /\ s.members = r.members /\ s.tick_id = r.tick_id
        /\ DOMAIN t = {1} /\ t[1] = Later("tick")
     \/ /\ m.tag = "tick" /\ s.members = r.members /\ s.tick_id = r.tick_id + 1
        /\ 1 \in DOMAIN t /\ t[1] = Cast(s.members, "chat", <<"clock", r.tick_id>>)
        /\ \A k \in DOMAIN t : k = 1 \/ t[k] = Later("tick")

LEMMA RoomOpsIn ==
  /\ \A p \in Players : Watch(p) \in RoomOps
  /\ \A ps \in SUBSET Players : \A l \in Lines : Cast(ps, "chat", l) \in RoomOps
  /\ Later("tick") \in RoomOps
  BY DEF RoomOps

LEMMA LinesIn ==
  /\ \A p \in Players : \A t \in Texts : <<p, t>> \in Lines
  /\ \A k \in Nat \ {0} : <<"clock", k>> \in Lines
  BY DEF Lines, ClockFrom

LEMMA Singles ==
  ASSUME NEW S
  PROVE  /\ \A x \in S : <<x>> \in Seq(S) /\ DOMAIN <<x>> = {1} /\ <<x>>[1] = x
         /\ \A x, y \in S : /\ <<x, y>> \in Seq(S) /\ DOMAIN <<x, y>> = {1, 2}
                            /\ <<x, y>>[1] = x /\ <<x, y>>[2] = y
  OBVIOUS

LEMMA TwoOf == ASSUME NEW x, NEW y PROVE <<x>> \o <<y>> = <<x, y>>
<1>1. PICK a, b, c : a = <<x>> /\ b = <<y>> /\ c = <<x, y>>
  OBVIOUS
<1>2. a \in Seq({x, y}) /\ b \in Seq({x, y}) /\ c \in Seq({x, y})
  BY <1>1, Singles
<1>3. Len(a) = 1 /\ Len(b) = 1 /\ Len(c) = 2 /\ a[1] = x /\ b[1] = y /\ c[1] = x /\ c[2] = y
  BY <1>1
<1> DEFINE d == a \o b
<1>4. d \in Seq({x, y}) /\ Len(d) = 2 /\ \A i \in 1..2 : d[i] = IF i <= 1 THEN a[i] ELSE b[i - 1]
  <2>1. PICK S : S = {x, y}
    OBVIOUS
  <2>2. a \in Seq(S) /\ b \in Seq(S)
    BY <1>2, <2>1
  <2>3. d \in Seq(S) /\ Len(d) = Len(a) + Len(b)
          /\ \A i \in 1..(Len(a) + Len(b)) : d[i] = IF i <= Len(a) THEN a[i] ELSE b[i - Len(a)]
    BY <2>2, ConcatProperties
  <2> QED BY <1>3, <2>1, <2>3
<1> HIDE DEF d
<1>5. d[1] = x /\ d[2] = y
  BY <1>3, <1>4
<1>6. \A i \in 1..2 : d[i] = c[i]
  BY <1>3, <1>5
<1>7. d = c
  BY <1>2, <1>3, <1>4, <1>6, SeqEqual
<1> QED BY <1>1, <1>7 DEF d

LEMMA RoomHandles ==
  ASSUME NEW r \in [members : SUBSET Players, ticks_left : Int, tick_id : Nat \ {0}],
         NEW m \in RoomMsgs, NEW h, h = GameRoomActor(r, m)
  PROVE  RoomDoes(m, r, h.st, h.todo)
<1> DEFINE S == [members : SUBSET Players, ticks_left : Int, tick_id : Nat \ {0}]
<1>1. CASE m.tag = "join"
  <2>1. m.arg \in Players
    BY <1>1, MsgsAre
  <2>2. PICK s : s = [r EXCEPT !.members = @ \cup {m.arg}]
    OBVIOUS
  <2>3. PICK t : t = <<Watch(m.arg), Cast(s.members, "chat", <<m.arg, "joins">>)>>
    OBVIOUS
  <2>4. s \in S /\ s.members = r.members \cup {m.arg} /\ s.tick_id = r.tick_id
    BY <2>1, <2>2
  <2>5. <<m.arg, "joins">> \in Lines
    BY <2>1, LinesIn DEF Texts
  <2>6. Watch(m.arg) \in RoomOps /\ Cast(s.members, "chat", <<m.arg, "joins">>) \in RoomOps
    BY <2>1, <2>4, <2>5, RoomOpsIn
  <2>7. /\ t \in Seq(RoomOps) /\ DOMAIN t = {1, 2} /\ t[1] = Watch(m.arg)
        /\ t[2] = Cast(s.members, "chat", <<m.arg, "joins">>)
    BY <2>3, <2>6, Singles
  <2>8. h.st = s
    BY <1>1, <2>2 DEF GameRoomActor, RoomJoin, Then
  <2>9. <<Watch(m.arg)>> \o <<Cast(s.members, "chat", <<m.arg, "joins">>)>> = t
    BY <2>3, TwoOf
  <2>10. h.todo = t
    BY <1>1, <2>4, <2>9 DEF GameRoomActor, RoomJoin, Then, Broadcast
  <2> QED BY <1>1, <2>4, <2>7, <2>8, <2>10 DEF RoomDoes
<1>2. CASE m.tag = "down"
  <2>1. m.from \in Players
    BY <1>2, MsgsAre
  <2>2. PICK s : s = [r EXCEPT !.members = @ \ {m.from}]
    OBVIOUS
  <2>3. PICK t : t = <<Cast(s.members, "chat", <<m.from, "left">>)>>
    OBVIOUS
  <2>4. s \in S /\ s.members = r.members \ {m.from} /\ s.tick_id = r.tick_id
    BY <2>1, <2>2
  <2>5. <<m.from, "left">> \in Lines
    BY <2>1, LinesIn DEF Texts
  <2>6. Cast(s.members, "chat", <<m.from, "left">>) \in RoomOps
    BY <2>1, <2>4, <2>5, RoomOpsIn
  <2>7. /\ t \in Seq(RoomOps) /\ DOMAIN t = {1}
        /\ t[1] = Cast(s.members, "chat", <<m.from, "left">>)
    BY <2>3, <2>6, Singles
  <2>8. h.st = s /\ h.todo = t
    BY <1>2, <2>2, <2>3, <2>4 DEF GameRoomActor, RoomDown, Then, Broadcast
  <2> QED BY <1>2, <2>4, <2>7, <2>8 DEF RoomDoes
<1>3. CASE m.tag = "chat"
  <2>1. m.arg \in Lines
    BY <1>3, MsgsAre
  <2>2. PICK t : t = <<Cast(r.members, "chat", m.arg)>>
    OBVIOUS
  <2>3. t \in Seq(RoomOps) /\ DOMAIN t = {1} /\ t[1] = Cast(r.members, "chat", m.arg)
    BY <2>1, <2>2, RoomOpsIn, Singles
  <2>4. h.st = r /\ h.todo = t
    BY <1>3, <2>2 DEF GameRoomActor, Then, Broadcast
  <2> QED BY <1>3, <2>3, <2>4 DEF RoomDoes
<1>4. CASE m.tag = "start"
  <2>1. PICK s : s = [r EXCEPT !.ticks_left = Rounds]
    OBVIOUS
  <2>2. PICK t : t = <<Later("tick")>>
    OBVIOUS
  <2>3. s \in S /\ s.members = r.members /\ s.tick_id = r.tick_id
    BY <2>1, ActorConstants
  <2>4. t \in Seq(RoomOps) /\ DOMAIN t = {1} /\ t[1] = Later("tick")
    BY <2>2, RoomOpsIn, Singles
  <2>5. h.st = s /\ h.todo = t
    BY <1>4, <2>1, <2>2, MsgsAre DEF GameRoomActor, RoomStart, Then
  <2> QED BY <1>4, <2>3, <2>4, <2>5 DEF RoomDoes
<1>5. CASE m.tag = "tick"
  <2>1. PICK s : s = [r EXCEPT !.ticks_left = @ - 1, !.tick_id = @ + 1]
    OBVIOUS
  <2>2. PICK c : c = Cast(r.members, "chat", <<"clock", r.tick_id>>)
    OBVIOUS
  <2>3. s \in S /\ s.members = r.members /\ s.tick_id = r.tick_id + 1
    <3>1. r.members \in SUBSET Players /\ r.ticks_left \in Int /\ r.tick_id \in Nat \ {0}
      OBVIOUS
    <3>2. r.ticks_left - 1 \in Int /\ r.tick_id + 1 \in Nat \ {0}
      BY <3>1
    <3>3. s = [members |-> r.members, ticks_left |-> r.ticks_left - 1, tick_id |-> r.tick_id + 1]
      BY <2>1
    <3> QED BY <3>1, <3>2, <3>3
  <2>4. c \in RoomOps
    BY <2>2, RoomOpsIn, LinesIn
  <2>5. h.st = s /\ h.todo = <<c>> \o (IF r.ticks_left > 1 THEN <<Later("tick")>> ELSE <<>>)
    BY <1>5, <2>1, <2>2 DEF GameRoomActor, RoomTick, Then, Broadcast
  <2>6. PICK t : t = h.todo
    OBVIOUS
  <2>7. CASE r.ticks_left > 1
    <3>1. <<c>> \o <<Later("tick")>> = <<c, Later("tick")>>
      BY TwoOf
    <3>2. t = <<c, Later("tick")>>
      BY <2>5, <2>6, <2>7, <3>1
    <3>3. t \in Seq(RoomOps) /\ DOMAIN t = {1, 2} /\ t[1] = c /\ t[2] = Later("tick")
      BY <3>2, <2>4, RoomOpsIn, Singles
    <3> QED BY <1>5, <2>2, <2>3, <2>5, <2>6, <3>3 DEF RoomDoes
  <2>8. CASE ~(r.ticks_left > 1)
    <3>1. <<c>> \o <<>> = <<c>>
      OBVIOUS
    <3>2. t = <<c>>
      BY <2>5, <2>6, <2>8, <3>1
    <3>3. t \in Seq(RoomOps) /\ DOMAIN t = {1} /\ t[1] = c
      BY <3>2, <2>4, Singles
    <3> QED BY <1>5, <2>2, <2>3, <2>5, <2>6, <3>3 DEF RoomDoes
  <2> QED BY <2>7, <2>8
<1> QED BY <1>1, <1>2, <1>3, <1>4, <1>5, MsgsAre

LEMMA RoomTakes ==
  ASSUME Game, TakeMessage("room"), NEW m, m = Head(actor["room"].box),
         NEW s, s = Handle("room", m).st, NEW t, t = Handle("room", m).todo
  PROVE  /\ actor["room"].life = "up" /\ actor["room"].todo = <<>> /\ actor["room"].box # <<>>
         /\ m \in RoomMsgs /\ Actor' = Actor /\ Rest({"room"})
         /\ actor["room"].st \in [members : SUBSET Players, ticks_left : Int, tick_id : Nat \ {0}]
         /\ RoomDoes(m, actor["room"].st, s, t)
         /\ actor'["room"] = Taken(actor["room"], s, t)
<1> "room" \in Actor
  BY DEF Game, Types
<1>1. actor["room"].life = "up" /\ actor["room"].todo = <<>> /\ actor["room"].box # <<>>
  BY DEF TakeMessage, Idle
<1>2. /\ actor["room"].role = "game room" /\ DOMAIN actor["room"] = Fields
      /\ actor["room"].st \in States("room") /\ actor["room"].st # Nothing
  BY <1>1, Life, Names DEF Typed, RoleOf
<1>3. m \in RoomMsgs
  BY <1>1, FirstMsg, OpsOf
<1>4. actor["room"].st \in [members : SUBSET Players, ticks_left : Int, tick_id : Nat \ {0}]
  BY <1>2 DEF States
<1>5. Handle("room", m) = GameRoomActor(actor["room"].st, m)
  BY <1>2 DEF Handle, OfAsio, AsioPrograms, CafHandle, Game
<1>6. actor' = [actor EXCEPT !["room"].st = Handle("room", m).st, !["room"].todo = Handle("room", m).todo,
                             !["room"].box = Tail(actor["room"].box)]
  BY DEF TakeMessage, Run, Becomes
<1>7. Actor' = Actor /\ Rest({"room"})
        /\ actor'["room"] = Taken(actor["room"], s, t)
  BY <1>6 DEF Taken, Rest, Actor
<1>8. RoomDoes(m, actor["room"].st, s, t)
  BY <1>3, <1>4, <1>5, RoomHandles
<1> QED BY <1>1, <1>3, <1>4, <1>7, <1>8

\* Nothing else happens in the game room.
LEMMA StepsAre ==
  ASSUME Game, Next
  PROVE  /\ name' = name
         /\ \E p \in Actor :
             \/ Send(p) \/ SendToAll(p) \/ SetTimer(p) \/ StartActor(p) \/ Monitor(p)
             \/ SendExit(p) \/ Leave(p) \/ TakeMessage(p) \/ Exit(p)
             \/ \E m \in actor[p].timers : TimerFires(p, m)
<1>1. PICK p \in Actor : Step(p)
  BY DEF Next
<1>2. \A ops : Doing(p, ops) => /\ actor[p].todo # <<>>
                                /\ Now(p).op \in {"tell", "start", "kill", "quit", "watch", "cast", "later"}
                                /\ Now(p).op \in ops
  BY FirstOp, OpsOf, MainOpsAre, PlayerOpsAre, RoomOpsAre DEF Doing, Now
<1>3. /\ ~SendRequest(p) /\ ~StartLinked(p) /\ ~WriteSocket(p) /\ ~Delegate(p) /\ ~Respond(p) /\ ~TakeAnswers(p)
      /\ ~TimeOut(p) /\ ~Receive(p) /\ ~WaitFor(p) /\ ~CloseMailbox(p)
  <2>1. ~SendRequest(p) /\ ~StartLinked(p)
    BY <1>2 DEF SendRequest, StartLinked
  <2>2. /\ ~WriteSocket(p) /\ ~Delegate(p) /\ ~Respond(p) /\ ~TakeAnswers(p)
        /\ ~TimeOut(p) /\ ~Receive(p) /\ ~WaitFor(p) /\ ~CloseMailbox(p)
    BY <1>2 DEF WriteSocket, Delegate, Respond, TakeAnswers, TimeOut, Receive, WaitFor, CloseMailbox
  <2> QED BY <2>1, <2>2
<1>4. ~FindClosed(p)
  BY Life DEF FindClosed, Typed
<1>5. name' = name
  BY <1>1, <1>3, <1>4 DEF Step, Proceed, Send, SendToAll, SetTimer, StartActor, Monitor, SendExit,
     Leave, TakeMessage, Run, Exit, TimerFires, Becomes
<1> QED BY <1>1, <1>3, <1>4, <1>5 DEF Step, Proceed

-----------------------------------------------------------------------------
(* The types are kept.                                                     *)

\* One field of a record becomes another, or two.
LEMMA Changed ==
  ASSUME NEW x, DOMAIN x = Fields, NEW f \in Fields, NEW v
  PROVE  LET y == [x EXCEPT ![f] = v]
         IN  DOMAIN y = Fields /\ y[f] = v /\ \A g \in Fields : g # f => y[g] = x[g]
  OBVIOUS

LEMMA TypedTaken ==
  ASSUME NEW a, NEW x, Typed(a, x), x.life = "up", x.box # <<>>, NEW s \in States(a),
         a = "room" => s # Nothing, NEW t \in Seq(Ops(a)),
         NEW y, y = Taken(x, s, t)
  PROVE  Typed(a, y)
<1>1. Tail(x.box) \in Seq(Msgs(a))
  BY TailOf DEF Typed
<1>2. /\ y.st = s /\ y.todo = t /\ y.box = Tail(x.box) /\ DOMAIN y = Fields
      /\ \A f \in Fields : f \notin {"st", "todo", "box"} => y[f] = x[f]
  BY DEF Taken, Typed, Fields
<1> QED BY <1>1, <1>2 DEF Typed, Fields

LEMMA TypedGone ==
  ASSUME Game, NEW p \in Actor, NEW x, Gone(p, x) PROVE Typed(p, x)
<1>1. <<>> \in Seq(Ops(p)) /\ <<>> \in Seq(Msgs(p))
  BY EmptySeq
<1> QED BY <1>1, Life DEF Gone, Typed

LEMMA TypedAlike ==
  ASSUME Game, NEW b \in Actor, NEW x, Alike(b, x) PROVE Typed(b, x)
<1>1. DOMAIN x = Fields /\ \A f \in Fields \ {"answers"} : x[f] = actor[b][f]
  BY DEF Alike
<1>2. /\ x.role = actor[b].role /\ x.life = actor[b].life /\ x.st = actor[b].st
      /\ x.todo = actor[b].todo /\ x.box = actor[b].box /\ x.watchers = actor[b].watchers
      /\ x.closed = actor[b].closed /\ x.killed = actor[b].killed /\ x.timers = actor[b].timers
  BY <1>1 DEF Fields
<1> QED BY <1>1, <1>2, Life DEF Typed

LEMMA EndTypes ==
  ASSUME Game, NEW p \in Actor, NEW why, p \in Players => why = "killed", actor' = Ended(actor, p, why)
  PROVE  \A b \in Actor : Typed(b, actor'[b])
<1>1. ASSUME NEW b \in Actor, b # p PROVE Typed(b, actor'[b])
  <2> DEFINE told == b \in actor[p].watchers /\ actor[b].life # "down"
  <2>1. PICK x : Alike(b, x) /\ actor'[b] = IF told THEN Told(x, Down(p, why)) ELSE x
    BY <1>1, EndDoes
  <2>2. Typed(b, x)
    BY <2>1, TypedAlike
  <2>3. ASSUME told PROVE Down(p, why) \in Msgs(b)
    <3>1. p \in Players /\ b = "room"
      BY <2>3, Life DEF Typed
    <3>2. Msgs(b) = RoomMsgs
      BY <3>1, OpsOf
    <3> QED BY <3>1, <3>2 DEF RoomMsgs
  <2> QED BY <2>1, <2>2, <2>3, TypedTold
<1>2. Typed(p, actor'[p])
  BY EndDoes, TypedGone
<1> QED BY <1>1, <1>2

LEMMA TypesKept == ASSUME Game, Next PROVE Game' /\ Actor' = Actor
<1>1. PICK p \in Actor :
             \/ Send(p) \/ SendToAll(p) \/ SetTimer(p) \/ StartActor(p) \/ Monitor(p)
             \/ SendExit(p) \/ Leave(p) \/ TakeMessage(p) \/ Exit(p)
             \/ \E m \in actor[p].timers : TimerFires(p, m)
  BY StepsAre
<1>2. /\ \A b \in Actor : Typed(b, actor[b]) /\ DOMAIN actor[b] = Fields
      /\ Actor = Players \cup {"main", "room"}
  BY DEF Game, Types, Typed
<1>3. actor[p].todo # <<>> => Typed(p, Popped(p))
  BY <1>2, TypedPopped DEF Popped
<1>4. Actor' = Actor /\ \A b \in Actor : Typed(b, actor'[b])
  <2>1. CASE Send(p)
    <3>1. PICK q, m : q = Now(p).to /\ m = Message(Now(p).tag, Now(p).arg, p, 0)
      OBVIOUS
    <3>2. /\ q \in Actor /\ p # q /\ m \in Msgs(q) /\ Now(p).op = "tell" /\ actor[p].todo # <<>>
          /\ Actor' = Actor /\ actor'[p] = Popped(p) /\ Rest({p, q})
          /\ actor'[q] = IF actor[q].life # "down" THEN Told(actor[q], m) ELSE actor[q]
      BY <2>1, <3>1, SendDoes
    <3>3. Typed(q, Told(actor[q], m))
      BY <1>2, <3>2, TypedTold
    <3> QED BY <1>2, <1>3, <3>2, <3>3 DEF Rest
  <2>2. CASE SendToAll(p)
    <3>1. PICK m : m = Message("chat", Now(p).arg, "room", 0)
      OBVIOUS
    <3>2. /\ p = "room" /\ Now(p).tos \in SUBSET Players
          /\ actor[p].todo # <<>> /\ m \in PlayerMsgs
          /\ Actor' = Actor /\ actor'[p] = Popped(p) /\ Rest({"room"} \cup Now(p).tos)
          /\ \A q \in Now(p).tos :
               actor'[q] = IF actor[q].life # "down" THEN Told(actor[q], m) ELSE actor[q]
      BY <2>2, <3>1, CastDoes
    <3>3. \A q \in Now(p).tos : Typed(q, Told(actor[q], m))
      BY <1>2, <3>2, TypedTold, OpsOf
    <3> QED BY <1>2, <1>3, <3>2, <3>3 DEF Rest
  <2>3. CASE SetTimer(p)
    <3>1. /\ p = "room" /\ actor[p].todo # <<>> /\ Actor' = Actor /\ Rest({p})
          /\ actor'[p] = [Popped(p) EXCEPT !.timers = @ \cup {TickMsg}]
      BY <2>3, SetTimerDoes
    <3>2. PICK x, y : x = Popped(p) /\ y = actor'[p]
      OBVIOUS
    <3>3. /\ DOMAIN y = Fields /\ y.timers \subseteq {TickMsg}
          /\ \A f \in Fields : f # "timers" => y[f] = x[f]
      BY <1>3, <3>1, <3>2 DEF Typed, Fields
    <3>4. Typed(p, y)
      BY <1>3, <3>1, <3>2, <3>3 DEF Typed, Fields
    <3> QED BY <1>2, <3>1, <3>2, <3>4 DEF Rest
  <2>4. CASE StartActor(p)
    <3>1. PICK a, o : a = Now(p).actor /\ o = Now(p)
      OBVIOUS
    <3>2. /\ p = "main" /\ actor[p].todo # <<>> /\ Actor' = Actor
          /\ \/ a = "room" /\ o.st = NewRoom /\ o.todo = <<>>
             \/ a \in Players /\ o.st = <<>> /\ o.todo = <<Tell("room", "join", a)>>
          /\ actor'[p] = Popped(p) /\ Rest({p, a}) /\ a \in Actor /\ a # p
          /\ actor'[a] = [actor[a] EXCEPT !.life = "up", !.st = o.st, !.todo = o.todo]
      BY <2>4, <3>1, StartDoes
    <3>3. o.st \in States(a) /\ o.todo \in Seq(Ops(a)) /\ (a = "room" => o.st # Nothing)
      <4>1. CASE a = "room"
        <5>1. NewRoom \in [members : SUBSET Players, ticks_left : Int, tick_id : Nat \ {0}]
          BY DEF NewRoom
        <5>2. \A r \in [members : SUBSET Players, ticks_left : Int, tick_id : Nat \ {0}] : r # Nothing
          BY DEF Nothing
        <5>3. o.st = NewRoom /\ o.todo = <<>>
          BY <3>2, <4>1, Names
        <5> QED BY <4>1, <5>1, <5>2, <5>3, EmptySeq DEF States
      <4>2. CASE a \in Players
        <5>1. o.st = <<>> /\ o.todo = <<Tell("room", "join", a)>>
          BY <3>2, <4>2, Names
        <5>2. Ops(a) = PlayerOps(a) /\ a # "room" /\ a # "main"
          BY <3>2, <4>2, OpsOf, Names
        <5>3. Tell("room", "join", a) \in PlayerOps(a)
          BY DEF PlayerOps
        <5>4. o.todo \in Seq(PlayerOps(a))
          BY <5>1, <5>3, Singles
        <5> QED BY <5>1, <5>2, <5>4, EmptySeq DEF States
      <4> QED BY <3>2, <4>1, <4>2
    <3>4. PICK y : y = actor'[a]
      OBVIOUS
    <3>5. /\ DOMAIN y = Fields /\ y.life = "up" /\ y.st = o.st /\ y.todo = o.todo
          /\ \A f \in Fields : f \notin {"life", "st", "todo"} => y[f] = actor[a][f]
      BY <1>2, <3>2, <3>4 DEF Fields
    <3>6. Typed(a, y)
      BY <1>2, <3>2, <3>3, <3>5 DEF Typed, Fields
    <3> QED BY <1>2, <1>3, <3>2, <3>4, <3>6 DEF Rest
  <2>5. CASE Monitor(p)
    <3>1. PICK q : q = Now(p).actor
      OBVIOUS
    <3>2. /\ p = "room" /\ actor[p].todo # <<>> /\ q \in Players /\ q \in Actor
          /\ Actor' = Actor
          /\ \/ /\ actor[q].life = "down" /\ actor'[p] = Told(Popped(p), Down(q, "gone")) /\ Rest({p})
             \/ /\ actor[q].life # "down" /\ actor'[p] = Popped(p) /\ Rest({p, q})
                /\ actor'[q] = [actor[q] EXCEPT !.watchers = @ \cup {"room"}]
      BY <2>5, <3>1, MonitorDoes
    <3>3. CASE actor[q].life = "down"
      <4>1. Down(q, "gone") \in Msgs(p)
        BY <3>2, OpsOf DEF RoomMsgs
      <4>2. Typed(p, Told(Popped(p), Down(q, "gone")))
        BY <1>3, <3>2, <4>1, TypedTold
      <4> QED BY <1>2, <3>2, <3>3, <4>2 DEF Rest
    <3>4. CASE actor[q].life # "down"
      <4>1. PICK y : y = actor'[q]
        OBVIOUS
      <4>2. /\ DOMAIN y = Fields /\ y.watchers = actor[q].watchers \cup {"room"}
            /\ \A f \in Fields : f # "watchers" => y[f] = actor[q][f]
        BY <1>2, <3>2, <3>4, <4>1 DEF Fields
      <4>3. Typed(q, y)
        BY <1>2, <3>2, <3>4, <4>2 DEF Typed, Fields
      <4> QED BY <1>2, <1>3, <3>2, <3>4, <4>1, <4>3 DEF Rest
    <3> QED BY <3>3, <3>4
  <2>6. CASE SendExit(p)
    <3>1. PICK a : a = Now(p).actor
      OBVIOUS
    <3>2. /\ p = "main" /\ actor[p].todo # <<>> /\ a \in Actor /\ a # p /\ Actor' = Actor
          /\ actor'[p] = Popped(p) /\ Rest({p, a})
          /\ actor'[a] = [actor[a] EXCEPT !.killed = TRUE]
      BY <2>6, <3>1, KillDoes
    <3>3. PICK y : y = actor'[a]
      OBVIOUS
    <3>4. DOMAIN y = Fields /\ y.killed = TRUE /\ \A f \in Fields : f # "killed" => y[f] = actor[a][f]
      BY <1>2, <3>2, <3>3 DEF Fields
    <3>5. Typed(a, y)
      BY <1>2, <3>2, <3>4, ZenonT(60) DEF Typed, Fields
    <3> QED BY <1>2, <1>3, <3>2, <3>3, <3>5 DEF Rest
  <2>7. CASE Leave(p)
    <3>1. PICK why : p = "main" /\ actor' = Ended(actor, p, why)
      BY <2>7, LeaveDoes
    <3> QED BY <3>1, EndDoes, EndTypes, Names
  <2>8. CASE TakeMessage(p)
    <3>1. actor[p].box # <<>> /\ p # "main"
      BY <2>8, FirstMsg DEF TakeMessage
    <3>2. PICK m : m = Head(actor[p].box)
      OBVIOUS
    <3>3. CASE p = "room"
      <4>1. PICK s, t : s = Handle("room", m).st /\ t = Handle("room", m).todo
        OBVIOUS
      <4>2. /\ actor["room"].life = "up" /\ actor["room"].box # <<>> /\ Actor' = Actor
            /\ Rest({"room"}) /\ RoomDoes(m, actor["room"].st, s, t)
            /\ actor'["room"] = Taken(actor["room"], s, t)
        BY <2>8, <3>2, <3>3, <4>1, RoomTakes
      <4>3. /\ s \in [members : SUBSET Players, ticks_left : Int, tick_id : Nat \ {0}]
            /\ t \in Seq(RoomOps)
        BY <4>2 DEF RoomDoes
      <4>4. s \in States(p) /\ s # Nothing /\ t \in Seq(Ops(p))
        BY <3>3, <4>3, OpsOf DEF States, Nothing
      <4>5. Typed(p, actor'[p])
        BY <1>2, <3>3, <4>2, <4>4, TypedTaken
      <4> QED BY <1>2, <3>3, <4>2, <4>5 DEF Rest
    <3>4. CASE p \in Players
      <4>1. /\ actor[p].life = "up" /\ actor[p].todo = <<>> /\ actor[p].box # <<>> /\ p \in Actor
            /\ m \in PlayerMsgs /\ Actor' = Actor /\ Rest({p})
            /\ \/ /\ m.tag = "say"
                  /\ actor'[p] = Taken(actor[p], actor[p].st, <<Tell("room", "chat", <<p, m.arg>>)>>)
               \/ /\ m.tag = "chat"
                  /\ actor'[p] = Taken(actor[p], Append(actor[p].st, m.arg), actor[p].todo)
        BY <2>8, <3>2, <3>4, PlayerTakes
      <4>2. States(p) = Seq(Lines) /\ Ops(p) = PlayerOps(p)
        BY <3>4, OpsOf, Names DEF States
      <4>3. PICK s, t : /\ s = IF m.tag = "say" THEN actor[p].st ELSE Append(actor[p].st, m.arg)
                        /\ t = IF m.tag = "say" THEN <<Tell("room", "chat", <<p, m.arg>>)>>
                               ELSE actor[p].todo
        OBVIOUS
      <4>4. s \in States(p)
        BY <1>2, <4>1, <4>2, <4>3, MsgsAre, AppendOf DEF Typed
      <4>5. t \in Seq(Ops(p))
        <5>1. CASE m.tag = "say"
          <6>1. <<p, m.arg>> \in Lines
            BY <3>4, <4>1, <5>1, MsgsAre, LinesIn
          <6>2. Tell("room", "chat", <<p, m.arg>>) \in PlayerOps(p)
            BY <6>1 DEF PlayerOps
          <6> QED BY <4>2, <4>3, <5>1, <6>2, Singles
        <5>2. CASE m.tag # "say"
          BY <1>2, <4>3, <5>2 DEF Typed
        <5> QED BY <5>1, <5>2
      <4>6. actor'[p] = Taken(actor[p], s, t)
        BY <4>1, <4>3
      <4>7. Typed(p, actor'[p])
        BY <1>2, <3>4, <4>1, <4>4, <4>5, <4>6, TypedTaken, Names
      <4> QED BY <1>2, <4>1, <4>7 DEF Rest
    <3> QED BY <1>2, <3>1, <3>3, <3>4
  <2>9. CASE Exit(p)
    BY <2>9, ExitDoes, EndDoes, EndTypes
  <2>10. CASE \E m \in actor[p].timers : TimerFires(p, m)
    <3>1. /\ p = "room" /\ actor[p].life = "up" /\ Actor' = Actor /\ Rest({p})
          /\ actor'[p] = [Told(actor[p], TickMsg) EXCEPT !.timers = @ \ {TickMsg}]
      BY <2>10, TimerDoes
    <3>2. TickMsg \in Msgs(p)
      BY <3>1, OpsOf DEF RoomMsgs
    <3>3. PICK x, y : x = Told(actor[p], TickMsg) /\ y = actor'[p]
      OBVIOUS
    <3>4. Typed(p, x)
      BY <1>2, <3>2, <3>3, TypedTold
    <3>5. /\ DOMAIN y = Fields /\ y.timers \subseteq {TickMsg}
          /\ \A f \in Fields : f # "timers" => y[f] = x[f]
      BY <3>1, <3>3, <3>4 DEF Typed, Fields
    <3>6. Typed(p, y)
      BY <3>1, <3>4, <3>5 DEF Typed, Fields
    <3> QED BY <1>2, <3>1, <3>3, <3>6 DEF Rest
  <2> QED BY <1>1, <2>1, <2>2, <2>3, <2>4, <2>5, <2>6, <2>7, <2>8, <2>9, <2>10
<1> QED BY <1>2, <1>4, StepsAre DEF Game, Types, Actor

-----------------------------------------------------------------------------
(* Lines move from one place to another, until they are told.              *)

LEMMA Moved ==
  ASSUME OnePlace, Unseen, Actor' = Actor, NEW h, NEW kc \in Kinds, NEW ac \in Actor, NEW kd, NEW ad,
         \A k \in Kinds : \A a \in Actor : \A l \in Lines :
           Holds(k, a, actor'[a], l) => Holds(k, a, actor[a], l) \/ (l \in h /\ k = kd /\ a = ad),
         \A l \in Lines : l \in h => /\ Holds(kc, ac, actor[ac], l)
                                     /\ ~Holds(kc, ac, actor'[ac], l) \/ (kc = kd /\ ac = ad),
         \A p \in Players : \A l \in Lines : Sees(actor'[p], l) => Sees(actor[p], l)
  PROVE  OnePlace' /\ Unseen'
<1>1. ASSUME NEW k1 \in Kinds, NEW k2 \in Kinds, NEW a \in Actor, NEW b \in Actor, NEW l \in Lines,
             Holds(k1, a, actor'[a], l), Holds(k2, b, actor'[b], l)
      PROVE  k1 = k2 /\ a = b
  <2>1. CASE l \notin h
    BY <1>1, <2>1 DEF OnePlace
  <2>2. CASE l \in h
    <3>1. Holds(kc, ac, actor[ac], l) /\ (~Holds(kc, ac, actor'[ac], l) \/ (kc = kd /\ ac = ad))
      BY <2>2
    <3>2. (k1 = kd /\ a = ad) \/ Holds(k1, a, actor[a], l)
      BY <1>1
    <3>3. (k2 = kd /\ b = ad) \/ Holds(k2, b, actor[b], l)
      BY <1>1
    <3>4. Holds(k1, a, actor[a], l) => k1 = kc /\ a = ac
      BY <3>1 DEF OnePlace
    <3>5. Holds(k2, b, actor[b], l) => k2 = kc /\ b = ac
      BY <3>1 DEF OnePlace
    <3> QED BY <1>1, <3>1, <3>2, <3>3, <3>4, <3>5
  <2> QED BY <2>1, <2>2
<1>2. ASSUME NEW k \in Kinds, NEW a \in Actor, NEW l \in Lines, NEW p \in Players,
             Holds(k, a, actor'[a], l), Sees(actor'[p], l)
      PROVE  FALSE
  <2>1. Sees(actor[p], l)
    BY <1>2
  <2>2. Holds(k, a, actor[a], l) \/ Holds(kc, ac, actor[ac], l)
    BY <1>2
  <2> QED BY <2>1, <2>2 DEF Unseen
<1> QED BY <1>1, <1>2 DEF OnePlace, Unseen

LEMMA Shown ==
  ASSUME OnePlace, Unseen, Actor' = Actor, NEW c \in Lines, NEW kc \in Kinds, NEW ac \in Actor,
         \A k \in Kinds : \A a \in Actor : \A l \in Lines :
           Holds(k, a, actor'[a], l) => Holds(k, a, actor[a], l),
         Holds(kc, ac, actor[ac], c), ~Holds(kc, ac, actor'[ac], c),
         \A p \in Players : \A l \in Lines : Sees(actor'[p], l) => Sees(actor[p], l) \/ l = c
  PROVE  OnePlace' /\ Unseen'
<1>1. OnePlace'
  BY DEF OnePlace
<1>2. ASSUME NEW k \in Kinds, NEW a \in Actor, NEW l \in Lines, NEW p \in Players,
             Holds(k, a, actor'[a], l), Sees(actor'[p], l)
      PROVE  FALSE
  <2>1. Holds(k, a, actor[a], l)
    BY <1>2
  <2>2. l = c
    BY <1>2, <2>1 DEF Unseen
  <2>3. k = kc /\ a = ac
    BY <2>1, <2>2 DEF OnePlace
  <2> QED BY <1>2, <2>2, <2>3
<1> QED BY <1>1, <1>2 DEF Unseen

LEMMA OrderKept ==
  ASSUME OneOrder,
         \A p \in Players : \A l, m \in Lines : Before(actor'[p], l, m) => Before(actor[p], l, m)
  PROVE  OneOrder'
  BY DEF OneOrder

LEMMA BeforeSees == \A x, l, m : Before(x, l, m) => Sees(x, l) /\ Sees(x, m)
  BY DEF Before, Sees

LEMMA OrderGrows ==
  ASSUME OneOrder, NEW c \in Lines, \A p \in Players : ~Sees(actor[p], c),
         \A p \in Players : \A l, m \in Lines :
           Before(actor'[p], l, m) => Before(actor[p], l, m) \/ (m = c /\ Sees(actor[p], l))
  PROVE  OneOrder'
<1>1. ASSUME NEW p \in Players, NEW q \in Players, NEW l \in Lines, NEW m \in Lines,
             Before(actor'[p], l, m), Before(actor'[q], m, l)
      PROVE  FALSE
  <2>1. Before(actor[p], l, m) \/ (m = c /\ Sees(actor[p], l))
    BY <1>1
  <2>2. Before(actor[q], m, l) \/ (l = c /\ Sees(actor[q], m))
    BY <1>1
  <2>3. CASE Before(actor[p], l, m)
    BY <2>2, <2>3, BeforeSees DEF OneOrder
  <2>4. CASE m = c /\ Sees(actor[p], l)
    BY <2>2, <2>4, BeforeSees
  <2> QED BY <2>1, <2>3, <2>4
<1> QED BY <1>1 DEF OneOrder

-----------------------------------------------------------------------------
(* What becomes of the lines of one actor.                                 *)

\* y holds, sees and orders no more than x.
Less(a, x, y) ==
  /\ \A k, l : Holds(k, a, y, l) => Holds(k, a, x, l)
  /\ \A l : Sees(y, l) => Sees(x, l)
  /\ \A l, m : Before(y, l, m) => Before(x, l, m)
  /\ Apart(a, x) => Apart(a, y)

LEMMA LessSame ==
  ASSUME NEW a, NEW x, NEW y, y.todo = x.todo, y.box = x.box, y.watchers = x.watchers,
         y.life = x.life, y.st = x.st
  PROVE  Less(a, x, y)
  BY DEF Less, Holds, Sees, Before, Apart

LEMMA LessTrans ==
  ASSUME NEW a, NEW x, NEW y, NEW z, Less(a, x, y), Less(a, y, z) PROVE Less(a, x, z)
  BY DEF Less

LEMMA LessPopped ==
  ASSUME NEW a, NEW x, Typed(a, x), x.todo # <<>>, NEW y, y = [x EXCEPT !.todo = Tail(@)]
  PROVE  /\ Less(a, x, y) /\ \A l \in OpLines(x.todo[1]) : Holds("todo", a, x, l)
         /\ Apart(a, x) => \A l \in OpLines(x.todo[1]) : ~Holds("todo", a, y, l)
<1>1. /\ 1 \in DOMAIN x.todo /\ y.todo = Tail(x.todo)
      /\ y.box = x.box /\ y.watchers = x.watchers /\ y.life = x.life /\ y.st = x.st
  BY TailOf DEF Typed, Fields
<1>2. \A i \in DOMAIN y.todo : /\ i + 1 \in DOMAIN x.todo /\ y.todo[i] = x.todo[i + 1]
                               /\ i \in Nat \ {0}
  BY <1>1, TailOf DEF Typed
<1>3. \A k, l : Holds(k, a, y, l) => Holds(k, a, x, l)
  BY <1>1, <1>2 DEF Holds
<1>4. \A l : Sees(y, l) => Sees(x, l)
  BY <1>1 DEF Sees
<1>5. \A l, m : Before(y, l, m) => Before(x, l, m)
  BY <1>1 DEF Before
<1>6. ASSUME Apart(a, x) PROVE Apart(a, y) /\ \A l \in OpLines(x.todo[1]) : ~Holds("todo", a, y, l)
  <2>1. ASSUME NEW i \in DOMAIN y.todo, NEW j \in DOMAIN y.todo, i # j
        PROVE  OpLines(y.todo[i]) \cap OpLines(y.todo[j]) = {}
    <3>1. i + 1 \in DOMAIN x.todo /\ j + 1 \in DOMAIN x.todo /\ i + 1 # j + 1
            /\ y.todo[i] = x.todo[i + 1] /\ y.todo[j] = x.todo[j + 1]
      BY <1>2, <2>1
    <3> QED BY <3>1, <1>6 DEF Apart
  <2>2. ASSUME NEW i \in DOMAIN y.todo PROVE OpLines(x.todo[1]) \cap OpLines(y.todo[i]) = {}
    <3>1. i + 1 \in DOMAIN x.todo /\ i + 1 # 1 /\ y.todo[i] = x.todo[i + 1]
      BY <1>2
    <3> QED BY <3>1, <1>1, <1>6 DEF Apart
  <2>3. Apart(a, y)
    BY <1>1, <1>6, <2>1 DEF Apart
  <2> QED BY <2>2, <2>3 DEF Holds
<1>7. \A l \in OpLines(x.todo[1]) : Holds("todo", a, x, l)
  BY <1>1 DEF Holds
<1> QED BY <1>3, <1>4, <1>5, <1>6, <1>7 DEF Less

\* A message comes.
LEMMA LinesTold ==
  ASSUME NEW a, NEW x, Typed(a, x), NEW m \in Msgs(a), NEW y, y = Told(x, m)
  PROVE  /\ \A k, l : Holds(k, a, y, l) =>
              Holds(k, a, x, l) \/ (k = "box" /\ l \in MsgLines(a, m))
         /\ \A l : Sees(y, l) => Sees(x, l) \/ IsLine(m, l)
         /\ \A l, n : Before(y, l, n) => Before(x, l, n) \/ (IsLine(m, n) /\ Sees(x, l))
         /\ Apart(a, x) /\ (\A l \in MsgLines(a, m) : ~Holds("box", a, x, l)) => Apart(a, y)
<1>1. /\ y.box = Append(x.box, m)
      /\ y.todo = x.todo /\ y.watchers = x.watchers /\ y.life = x.life /\ y.st = x.st
  BY DEF Typed, Told, Fields
<1>2. /\ Len(x.box) \in Nat /\ DOMAIN y.box = DOMAIN x.box \cup {Len(x.box) + 1}
      /\ y.box[Len(x.box) + 1] = m
      /\ \A i \in DOMAIN x.box : i \in Nat /\ i <= Len(x.box) /\ y.box[i] = x.box[i]
  BY <1>1, AppendOf DEF Typed
<1>3. \A k, l : Holds(k, a, y, l) => Holds(k, a, x, l) \/ (k = "box" /\ l \in MsgLines(a, m))
  BY <1>1, <1>2 DEF Holds
<1>4. \A l : Sees(y, l) => Sees(x, l) \/ IsLine(m, l)
  BY <1>1, <1>2 DEF Sees
<1>5. ASSUME NEW l, NEW n, Before(y, l, n) PROVE Before(x, l, n) \/ (IsLine(m, n) /\ Sees(x, l))
  <2>1. CASE \E i, j \in DOMAIN y.st : i < j /\ y.st[i] = l /\ y.st[j] = n
    BY <1>1, <2>1 DEF Before
  <2>2. CASE \E i \in DOMAIN y.st : \E j \in DOMAIN y.box : y.st[i] = l /\ IsLine(y.box[j], n)
    BY <1>1, <1>2, <2>2 DEF Before, Sees
  <2>3. CASE \E i, j \in DOMAIN y.box : i < j /\ IsLine(y.box[i], l) /\ IsLine(y.box[j], n)
    <3>1. PICK i, j \in DOMAIN y.box : i < j /\ IsLine(y.box[i], l) /\ IsLine(y.box[j], n)
      BY <2>3
    <3>2. i \in DOMAIN x.box
      BY <1>2, <3>1
    <3>3. CASE j \in DOMAIN x.box
      BY <1>2, <3>1, <3>2, <3>3 DEF Before
    <3>4. CASE j = Len(x.box) + 1
      BY <1>2, <3>1, <3>2, <3>4 DEF Sees
    <3> QED BY <1>2, <3>3, <3>4
  <2> QED BY <1>5, <2>1, <2>2, <2>3 DEF Before
<1>6. ASSUME Apart(a, x), \A l \in MsgLines(a, m) : ~Holds("box", a, x, l)
      PROVE  Apart(a, y)
  <2>1. \A i \in DOMAIN x.box : MsgLines(a, x.box[i]) \cap MsgLines(a, m) = {}
    BY <1>6 DEF Holds
  <2>2. ASSUME NEW i \in DOMAIN y.box, NEW j \in DOMAIN y.box, i # j
        PROVE  MsgLines(a, y.box[i]) \cap MsgLines(a, y.box[j]) = {}
    BY <1>2, <1>6, <2>1, <2>2 DEF Apart
  <2> QED BY <1>1, <1>6, <2>2 DEF Apart
<1> QED BY <1>3, <1>4, <1>5, <1>6

LEMMA LessGone ==
  ASSUME Game, NEW p \in Actor, NEW y, Gone(p, y) PROVE Less(p, actor[p], y)
<1>1. /\ y.life = "down" /\ y.st = actor[p].st /\ DOMAIN y.todo = {} /\ DOMAIN y.box = {}
      /\ y.watchers = {}
  BY DEF Gone
<1> QED BY <1>1 DEF Less, Holds, Sees, Before, Apart

LEMMA LessAlike ==
  ASSUME NEW b, NEW y, Alike(b, y) PROVE Less(b, actor[b], y)
<1>1. y.todo = actor[b].todo /\ y.box = actor[b].box /\ y.watchers = actor[b].watchers
        /\ y.life = actor[b].life /\ y.st = actor[b].st
  BY DEF Alike, Fields
<1> QED BY <1>1, LessSame


-----------------------------------------------------------------------------
(* Nobody's lines are lost sight of.                                       *)

Lined == (\A a \in Actor : Apart(a, actor[a])) /\ OnePlace /\ Unseen /\ OneOrder

LEMMA TheLines ==
  ASSUME Game, NEW a \in Actor
  PROVE  /\ \A o \in Ops(a) : OpLines(o) \subseteq Lines
         /\ \A m \in Msgs(a) : MsgLines(a, m) \subseteq Lines
<1>1. \A p \in Players : Both(p) \subseteq Lines /\ \A t \in Texts : {<<p, t>>} \subseteq Lines
  BY LinesIn DEF Both, Texts
<1>2. ClockFrom(1) \subseteq Lines /\ "left" \in Texts
  BY DEF Lines, Texts
<1>3. ASSUME NEW o \in Ops(a) PROVE OpLines(o) \subseteq Lines
  <2>1. CASE a = "main"
    BY <2>1, <1>1, <1>2, <1>3, OpsOf, MainOpsAre, Names DEF OpLines
  <2>2. CASE a = "room"
    BY <2>2, <1>1, <1>2, <1>3, OpsOf, RoomOpsAre DEF OpLines
  <2>3. CASE a \in Players
    BY <2>3, <1>1, <1>3, OpsOf, PlayerOpsAre DEF OpLines
  <2> QED BY <2>1, <2>2, <2>3, OpsOf
<1>4. ASSUME NEW m \in Msgs(a) PROVE MsgLines(a, m) \subseteq Lines
  <2>1. CASE a = "room"
    BY <2>1, <1>1, <1>2, <1>4, OpsOf, MsgsAre DEF MsgLines
  <2>2. CASE a \in Players
    BY <2>2, <1>1, <1>4, OpsOf, MsgsAre DEF MsgLines
  <2> QED BY <2>1, <2>2, <1>4, OpsOf
<1> QED BY <1>3, <1>4

\* Nothing comes anywhere.
LEMMA QuietStep ==
  ASSUME Game, Lined, Actor' = Actor, \A a \in Actor : Less(a, actor[a], actor'[a])
  PROVE  Lined'
<1>1. \A p \in Players : p \in Actor
  BY DEF Game, Types
<1>2. \A a \in Actor : Apart(a, actor'[a])
  BY DEF Lined, Less
<1>3. OnePlace'
  BY DEF Lined, OnePlace, Less
<1>4. Unseen'
  BY <1>1 DEF Lined, Unseen, Less
<1>5. OneOrder'
  BY <1>1 DEF Lined, OneOrder, Less
<1> QED BY <1>2, <1>3, <1>4, <1>5 DEF Lined

\* The lines h come to the place kd of ad, from kc of ac.
Comes(a, x, y, h, kd, ad) ==
  \A k \in Kinds : \A l \in Lines : Holds(k, a, y, l) => Holds(k, a, x, l) \/ (l \in h /\ k = kd /\ a = ad)
Quiet(x, y) == /\ \A l : Sees(y, l) => Sees(x, l)
               /\ \A l, m : Before(y, l, m) => Before(x, l, m)

LEMMA MoveStep ==
  ASSUME Game, Lined, Actor' = Actor, NEW h, NEW kc \in Kinds, NEW ac \in Actor, NEW kd, NEW ad,
         \A a \in Actor : Comes(a, actor[a], actor'[a], h, kd, ad) /\ Apart(a, actor'[a]),
         \A l \in h : /\ Holds(kc, ac, actor[ac], l)
                      /\ ~Holds(kc, ac, actor'[ac], l) \/ (kc = kd /\ ac = ad),
         \A p \in Players : Quiet(actor[p], actor'[p])
  PROVE  Lined'
<1>1. OnePlace' /\ Unseen'
  BY Moved DEF Comes, Quiet, Lined
<1>2. OneOrder'
  BY OrderKept DEF Quiet, Lined
<1> QED BY <1>1, <1>2 DEF Lined

LEMMA LessComes ==
  ASSUME NEW a, NEW x, NEW y, Less(a, x, y)
  PROVE  Quiet(x, y) /\ (Apart(a, x) => Apart(a, y)) /\ \A h, kd, ad : Comes(a, x, y, h, kd, ad)
  BY DEF Less, Quiet, Comes

LEMMA RestLess == ASSUME NEW S, Rest(S) PROVE \A b \in Actor \ S : Less(b, actor[b], actor'[b])
  BY DEF Rest, Less

\* A message on the list stands for the lines it stands for in the mailbox.
LEMMA SameLines ==
  ASSUME Game, NEW p \in Actor, Send(p), NEW m, m = Message(Now(p).tag, Now(p).arg, p, 0)
  PROVE  /\ MsgLines(Now(p).to, m) = OpLines(Now(p))
         /\ Now(p).to \in Players => \A l : ~IsLine(m, l)
<1>1. actor[p].todo # <<>> /\ Now(p).op = "tell" /\ m.tag = Now(p).tag /\ m.arg = Now(p).arg
  BY SendDoes DEF Message
<1>2. Now(p) \in Ops(p)
  BY <1>1, FirstOp
<1>3. CASE p = "main"
  <2>1. \/ Now(p).to \in Players /\ m.tag = "say"
        \/ Now(p).to = "room" /\ m.tag = "start"
    BY <1>1, <1>2, <1>3, OpsOf, MainOpsAre
  <2> QED BY <2>1, <1>1, Names DEF MsgLines, OpLines, IsLine
<1>4. CASE p \in Players
  <2>1. Now(p).to = "room" /\ m.tag \in {"join", "chat"}
    BY <1>1, <1>2, <1>4, OpsOf, PlayerOpsAre
  <2> QED BY <2>1, <1>1, Names DEF MsgLines, OpLines, IsLine
<1>5. CASE p = "room"
  BY <1>1, <1>2, <1>5, OpsOf, RoomOpsAre
<1> QED BY <1>3, <1>4, <1>5, OpsOf

LEMMA SendLined == ASSUME Game, Lined, NEW p \in Actor, Send(p) PROVE Lined'
<1>1. PICK q, m : q = Now(p).to /\ m = Message(Now(p).tag, Now(p).arg, p, 0)
  OBVIOUS
<1>2. /\ q \in Actor /\ p # q /\ m \in Msgs(q) /\ actor[p].todo # <<>>
      /\ Actor' = Actor /\ actor'[p] = Popped(p) /\ Rest({p, q})
      /\ actor'[q] = IF actor[q].life # "down" THEN Told(actor[q], m) ELSE actor[q]
  BY <1>1, SendDoes
<1> DEFINE h == OpLines(actor[p].todo[1])
<1>3. /\ Less(p, actor[p], actor'[p]) /\ \A l \in h : Holds("todo", p, actor[p], l)
      /\ \A l \in h : ~Holds("todo", p, actor'[p], l)
  BY <1>2, Life, LessPopped DEF Popped, Lined
<1>4. \A b \in Actor \ {p, q} : Less(b, actor[b], actor'[b])
  BY <1>2, RestLess
<1>5. CASE actor[q].life = "down"
  <2>1. Less(q, actor[q], actor'[q])
    BY <1>2, <1>5 DEF Less
  <2> QED BY <1>2, <1>3, <1>4, <2>1, QuietStep
<1>6. CASE actor[q].life # "down"
  <2>1. MsgLines(q, m) = h /\ (q \in Players => \A l : ~IsLine(m, l)) /\ h \subseteq Lines
    BY <1>1, <1>2, SameLines, FirstOp, TheLines
  <2>2. actor'[q] = Told(actor[q], m)
    BY <1>2, <1>6
  <2>3. \A l \in h : ~Holds("box", q, actor[q], l)
    BY <1>2, <1>3, <2>1 DEF Lined, OnePlace, Kinds
  <2>4. Comes(q, actor[q], actor'[q], h, "box", q) /\ Apart(q, actor'[q])
          /\ (q \in Players => Quiet(actor[q], actor'[q]))
    <3>1. PICK x, y : x = actor[q] /\ y = actor'[q]
      OBVIOUS
    <3>2. Typed(q, x) /\ Apart(q, x) /\ y = Told(x, m) /\ \A l \in h : ~Holds("box", q, x, l)
      BY <1>2, <2>2, <2>3, <3>1, Life DEF Lined
    <3>3. /\ \A k, l : Holds(k, q, y, l) => Holds(k, q, x, l) \/ (k = "box" /\ l \in h)
          /\ \A l : Sees(y, l) => Sees(x, l) \/ IsLine(m, l)
          /\ \A l, n : Before(y, l, n) => Before(x, l, n) \/ (IsLine(m, n) /\ Sees(x, l))
          /\ Apart(q, y)
      BY <1>2, <2>1, <3>2, LinesTold
    <3> QED BY <2>1, <3>1, <3>3 DEF Comes, Quiet
  <2>5. \A a \in Actor : Comes(a, actor[a], actor'[a], h, "box", q) /\ Apart(a, actor'[a])
    BY <1>3, <1>4, <2>4, LessComes DEF Lined
  <2>6. \A a \in Players : Quiet(actor[a], actor'[a])
    BY <1>3, <1>4, <2>4, LessComes DEF Game, Types
  <2>7. "todo" \in Kinds
    BY DEF Kinds
  <2> QED BY <1>2, <1>3, <2>5, <2>6, <2>7, MoveStep
<1> QED BY <1>5, <1>6

\* The line is told to all members, after everything they have seen.
LEMMA CastLined == ASSUME Game, Lined, NEW p \in Actor, SendToAll(p) PROVE Lined'
<1>1. PICK m : m = Message("chat", Now(p).arg, "room", 0)
  OBVIOUS
<1>2. PICK tos, c : tos = Now(p).tos /\ c = Now(p).arg
  OBVIOUS
<1>3. /\ p = "room" /\ Now(p).op = "cast" /\ c \in Lines /\ tos \in SUBSET Players
      /\ actor[p].todo # <<>> /\ m \in PlayerMsgs
      /\ Actor' = Actor /\ actor'[p] = Popped(p) /\ Rest({"room"} \cup tos)
      /\ \A q \in tos : actor'[q] = IF actor[q].life # "down" THEN Told(actor[q], m) ELSE actor[q]
  BY <1>1, <1>2, CastDoes
<1>4. OpLines(actor[p].todo[1]) = {c} /\ m.tag = "chat" /\ m.arg = c
  BY <1>1, <1>2, <1>3, FirstOp DEF OpLines, Message
<1>5. /\ Less(p, actor[p], actor'[p]) /\ Holds("todo", p, actor[p], c)
      /\ ~Holds("todo", p, actor'[p], c)
  BY <1>3, <1>4, Life, LessPopped DEF Popped, Lined
<1>6. Players \subseteq Actor /\ p \notin Players
  BY <1>3, Names DEF Game, Types
<1>7. \A q \in Players : ~Sees(actor[q], c)
  BY <1>3, <1>5 DEF Lined, Unseen, Kinds
<1>8. ASSUME NEW q \in Players
      PROVE  /\ \A k, l : Holds(k, q, actor'[q], l) => Holds(k, q, actor[q], l)
             /\ \A l : Sees(actor'[q], l) => Sees(actor[q], l) \/ l = c
             /\ \A l, n : Before(actor'[q], l, n) => Before(actor[q], l, n)
                                                     \/ (n = c /\ Sees(actor[q], l))
             /\ Apart(q, actor'[q])
  <2>1. PICK x, y : x = actor[q] /\ y = actor'[q]
    OBVIOUS
  <2>2. q \in Actor /\ q # "room" /\ Typed(q, x) /\ Apart(q, x) /\ m \in Msgs(q)
    BY <1>3, <1>6, <2>1, Life, OpsOf DEF Lined
  <2>3. CASE y = x
    BY <2>1, <2>2, <2>3
  <2>4. CASE y = Told(x, m)
    <3>1. MsgLines(q, m) = {}
      BY <1>4, <2>2 DEF MsgLines
    <3>2. /\ \A k, l : Holds(k, q, y, l) => Holds(k, q, x, l)
          /\ \A l : Sees(y, l) => Sees(x, l) \/ IsLine(m, l)
          /\ \A l, n : Before(y, l, n) => Before(x, l, n) \/ (IsLine(m, n) /\ Sees(x, l))
          /\ Apart(q, y)
      BY <2>2, <2>4, <3>1, LinesTold
    <3> QED BY <2>1, <3>2, <1>4 DEF IsLine
  <2>5. y = x \/ y = Told(x, m)
    BY <1>3, <1>6, <2>1, <2>2 DEF Rest
  <2> QED BY <2>3, <2>4, <2>5
<1>9. \A b \in Actor \ (Players \cup {p}) : Less(b, actor[b], actor'[b])
  BY <1>3 DEF Rest, Less
<1>10. \A a \in Actor : Apart(a, actor'[a])
  BY <1>5, <1>8, <1>9 DEF Less, Lined
<1>11. \A k \in Kinds : \A a \in Actor : \A l \in Lines :
         Holds(k, a, actor'[a], l) => Holds(k, a, actor[a], l)
  BY <1>5, <1>8, <1>9 DEF Less
<1>12. "todo" \in Kinds
  BY DEF Kinds
<1>13. OnePlace' /\ Unseen'
  <2>1. \A a \in Players : \A l \in Lines : Sees(actor'[a], l) => Sees(actor[a], l) \/ l = c
    BY <1>8
  <2> QED BY <1>3, <1>5, <1>11, <1>12, <2>1, Shown DEF Lined
<1>14. OneOrder'
  <2>1. \A a \in Players : \A l, n \in Lines :
           Before(actor'[a], l, n) => Before(actor[a], l, n) \/ (n = c /\ Sees(actor[a], l))
    BY <1>8
  <2> QED BY <1>3, <1>7, <2>1, OrderGrows DEF Lined
<1> QED BY <1>3, <1>10, <1>13, <1>14 DEF Lined

LEMMA SetTimerLined == ASSUME Game, Lined, NEW p \in Actor, SetTimer(p) PROVE Lined'
<1>1. /\ p = "room" /\ actor[p].todo # <<>> /\ Actor' = Actor /\ Rest({p})
      /\ actor'[p] = [Popped(p) EXCEPT !.timers = @ \cup {TickMsg}]
  BY SetTimerDoes
<1>2. PICK x, y : x = Popped(p) /\ y = actor'[p]
  OBVIOUS
<1>3. Less(p, actor[p], x)
  BY <1>1, <1>2, Life, LessPopped DEF Popped
<1>4. Less(p, x, y)
  <2>1. /\ y.todo = x.todo /\ y.box = x.box /\ y.watchers = x.watchers
        /\ y.life = x.life /\ y.st = x.st
    BY <1>1, <1>2 DEF Popped
  <2> QED BY <2>1, LessSame
<1>5. Less(p, actor[p], actor'[p])
  BY <1>2, <1>3, <1>4, LessTrans
<1> QED BY <1>1, <1>5, RestLess, QuietStep

LEMMA KillLined == ASSUME Game, Lined, NEW p \in Actor, SendExit(p) PROVE Lined'
<1>1. PICK a : a = Now(p).actor
  OBVIOUS
<1>2. /\ actor[p].todo # <<>> /\ a \in Actor /\ a # p /\ Actor' = Actor
      /\ actor'[p] = Popped(p) /\ Rest({p, a})
      /\ actor'[a] = [actor[a] EXCEPT !.killed = TRUE]
  BY <1>1, KillDoes
<1>3. Less(p, actor[p], actor'[p])
  BY <1>2, Life, LessPopped DEF Popped
<1>4. Less(a, actor[a], actor'[a])
  <2>1. PICK x, y : x = actor[a] /\ y = actor'[a]
    OBVIOUS
  <2>2. /\ y.todo = x.todo /\ y.box = x.box /\ y.watchers = x.watchers
        /\ y.life = x.life /\ y.st = x.st
    BY <1>2, <2>1
  <2>3. Less(a, x, y)
    BY <2>2, LessSame
  <2> QED BY <2>1, <2>3
<1> QED BY <1>2, <1>3, <1>4, RestLess, QuietStep

LEMMA TimerLined ==
  ASSUME Game, Lined, NEW p \in Actor, NEW m \in actor[p].timers, TimerFires(p, m) PROVE Lined'
<1>1. /\ p = "room" /\ actor[p].life = "up" /\ Actor' = Actor /\ Rest({p})
      /\ actor'[p] = [Told(actor[p], TickMsg) EXCEPT !.timers = @ \ {TickMsg}]
  BY TimerDoes
<1>2. PICK x, y, z : x = actor[p] /\ y = Told(actor[p], TickMsg) /\ z = actor'[p]
  OBVIOUS
<1>3. TickMsg \in Msgs(p) /\ MsgLines(p, TickMsg) = {} /\ \A l : ~IsLine(TickMsg, l)
  <2>1. TickMsg \in RoomMsgs /\ TickMsg.tag = "tick"
    BY DEF RoomMsgs, TickMsg, Message
  <2> QED BY <1>1, <2>1, OpsOf DEF MsgLines, IsLine
<1>4. Less(p, x, y)
  <2>1. Typed(p, x) /\ y = Told(x, TickMsg)
    BY <1>2, Life
  <2>2. /\ \A k, l : Holds(k, p, y, l) => Holds(k, p, x, l)
        /\ \A l : Sees(y, l) => Sees(x, l)
        /\ \A l, n : Before(y, l, n) => Before(x, l, n)
        /\ Apart(p, x) => Apart(p, y)
    BY <1>3, <2>1, LinesTold
  <2> QED BY <2>2 DEF Less
<1>5. Less(p, y, z)
  <2>1. /\ z.todo = y.todo /\ z.box = y.box /\ z.watchers = y.watchers
        /\ z.life = y.life /\ z.st = y.st
    BY <1>1, <1>2 DEF Told
  <2> QED BY <2>1, LessSame
<1>6. Less(p, actor[p], actor'[p])
  BY <1>2, <1>4, <1>5, LessTrans
<1> QED BY <1>1, <1>6, RestLess, QuietStep

\* What a new player will tell moves to its own list, the time to the clock.
LEMMA StartLined == ASSUME Game, Lined, NEW p \in Actor, StartActor(p) PROVE Lined'
<1>1. PICK a, o : a = Now(p).actor /\ o = Now(p)
  OBVIOUS
<1>2. /\ p = "main" /\ actor[p].todo # <<>> /\ Actor' = Actor /\ o.op = "start"
      /\ \/ a = "room" /\ o.st = NewRoom /\ o.todo = <<>>
         \/ a \in Players /\ o.st = <<>> /\ o.todo = <<Tell("room", "join", a)>>
      /\ actor'[p] = Popped(p) /\ Rest({p, a}) /\ a \in Actor /\ a # p
      /\ actor'[a] = [actor[a] EXCEPT !.life = "up", !.st = o.st, !.todo = o.todo]
  BY <1>1, StartDoes
<1> DEFINE h == OpLines(actor[p].todo[1])
           kd == IF a = "room" THEN "clock" ELSE "todo"
<1>3. o = actor[p].todo[1] /\ h = IF a = "room" THEN ClockFrom(1) ELSE Both(a)
  BY <1>1, <1>2, FirstOp DEF OpLines
<1>4. /\ Less(p, actor[p], actor'[p]) /\ \A l \in h : Holds("todo", p, actor[p], l)
      /\ \A l \in h : ~Holds("todo", p, actor'[p], l)
  BY <1>2, Life, LessPopped DEF Popped, Lined
<1>5. \A b \in Actor \ {p, a} : Less(b, actor[b], actor'[b])
  BY <1>2, RestLess
<1>6. PICK x, y : x = actor[a] /\ y = actor'[a]
  OBVIOUS
<1>7. /\ y.life = "up" /\ y.st = o.st /\ y.todo = o.todo /\ y.box = x.box
      /\ y.watchers = x.watchers /\ Apart(a, x)
  <2>1. DOMAIN x = Fields
    BY <1>2, <1>6, Life DEF Typed
  <2> QED BY <1>2, <1>6, <2>1 DEF Fields, Lined
<1>8. Comes(a, x, y, h, kd, a) /\ Apart(a, y) /\ (a \in Players => Quiet(x, y))
  <2>1. CASE a = "room"
    <3>1. o.st = NewRoom /\ DOMAIN y.todo = {} /\ NewRoom.tick_id = 1
      BY <1>2, <1>7, <2>1, Names DEF NewRoom
    <3>2. Apart(a, y)
      BY <1>7, <3>1 DEF Apart
    <3>3. Comes(a, x, y, h, kd, a)
      BY <1>3, <1>7, <2>1, <3>1 DEF Comes, Holds
    <3> QED BY <2>1, <3>2, <3>3, Names
  <2>2. CASE a \in Players
    <3>1. a # "room" /\ o.st = <<>> /\ y.todo = <<Tell("room", "join", a)>>
      BY <1>2, <1>7, <2>2, Names
    <3>2. DOMAIN y.todo = {1} /\ y.todo[1] = Tell("room", "join", a) /\ DOMAIN y.st = {}
      BY <1>7, <3>1
    <3>3. OpLines(y.todo[1]) = Both(a)
      BY <3>2 DEF OpLines, Tell
    <3>4. Apart(a, y)
      BY <1>7, <3>2 DEF Apart
    <3>5. Comes(a, x, y, h, kd, a)
      BY <1>3, <1>7, <3>1, <3>2, <3>3 DEF Comes, Holds
    <3>6. Quiet(x, y)
      BY <1>7, <3>2 DEF Quiet, Sees, Before
    <3> QED BY <3>4, <3>5, <3>6
  <2> QED BY <1>2, <2>1, <2>2
<1>9. \A b \in Actor : Comes(b, actor[b], actor'[b], h, kd, a) /\ Apart(b, actor'[b])
  BY <1>4, <1>5, <1>6, <1>8, LessComes DEF Lined
<1>10. \A b \in Players : Quiet(actor[b], actor'[b])
  BY <1>4, <1>5, <1>6, <1>8, LessComes DEF Game, Types
<1>11. "todo" \in Kinds
  BY DEF Kinds
<1> QED BY <1>2, <1>4, <1>9, <1>10, <1>11, MoveStep

\* The room will tell that the player left, now or when it ends.
LEMMA MonitorLined == ASSUME Game, Lined, NEW p \in Actor, Monitor(p) PROVE Lined'
<1>1. PICK q : q = Now(p).actor
  OBVIOUS
<1>2. /\ p = "room" /\ actor[p].todo # <<>> /\ Now(p).op = "watch" /\ q \in Players /\ q \in Actor
      /\ Actor' = Actor
      /\ \/ /\ actor[q].life = "down" /\ actor'[p] = Told(Popped(p), Down(q, "gone")) /\ Rest({p})
         \/ /\ actor[q].life # "down" /\ actor'[p] = Popped(p) /\ Rest({p, q})
            /\ actor'[q] = [actor[q] EXCEPT !.watchers = @ \cup {"room"}]
  BY <1>1, MonitorDoes
<1> DEFINE h == OpLines(actor[p].todo[1])
<1>3. h = {<<q, "left">>} /\ p \notin Players /\ h \subseteq Lines
  <2>1. PICK o : o = actor[p].todo[1]
    OBVIOUS
  <2>2. o.op = "watch" /\ o.actor = q
    BY <1>1, <1>2, <2>1, FirstOp
  <2>3. OpLines(o) = {<<q, "left">>}
    BY <2>2 DEF OpLines
  <2> QED BY <1>2, <2>1, <2>3, Names, LinesIn DEF Texts
<1>4. /\ Less(p, actor[p], Popped(p)) /\ \A l \in h : Holds("todo", p, actor[p], l)
      /\ \A l \in h : ~Holds("todo", p, Popped(p), l)
  BY <1>2, Life, LessPopped DEF Popped, Lined
<1>5. "todo" \in Kinds /\ "box" \in Kinds
  BY DEF Kinds
<1>6. CASE actor[q].life = "down"
  <2>1. actor'[p] = Told(Popped(p), Down(q, "gone")) /\ Rest({p})
    BY <1>2, <1>6
  <2>2. PICK x, y, m : x = Popped(p) /\ y = actor'[p] /\ m = Down(q, "gone")
    OBVIOUS
  <2>3. m \in Msgs(p) /\ MsgLines(p, m) = h
    BY <1>2, <1>3, <2>2, OpsOf DEF RoomMsgs, MsgLines, Down, Message
  <2>4. Typed(p, x) /\ Apart(p, x) /\ \A l \in h : ~Holds("box", p, x, l)
    <3>1. Typed(p, x)
      BY <1>2, <2>2, Life, TypedPopped DEF Popped
    <3>2. \A l \in h : ~Holds("box", p, actor[p], l)
      BY <1>3, <1>4, <1>5 DEF Lined, OnePlace
    <3> QED BY <1>4, <2>2, <3>1, <3>2 DEF Less, Lined
  <2>5. /\ \A k, l : Holds(k, p, y, l) => Holds(k, p, x, l) \/ (k = "box" /\ l \in h)
        /\ Apart(p, y)
    BY <2>1, <2>2, <2>3, <2>4, LinesTold
  <2>6. Comes(p, actor[p], actor'[p], h, "box", p) /\ Apart(p, actor'[p])
    BY <1>4, <2>2, <2>5 DEF Less, Comes
  <2>7. \A l \in h : ~Holds("todo", p, actor'[p], l)
    BY <1>4, <2>2, <2>5
  <2>8. \A b \in Actor \ {p} : Less(b, actor[b], actor'[b])
    BY <2>1, RestLess
  <2>9. \A b \in Actor : Comes(b, actor[b], actor'[b], h, "box", p) /\ Apart(b, actor'[b])
    BY <2>6, <2>8, LessComes DEF Lined
  <2>10. \A b \in Players : Quiet(actor[b], actor'[b])
    BY <1>3, <2>8, LessComes DEF Game, Types
  <2> QED BY <1>2, <1>4, <1>5, <2>7, <2>9, <2>10, MoveStep
<1>7. CASE actor[q].life # "down"
  <2>1. /\ actor'[p] = Popped(p) /\ Rest({p, q})
        /\ actor'[q] = [actor[q] EXCEPT !.watchers = @ \cup {"room"}]
    BY <1>2, <1>7
  <2>2. PICK x, y : x = actor[q] /\ y = actor'[q]
    OBVIOUS
  <2>3. DOMAIN x = Fields /\ q # "room" /\ p # q /\ Apart(q, x)
    BY <1>2, <1>3, <2>2, Life DEF Typed, Lined
  <2>4. y.life = x.life /\ y.st = x.st /\ y.todo = x.todo /\ y.box = x.box
    BY <2>1, <2>2, <2>3 DEF Fields
  <2>5. Comes(q, x, y, h, "watch", q) /\ Apart(q, y) /\ Quiet(x, y)
    BY <1>3, <2>3, <2>4 DEF Comes, Holds, Apart, Quiet, Sees, Before
  <2>6. \A b \in Actor \ {p, q} : Less(b, actor[b], actor'[b])
    BY <2>1, RestLess
  <2>7. \A b \in Actor : Comes(b, actor[b], actor'[b], h, "watch", q) /\ Apart(b, actor'[b])
    BY <1>4, <2>1, <2>2, <2>5, <2>6, LessComes DEF Lined
  <2>8. \A b \in Players : Quiet(actor[b], actor'[b])
    BY <1>4, <2>1, <2>2, <2>5, <2>6, LessComes DEF Game, Types
  <2>9. \A l \in h : Holds("todo", p, actor[p], l) /\ ~Holds("todo", p, actor'[p], l)
    BY <1>4, <2>1
  <2> HIDE DEF h
  <2> QED BY <1>2, <1>5, <2>7, <2>8, <2>9, MoveStep
<1> QED BY <1>6, <1>7

\* The monitor of a player hears of its end.
LEMMA EndLined ==
  ASSUME Game, Lined, NEW p \in Actor, NEW why, p \in Players => why = "killed",
         actor' = Ended(actor, p, why)
  PROVE  Lined'
<1>1. Actor' = Actor /\ Gone(p, actor'[p]) /\ Less(p, actor[p], actor'[p])
  BY EndDoes, LessGone
<1>2. ASSUME NEW b \in Actor \ {p}, ~(b \in actor[p].watchers /\ actor[b].life # "down")
      PROVE  Less(b, actor[b], actor'[b])
  BY <1>2, EndDoes, LessAlike
<1>3. CASE \A b \in Actor \ {p} : ~(b \in actor[p].watchers /\ actor[b].life # "down")
  BY <1>1, <1>2, <1>3, QuietStep
<1>4. CASE \E b \in Actor \ {p} : b \in actor[p].watchers /\ actor[b].life # "down"
  <2>1. PICK b \in Actor \ {p} : b \in actor[p].watchers /\ actor[b].life # "down"
    BY <1>4
  <2>2. p \in Players /\ b = "room" /\ actor[p].watchers \subseteq {"room"} /\ why = "killed"
    BY <2>1, Life DEF Typed
  <2> DEFINE h == {<<p, "left">>}
  <2>3. PICK x : Alike(b, x) /\ actor'[b] = Told(x, Down(p, why))
    BY <2>1, EndDoes
  <2>4. PICK y, m : y = actor'[b] /\ m = Down(p, why)
    OBVIOUS
  <2>5. m \in Msgs(b) /\ MsgLines(b, m) = h
    BY <2>2, <2>4, OpsOf DEF RoomMsgs, MsgLines, Down, Message
  <2>6. Typed(b, x) /\ Less(b, actor[b], x) /\ Apart(b, x)
    BY <2>3, TypedAlike, LessAlike DEF Less, Lined
  <2>7. "watch" \in Kinds /\ "box" \in Kinds /\ h \subseteq Lines
    BY <2>2, LinesIn DEF Kinds, Texts
  <2>8. \A l \in h : Holds("watch", p, actor[p], l) /\ ~Holds("watch", p, actor'[p], l)
    BY <1>1, <2>1, <2>2 DEF Holds, Gone
  <2>9. \A l \in h : ~Holds("box", b, x, l)
    BY <2>1, <2>6, <2>7, <2>8 DEF Less, Lined, OnePlace
  <2>10. /\ \A k, l : Holds(k, b, y, l) => Holds(k, b, x, l) \/ (k = "box" /\ l \in h)
         /\ Apart(b, y)
    BY <2>3, <2>4, <2>5, <2>6, <2>9, LinesTold
  <2>11. Comes(b, actor[b], actor'[b], h, "box", b) /\ Apart(b, actor'[b])
    BY <2>4, <2>6, <2>10 DEF Less, Comes
  <2>12. \A c \in Actor \ {p, b} : Less(c, actor[c], actor'[c])
    BY <1>2, <2>2
  <2>13. \A c \in Actor : Comes(c, actor[c], actor'[c], h, "box", b) /\ Apart(c, actor'[c])
    BY <1>1, <2>11, <2>12, LessComes DEF Lined
  <2>14. \A c \in Players : c \in Actor \ {b}
    BY <2>2, Names DEF Game, Types
  <2>15. \A c \in Players : Quiet(actor[c], actor'[c])
    BY <1>1, <2>12, <2>14, LessComes
  <2> HIDE DEF h
  <2> QED BY <1>1, <2>7, <2>8, <2>13, <2>15, MoveStep
<1> QED BY <1>3, <1>4

\* What is in the mailbox when a message is taken.
LEMMA LinesTaken ==
  ASSUME NEW a, NEW x, Typed(a, x), x.box # <<>>, NEW y, y.box = Tail(x.box)
  PROVE  /\ \A l : Holds("box", a, y, l) => Holds("box", a, x, l)
         /\ \A l \in MsgLines(a, x.box[1]) : Holds("box", a, x, l)
         /\ Apart(a, x) => \A l \in MsgLines(a, x.box[1]) : ~Holds("box", a, y, l)
         /\ Apart(a, x) /\ (\A i, j \in DOMAIN y.todo : i # j => OpLines(y.todo[i]) \cap OpLines(y.todo[j]) = {})
              => Apart(a, y)
<1>1. 1 \in DOMAIN x.box
  BY TailOf DEF Typed
<1>2. \A i \in DOMAIN y.box : /\ i + 1 \in DOMAIN x.box /\ y.box[i] = x.box[i + 1]
                              /\ i \in Nat \ {0}
  BY TailOf DEF Typed
<1>3. ASSUME Apart(a, x), NEW i \in DOMAIN y.box, NEW j \in DOMAIN y.box, i # j
      PROVE  MsgLines(a, y.box[i]) \cap MsgLines(a, y.box[j]) = {}
  <2>1. i + 1 \in DOMAIN x.box /\ j + 1 \in DOMAIN x.box /\ i + 1 # j + 1
            /\ y.box[i] = x.box[i + 1] /\ y.box[j] = x.box[j + 1]
    BY <1>2, <1>3
  <2> QED BY <2>1, <1>3 DEF Apart
<1>4. ASSUME Apart(a, x), NEW i \in DOMAIN y.box
      PROVE  MsgLines(a, x.box[1]) \cap MsgLines(a, y.box[i]) = {}
  <2>1. i + 1 \in DOMAIN x.box /\ i + 1 # 1 /\ y.box[i] = x.box[i + 1]
    BY <1>2
  <2> QED BY <2>1, <1>1, <1>4 DEF Apart
<1>5. \A l : Holds("box", a, y, l) => Holds("box", a, x, l)
  BY <1>2 DEF Holds
<1>6. \A l \in MsgLines(a, x.box[1]) : Holds("box", a, x, l)
  BY <1>1 DEF Holds
<1>7. Apart(a, x) => \A l \in MsgLines(a, x.box[1]) : ~Holds("box", a, y, l)
  BY <1>4 DEF Holds
<1>8. Apart(a, x) /\ (\A i, j \in DOMAIN y.todo : i # j => OpLines(y.todo[i]) \cap OpLines(y.todo[j]) = {})
        => Apart(a, y)
  BY <1>3 DEF Apart
<1> QED BY <1>5, <1>6, <1>7, <1>8

\* A player reads on: what it sees and in which order stays as it is.
LEMMA QuietTaken ==
  ASSUME NEW p \in Players, NEW x, Typed(p, x), x.box # <<>>, NEW y, y.box = Tail(x.box),
         \/ x.box[1].tag # "chat" /\ y.st = x.st
         \/ x.box[1].tag = "chat" /\ y.st = Append(x.st, x.box[1].arg)
  PROVE  Quiet(x, y)
<1>1. 1 \in DOMAIN x.box /\ x.box[1] \in PlayerMsgs
  BY TailOf, Names DEF Typed, Msgs
<1>2. \A i \in DOMAIN y.box : /\ i + 1 \in DOMAIN x.box /\ y.box[i] = x.box[i + 1]
                              /\ i \in Nat \ {0}
  BY TailOf DEF Typed
<1>3. x.st \in Seq(Lines)
  BY Names DEF Typed, States
<1>4. CASE x.box[1].tag # "chat" /\ y.st = x.st
  <2>1. \A l : Sees(y, l) => Sees(x, l)
    BY <1>2, <1>4 DEF Sees
  <2>2. ASSUME NEW l, NEW m, Before(y, l, m) PROVE Before(x, l, m)
    <3>1. CASE \E i, j \in DOMAIN y.st : i < j /\ y.st[i] = l /\ y.st[j] = m
      BY <1>4, <3>1 DEF Before
    <3>2. CASE \E i \in DOMAIN y.st : \E j \in DOMAIN y.box : y.st[i] = l /\ IsLine(y.box[j], m)
      BY <1>2, <1>4, <3>2 DEF Before
    <3>3. CASE \E i, j \in DOMAIN y.box : i < j /\ IsLine(y.box[i], l) /\ IsLine(y.box[j], m)
      <4>1. PICK i, j \in DOMAIN y.box : i < j /\ IsLine(y.box[i], l) /\ IsLine(y.box[j], m)
        BY <3>3
      <4>2. /\ i + 1 \in DOMAIN x.box /\ j + 1 \in DOMAIN x.box /\ i + 1 < j + 1
            /\ IsLine(x.box[i + 1], l) /\ IsLine(x.box[j + 1], m)
        BY <1>2, <4>1
      <4> QED BY <4>2 DEF Before
    <3> QED BY <2>2, <3>1, <3>2, <3>3 DEF Before
  <2> QED BY <2>1, <2>2 DEF Quiet
<1>5. CASE x.box[1].tag = "chat" /\ y.st = Append(x.st, x.box[1].arg)
  <2>1. PICK n, e : n = Len(x.st) /\ e = x.box[1].arg
    OBVIOUS
  <2>2. e \in Lines /\ IsLine(x.box[1], e)
    BY <1>1, <1>5, <2>1, MsgsAre DEF IsLine
  <2>3. /\ n \in Nat /\ DOMAIN y.st = DOMAIN x.st \cup {n + 1} /\ y.st[n + 1] = e
        /\ \A i \in DOMAIN x.st : i \in Nat /\ i <= n /\ y.st[i] = x.st[i]
    BY <1>3, <1>5, <2>1, <2>2, AppendOf
  <2>4. \A l : Sees(y, l) => Sees(x, l)
    BY <1>1, <1>2, <2>2, <2>3 DEF Sees
  <2>5. ASSUME NEW l, NEW m, Before(y, l, m) PROVE Before(x, l, m)
    <3>1. CASE \E i, j \in DOMAIN y.st : i < j /\ y.st[i] = l /\ y.st[j] = m
      <4>1. PICK i, j \in DOMAIN y.st : i < j /\ y.st[i] = l /\ y.st[j] = m
        BY <3>1
      <4>2. i \in DOMAIN x.st /\ x.st[i] = l
        BY <2>3, <4>1
      <4>3. CASE j \in DOMAIN x.st
        BY <2>3, <4>1, <4>2, <4>3 DEF Before
      <4>4. CASE j = n + 1
        BY <1>1, <2>2, <2>3, <4>1, <4>2, <4>4 DEF Before
      <4> QED BY <2>3, <4>3, <4>4
    <3>2. CASE \E i \in DOMAIN y.st : \E j \in DOMAIN y.box : y.st[i] = l /\ IsLine(y.box[j], m)
      <4>1. PICK i \in DOMAIN y.st : \E j \in DOMAIN y.box : y.st[i] = l /\ IsLine(y.box[j], m)
        BY <3>2
      <4>2. PICK j \in DOMAIN y.box : y.st[i] = l /\ IsLine(y.box[j], m)
        BY <4>1
      <4>3. j + 1 \in DOMAIN x.box /\ IsLine(x.box[j + 1], m) /\ 1 < j + 1
        BY <1>2, <4>2
      <4>4. CASE i \in DOMAIN x.st
        BY <2>3, <4>2, <4>3, <4>4 DEF Before
      <4>5. CASE i = n + 1
        <5>1. IsLine(x.box[1], l)
          BY <2>2, <2>3, <4>2, <4>5
        <5> QED BY <1>1, <4>3, <5>1 DEF Before
      <4> QED BY <2>3, <4>4, <4>5
    <3>3. CASE \E i, j \in DOMAIN y.box : i < j /\ IsLine(y.box[i], l) /\ IsLine(y.box[j], m)
      <4>1. PICK i, j \in DOMAIN y.box : i < j /\ IsLine(y.box[i], l) /\ IsLine(y.box[j], m)
        BY <3>3
      <4>2. /\ i + 1 \in DOMAIN x.box /\ j + 1 \in DOMAIN x.box /\ i + 1 < j + 1
            /\ IsLine(x.box[i + 1], l) /\ IsLine(x.box[j + 1], m)
        BY <1>2, <4>1
      <4> QED BY <4>2 DEF Before
    <3> QED BY <2>5, <3>1, <3>2, <3>3 DEF Before
  <2> QED BY <2>4, <2>5 DEF Quiet
<1> QED BY <1>4, <1>5

LEMMA PlayerLined == ASSUME Game, Lined, NEW p \in Players, TakeMessage(p) PROVE Lined'
<1>1. PICK m, x, y : m = Head(actor[p].box) /\ x = actor[p] /\ y = actor'[p]
  OBVIOUS
<1>2. /\ x.life = "up" /\ x.todo = <<>> /\ x.box # <<>> /\ p \in Actor
      /\ m \in PlayerMsgs /\ Actor' = Actor /\ Rest({p})
      /\ \/ m.tag = "say" /\ y = Taken(x, x.st, <<Tell("room", "chat", <<p, m.arg>>)>>)
         \/ m.tag = "chat" /\ y = Taken(x, Append(x.st, m.arg), x.todo)
  BY <1>1, PlayerTakes
<1>3. Typed(p, x) /\ Apart(p, x) /\ m = x.box[1] /\ p # "room"
  BY <1>1, <1>2, Life, FirstMsg, Names DEF Lined
<1> DEFINE h == MsgLines(p, m)
<1>4. y.box = Tail(x.box) /\ y.watchers = x.watchers
        /\ DOMAIN y.todo \subseteq {1} /\ \A k \in DOMAIN y.todo : OpLines(y.todo[k]) = h
  <2>1. y.box = Tail(x.box) /\ y.watchers = x.watchers
    BY <1>2, <1>3 DEF Taken, Typed, Fields
  <2>2. CASE m.tag = "say"
    <3>1. PICK o : o = Tell("room", "chat", <<p, m.arg>>)
      OBVIOUS
    <3>2. OpLines(o) = {<<p, m.arg>>} /\ h = {<<p, m.arg>>}
      BY <2>2, <3>1 DEF OpLines, Tell, MsgLines
    <3>3. y.todo = <<o>>
      BY <1>2, <1>3, <2>2, <3>1 DEF Taken, Typed, Fields
    <3> QED BY <2>1, <3>2, <3>3
  <2>3. CASE m.tag = "chat"
    <3>1. y.todo = <<>>
      BY <1>2, <1>3, <2>3 DEF Taken, Typed, Fields
    <3> QED BY <2>1, <3>1
  <2> QED BY <1>2, <2>2, <2>3
<1>5. /\ \A l : Holds("box", p, y, l) => Holds("box", p, x, l)
      /\ \A l \in h : Holds("box", p, x, l) /\ ~Holds("box", p, y, l)
      /\ Apart(p, y)
  <2>1. \A i, j \in DOMAIN y.todo : i # j => OpLines(y.todo[i]) \cap OpLines(y.todo[j]) = {}
    BY <1>4
  <2> QED BY <1>2, <1>3, <1>4, <2>1, LinesTaken
<1>6. Comes(p, x, y, h, "todo", p)
  BY <1>3, <1>4, <1>5 DEF Comes, Holds
<1>7. Quiet(x, y)
  <2>1. \/ m.tag # "chat" /\ y.st = x.st
        \/ m.tag = "chat" /\ y.st = Append(x.st, m.arg)
    BY <1>2, <1>3 DEF Taken, Typed, Fields
  <2> QED BY <1>2, <1>3, <1>4, <2>1, QuietTaken
<1>8. \A b \in Actor \ {p} : Less(b, actor[b], actor'[b])
  BY <1>2, RestLess
<1>9. \A b \in Actor : Comes(b, actor[b], actor'[b], h, "todo", p) /\ Apart(b, actor'[b])
  BY <1>1, <1>5, <1>6, <1>8, LessComes DEF Lined
<1>10. \A b \in Players : Quiet(actor[b], actor'[b])
  BY <1>1, <1>7, <1>8, LessComes DEF Game, Types
<1>11. \A l \in h : Holds("box", p, actor[p], l) /\ ~Holds("box", p, actor'[p], l)
  BY <1>1, <1>5
<1>12. "box" \in Kinds
  BY DEF Kinds
<1> HIDE DEF h
<1> QED BY <1>2, <1>9, <1>10, <1>11, <1>12, MoveStep

LEMMA RoomLined == ASSUME Game, Lined, TakeMessage("room") PROVE Lined'
<1>1. PICK m, x, y : m = Head(actor["room"].box) /\ x = actor["room"] /\ y = actor'["room"]
  OBVIOUS
<1>2. PICK s, t : s = Handle("room", m).st /\ t = Handle("room", m).todo
  OBVIOUS
<1>3. /\ x.life = "up" /\ x.todo = <<>> /\ x.box # <<>> /\ m \in RoomMsgs /\ Actor' = Actor
      /\ Rest({"room"}) /\ RoomDoes(m, x.st, s, t) /\ y = Taken(x, s, t)
      /\ x.st.tick_id \in Nat \ {0}
  BY <1>1, <1>2, RoomTakes
<1>4. "room" \in Actor
  BY DEF Game, Types
<1>5. Typed("room", x) /\ Apart("room", x) /\ m = x.box[1] /\ "room" \notin Players
  BY <1>1, <1>3, <1>4, Life, FirstMsg, Names DEF Lined
<1>6. /\ y.box = Tail(x.box) /\ y.watchers = x.watchers /\ y.life = x.life
      /\ y.st = s /\ y.todo = t
  BY <1>3, <1>5 DEF Taken, Typed, Fields
<1> DEFINE kc == IF m.tag = "tick" THEN "clock" ELSE "box"
           h == IF m.tag = "tick" THEN {<<"clock", x.st.tick_id>>} ELSE MsgLines("room", m)
<1>7. /\ \A k \in DOMAIN t : OpLines(t[k]) \subseteq h
      /\ \A i, j \in DOMAIN t : i # j => OpLines(t[i]) \cap OpLines(t[j]) = {}
      /\ s.tick_id = IF m.tag = "tick" THEN x.st.tick_id + 1 ELSE x.st.tick_id
  <2>1. \A ps, l : OpLines(Cast(ps, "chat", l)) = {l}
    BY DEF OpLines, Cast
  <2>2. \A p : OpLines(Watch(p)) = {<<p, "left">>}
    BY DEF OpLines, Watch
  <2>3. OpLines(Later("tick")) = {}
    BY DEF OpLines, Later
  <2>4. CASE m.tag = "join"
    <3>1. /\ DOMAIN t = {1, 2} /\ t[1] = Watch(m.arg) /\ s.tick_id = x.st.tick_id
          /\ t[2] = Cast(s.members, "chat", <<m.arg, "joins">>)
      BY <1>3, <2>4 DEF RoomDoes
    <3>2. OpLines(t[1]) = {<<m.arg, "left">>} /\ OpLines(t[2]) = {<<m.arg, "joins">>}
      BY <2>1, <2>2, <3>1
    <3>3. h = {<<m.arg, "joins">>, <<m.arg, "left">>}
      BY <2>4 DEF MsgLines, Both
    <3>4. <<m.arg, "joins">> # <<m.arg, "left">>
      OBVIOUS
    <3> QED BY <2>4, <3>1, <3>2, <3>3, <3>4
  <2>5. CASE m.tag = "down"
    <3>1. DOMAIN t = {1} /\ t[1] = Cast(s.members, "chat", <<m.from, "left">>) /\ s.tick_id = x.st.tick_id
      BY <1>3, <2>5 DEF RoomDoes
    <3>2. h = {<<m.from, "left">>}
      BY <2>5 DEF MsgLines
    <3> QED BY <2>1, <2>5, <3>1, <3>2
  <2>6. CASE m.tag = "chat"
    <3>1. DOMAIN t = {1} /\ t[1] = Cast(s.members, "chat", m.arg) /\ s.tick_id = x.st.tick_id
      BY <1>3, <2>6 DEF RoomDoes
    <3>2. h = {m.arg}
      BY <2>6 DEF MsgLines
    <3> QED BY <2>1, <2>6, <3>1, <3>2
  <2>7. CASE m.tag = "start"
    <3>1. DOMAIN t = {1} /\ t[1] = Later("tick") /\ s.tick_id = x.st.tick_id
      BY <1>3, <2>7 DEF RoomDoes
    <3> QED BY <2>3, <2>7, <3>1
  <2>8. CASE m.tag = "tick"
    <3>1. /\ 1 \in DOMAIN t /\ t[1] = Cast(s.members, "chat", <<"clock", x.st.tick_id>>)
          /\ \A k \in DOMAIN t : k = 1 \/ t[k] = Later("tick")
          /\ s.tick_id = x.st.tick_id + 1
      BY <1>3, <2>8 DEF RoomDoes
    <3>2. OpLines(t[1]) = {<<"clock", x.st.tick_id>>} /\ \A k \in DOMAIN t : k = 1 \/ OpLines(t[k]) = {}
      BY <2>1, <2>3, <3>1
    <3> QED BY <2>8, <3>1, <3>2
  <2> QED BY <1>3, <2>4, <2>5, <2>6, <2>7, <2>8, MsgsAre
<1>8. /\ \A l : Holds("box", "room", y, l) => Holds("box", "room", x, l)
      /\ \A l \in MsgLines("room", m) : Holds("box", "room", x, l) /\ ~Holds("box", "room", y, l)
      /\ Apart("room", y)
  BY <1>3, <1>5, <1>6, <1>7, LinesTaken
<1>9. \A l : Holds("clock", "room", y, l) => Holds("clock", "room", x, l)
  <2>1. ASSUME NEW k \in Nat, NEW l \in ClockFrom(k + 1) PROVE l \in ClockFrom(k)
    <3>1. PICK j \in Nat : j >= k + 1 /\ l = <<"clock", j>>
      BY DEF ClockFrom
    <3> QED BY <3>1 DEF ClockFrom
  <2> QED BY <1>3, <1>6, <1>7, <2>1 DEF Holds
<1>10. Comes("room", x, y, h, "todo", "room")
  BY <1>6, <1>7, <1>8, <1>9 DEF Comes, Holds
<1>11. \A l \in h : Holds(kc, "room", x, l) /\ ~Holds(kc, "room", y, l)
  <2>1. CASE m.tag = "tick"
    <3>1. PICK k : k = x.st.tick_id
      OBVIOUS
    <3>2. k \in Nat /\ <<"clock", k>> \in ClockFrom(k)
      BY <1>3, <3>1 DEF ClockFrom
    <3>3. <<"clock", k>> \notin ClockFrom(k + 1)
      <4>1. ASSUME NEW j \in Nat, j >= k + 1 PROVE <<"clock", k>> # <<"clock", j>>
        BY <3>2, <4>1
      <4> QED BY <4>1 DEF ClockFrom
    <3> QED BY <1>3, <1>6, <1>7, <2>1, <3>1, <3>2, <3>3 DEF Holds
  <2>2. CASE m.tag # "tick"
    BY <1>8, <2>2
  <2> QED BY <2>1, <2>2
<1>12. \A b \in Actor \ {"room"} : Less(b, actor[b], actor'[b])
  BY <1>3, RestLess
<1>13. \A b \in Actor : Comes(b, actor[b], actor'[b], h, "todo", "room") /\ Apart(b, actor'[b])
  BY <1>1, <1>8, <1>10, <1>12, LessComes DEF Lined
<1>14. \A b \in Players : Quiet(actor[b], actor'[b])
  BY <1>5, <1>12, LessComes DEF Game, Types
<1>15. \A l \in h : Holds(kc, "room", actor["room"], l) /\ ~Holds(kc, "room", actor'["room"], l)
  BY <1>1, <1>11
<1>16. kc \in Kinds
  BY DEF Kinds
<1> HIDE DEF h, kc
<1> QED BY <1>3, <1>4, <1>13, <1>14, <1>15, <1>16, MoveStep

LEMMA LinesKept == ASSUME Game, Lined, Next PROVE Lined'
<1>1. PICK p \in Actor :
             \/ Send(p) \/ SendToAll(p) \/ SetTimer(p) \/ StartActor(p) \/ Monitor(p)
             \/ SendExit(p) \/ Leave(p) \/ TakeMessage(p) \/ Exit(p)
             \/ \E m \in actor[p].timers : TimerFires(p, m)
  BY StepsAre
<1>2. CASE Leave(p)
  <2>1. PICK why : p = "main" /\ actor' = Ended(actor, p, why)
    BY <1>2, LeaveDoes
  <2> QED BY <2>1, EndLined, Names
<1>3. CASE Exit(p)
  BY <1>3, ExitDoes, EndLined
<1>4. CASE TakeMessage(p)
  <2>1. p # "main"
    BY <1>4, FirstMsg DEF TakeMessage
  <2> QED BY <1>4, <2>1, OpsOf, PlayerLined, RoomLined
<1>5. CASE \E m \in actor[p].timers : TimerFires(p, m)
  BY <1>5, TimerLined
<1> QED BY <1>1, <1>2, <1>3, <1>4, <1>5, SendLined, CastLined, SetTimerLined, StartLined,
           MonitorLined, KillLined

-----------------------------------------------------------------------------
(* Who is in the room.                                                     *)

LEMMA OpPopped ==
  ASSUME NEW a, NEW x, Typed(a, x), x.todo # <<>>, NEW y, y.todo = Tail(x.todo)
  PROVE  /\ \A o : HasOp(y, o) => HasOp(x, o)
         /\ \A o : HasOp(x, o) /\ o # x.todo[1] => HasOp(y, o)
         /\ \A b : Starts(y, b) => Starts(x, b)
         /\ Apart(a, x) /\ x.todo[1].op = "start" => ~Starts(y, x.todo[1].actor)
         /\ HasOp(x, x.todo[1])
<1>1. 1 \in DOMAIN x.todo /\ \A i \in DOMAIN y.todo : i + 1 \in DOMAIN x.todo /\ y.todo[i] = x.todo[i + 1]
                                                      /\ i \in Nat \ {0}
  BY TailOf DEF Typed
<1>2. \A i \in DOMAIN x.todo : i = 1 \/ (i - 1 \in DOMAIN y.todo /\ y.todo[i - 1] = x.todo[i])
  BY TailOf DEF Typed
<1>3. \A o : HasOp(y, o) => HasOp(x, o)
  BY <1>1 DEF HasOp
<1>4. \A o : HasOp(x, o) /\ o # x.todo[1] => HasOp(y, o)
  BY <1>2 DEF HasOp
<1>5. \A b : Starts(y, b) => Starts(x, b)
  BY <1>1 DEF Starts
<1>6. ASSUME Apart(a, x), x.todo[1].op = "start", Starts(y, x.todo[1].actor) PROVE FALSE
  <2>1. PICK i \in DOMAIN y.todo : y.todo[i].op = "start" /\ y.todo[i].actor = x.todo[1].actor
    BY <1>6 DEF Starts
  <2>2. i + 1 \in DOMAIN x.todo /\ i + 1 # 1 /\ y.todo[i] = x.todo[i + 1]
    BY <1>1, <2>1
  <2>3. OpLines(x.todo[1]) \cap OpLines(x.todo[i + 1]) = {}
    BY <1>1, <1>6, <2>2 DEF Apart
  <2>4. PICK o, n, b : o = x.todo[1] /\ n = x.todo[i + 1] /\ b = o.actor
    OBVIOUS
  <2>5. o.op = "start" /\ n.op = "start" /\ n.actor = b /\ o.actor = b
    BY <1>6, <2>1, <2>2, <2>4
  <2>6. OpLines(o) = (IF b = "room" THEN ClockFrom(1) ELSE Both(b)) /\ OpLines(n) = OpLines(o)
    BY <2>5 DEF OpLines
  <2>7. <<"clock", 1>> \in ClockFrom(1) /\ <<b, "left">> \in Both(b)
    BY DEF ClockFrom, Both
  <2> QED BY <2>3, <2>4, <2>6, <2>7
<1>7. HasOp(x, x.todo[1])
  BY <1>1 DEF HasOp
<1> QED BY <1>3, <1>4, <1>5, <1>6, <1>7

LEMMA MsgTold ==
  ASSUME NEW a, NEW x, Typed(a, x), NEW m \in Msgs(a), NEW y, y.box = Append(x.box, m)
  PROVE  \A n : HasMsg(y, n) <=> HasMsg(x, n) \/ n = m
<1>1. /\ DOMAIN y.box = DOMAIN x.box \cup {Len(x.box) + 1} /\ y.box[Len(x.box) + 1] = m
      /\ \A i \in DOMAIN x.box : y.box[i] = x.box[i]
  BY AppendOf DEF Typed
<1> QED BY <1>1 DEF HasMsg

LEMMA MsgTaken ==
  ASSUME NEW a, NEW x, Typed(a, x), x.box # <<>>, NEW y, y.box = Tail(x.box)
  PROVE  /\ \A n : HasMsg(y, n) => HasMsg(x, n)
         /\ \A n : HasMsg(x, n) /\ n # x.box[1] => HasMsg(y, n)
         /\ HasMsg(x, x.box[1])
<1>1. 1 \in DOMAIN x.box /\ \A i \in DOMAIN y.box : i + 1 \in DOMAIN x.box /\ y.box[i] = x.box[i + 1]
  BY TailOf DEF Typed
<1>2. \A i \in DOMAIN x.box : i = 1 \/ (i - 1 \in DOMAIN y.box /\ y.box[i - 1] = x.box[i])
  BY TailOf DEF Typed
<1> QED BY <1>1, <1>2 DEF HasMsg

\* The player, or the room as far as it concerns the player, stays as it is.
SamePlayer(p, x, y) == /\ y.life = x.life /\ (HasOp(y, JoinOp(p)) <=> HasOp(x, JoinOp(p)))
                       /\ HasOp(y, JoinOp(p)) => Len(y.todo) = Len(x.todo)
                       /\ "room" \in x.watchers => "room" \in y.watchers
SameRoom(p, r, s) == /\ s.life = r.life /\ (p \in MembersOf(s) <=> p \in MembersOf(r))
                     /\ HasMsg(s, JoinMsg(p)) <=> HasMsg(r, JoinMsg(p))
                     /\ HasDown(s, p) <=> HasDown(r, p)
                     /\ HasOp(r, Watch(p)) => HasOp(s, Watch(p))

LEMMA MemberStays ==
  ASSUME NEW p, NEW x, NEW y, NEW r, NEW s, Member(p, x, r), SamePlayer(p, x, y), SameRoom(p, r, s)
  PROVE  Member(p, y, s)
  BY DEF Member, SamePlayer, SameRoom

LEMMA SamePlayers ==
  ASSUME NEW p, NEW x, NEW y, y.todo = x.todo, y.life = x.life, x.watchers \subseteq y.watchers
  PROVE  SamePlayer(p, x, y)
  BY DEF SamePlayer, HasOp

LEMMA SameRooms ==
  ASSUME NEW p, NEW r, NEW s, s.life = r.life, s.st = r.st, s.box = r.box,
         HasOp(r, Watch(p)) => HasOp(s, Watch(p))
  PROVE  SameRoom(p, r, s)
  BY DEF SameRoom, HasMsg, HasDown, MembersOf

\* What the names of the messages and of the things to do tell apart.
LEMMA Distinct ==
  /\ \A p, q : (JoinMsg(p) = JoinMsg(q) => p = q) /\ (Watch(p) = Watch(q) => p = q)
  /\ \A p, q, w : JoinMsg(p) # Down(q, w)
  /\ \A p, q, w, v : Down(p, w) = Down(q, v) => p = q
  /\ \A p, m : m.tag # "join" => m # JoinMsg(p)
  /\ \A p, w, m : m.tag # "down" => m # Down(p, w)
  /\ \A p, o : o.op # "watch" => o # Watch(p)
  /\ \A p, o : o.op # "tell" \/ o.tag # "join" => o # JoinOp(p)
  BY DEF JoinMsg, Message, Down, Watch, JoinOp, Tell

LEMMA MembersStay ==
  ASSUME Game, Membership, Actor' = Actor,
         \A a \in Actor : actor'[a].life = actor[a].life,
         \A a \in Actor : Starts(actor'["main"], a) => Starts(actor["main"], a),
         \A p \in Players : /\ SamePlayer(p, actor[p], actor'[p])
                            /\ SameRoom(p, actor["room"], actor'["room"])
  PROVE  Membership'
  BY MemberStays DEF Membership

\* A message that is neither a join nor a down.
LEMMA ToldRoom ==
  ASSUME NEW r, Typed("room", r), NEW m \in Msgs("room"), m.tag # "join", m.tag # "down",
         NEW s, s.box = Append(r.box, m), s.life = r.life, s.st = r.st, NEW p,
         HasOp(r, Watch(p)) => HasOp(s, Watch(p))
  PROVE  SameRoom(p, r, s)
<1>1. \A n : HasMsg(s, n) <=> HasMsg(r, n) \/ n = m
  BY MsgTold
<1>2. JoinMsg(p) # m /\ \A w : Down(p, w) # m
  BY Distinct
<1>3. HasDown(s, p) <=> HasDown(r, p)
  BY <1>1, <1>2 DEF HasDown
<1> QED BY <1>1, <1>2, <1>3 DEF SameRoom, MembersOf

\* The first thing to do, done, is not to join.
LEMMA NotJoining ==
  ASSUME NEW p \in Players, NEW x, Typed(p, x), NEW r, Member(p, x, r), x.todo # <<>>
  PROVE  /\ x.todo[1] # JoinOp(p) => ~HasOp(x, JoinOp(p))
         /\ x.todo[1] = JoinOp(p) => Len(x.todo) = 1
<1>1. DOMAIN x.todo = 1..Len(x.todo) /\ Len(x.todo) \in Nat /\ 1 \in DOMAIN x.todo
  BY TailOf, LenProperties DEF Typed
<1>2. HasOp(x, JoinOp(p)) => Len(x.todo) = 1
  BY DEF Member
<1>3. ASSUME x.todo[1] # JoinOp(p), HasOp(x, JoinOp(p)) PROVE FALSE
  <2>1. PICK k \in DOMAIN x.todo : x.todo[k] = JoinOp(p)
    BY <1>3 DEF HasOp
  <2>2. k = 1
    BY <1>1, <1>2, <1>3, <2>1
  <2> QED BY <1>3, <2>1, <2>2
<1>4. x.todo[1] = JoinOp(p) => HasOp(x, JoinOp(p))
  BY <1>1 DEF HasOp
<1> QED BY <1>2, <1>3, <1>4

LEMMA SendMembers == ASSUME Game, Membership, NEW p \in Actor, Send(p) PROVE Membership'
<1>1. PICK q, m : q = Now(p).to /\ m = Message(Now(p).tag, Now(p).arg, p, 0)
  OBVIOUS
<1>2. /\ q \in Actor /\ p # q /\ m \in Msgs(q) /\ Now(p).op = "tell" /\ actor[p].todo # <<>>
      /\ Actor' = Actor /\ actor'[p] = Popped(p) /\ Rest({p, q})
      /\ actor'[q] = IF actor[q].life # "down" THEN Told(actor[q], m) ELSE actor[q]
  BY <1>1, SendDoes
<1>0. PICK o : o = actor[p].todo[1]
  OBVIOUS
<1>3. Now(p) = o /\ o \in Ops(p) /\ o.op = "tell" /\ m = Message(o.tag, o.arg, p, 0) /\ o.to = q
  BY <1>0, <1>1, <1>2, FirstOp
<1>4. PICK x, y : x = actor[p] /\ y = actor'[p]
  OBVIOUS
<1>5. /\ y.todo = Tail(x.todo) /\ y.life = x.life /\ y.watchers = x.watchers
      /\ y.box = x.box /\ y.st = x.st /\ Typed(p, x) /\ x.todo # <<>>
  BY <1>2, <1>4, Life DEF Popped, Typed, Fields
<1>6. PICK u, v : u = actor[q] /\ v = actor'[q]
  OBVIOUS
<1>7. /\ v.todo = u.todo /\ v.life = u.life /\ v.watchers = u.watchers /\ v.st = u.st /\ Typed(q, u)
      /\ v.box = u.box \/ (v.box = Append(u.box, m) /\ u.life # "down")
      /\ u.life # "down" => v.box = Append(u.box, m)
  BY <1>2, <1>6, Life DEF Told, Typed, Fields
<1>8. \A a \in Actor : actor'[a].life = actor[a].life
  BY <1>2, <1>4, <1>5, <1>6, <1>7 DEF Rest
<1>9. \A a \in Actor \ {p, q} : actor'[a] = actor[a]
  BY <1>2 DEF Rest
<1>10. "main" \in Actor /\ "room" \in Actor /\ Players \subseteq Actor
  BY DEF Game, Types
<1>11. \A a \in Actor : Starts(actor'["main"], a) => Starts(actor["main"], a)
  <2>1. CASE p = "main"
    BY <2>1, <1>4, <1>5, OpPopped
  <2>2. CASE q = "main"
    BY <2>2, <1>2, OpsOf
  <2> QED BY <2>1, <2>2, <1>9, <1>10
<1>12. CASE p = "main"
  <2>1. ASSUME NEW a \in Players PROVE SamePlayer(a, actor[a], actor'[a])
    <3>1. CASE a = q
      BY <3>1, <1>6, <1>7, SamePlayers
    <3>2. CASE a # q
      BY <3>2, <1>9, <1>10, <1>12, Names, SamePlayers
    <3> QED BY <3>1, <3>2
  <2>2. ASSUME NEW a \in Players PROVE SameRoom(a, actor["room"], actor'["room"])
    <3>1. CASE q = "room"
      <4>1. m.tag = "start"
        BY <1>3, <1>12, <3>1, OpsOf, MainOpsAre, Names DEF Message
      <4>2. HasOp(u, Watch(a)) => HasOp(v, Watch(a))
        BY <1>7 DEF HasOp
      <4>3. CASE v.box = u.box
        BY <1>6, <1>7, <3>1, <4>2, <4>3, SameRooms
      <4>4. CASE v.box = Append(u.box, m)
        BY <1>2, <1>6, <1>7, <3>1, <4>1, <4>2, <4>4, ToldRoom
      <4> QED BY <1>7, <4>3, <4>4
    <3>2. CASE q # "room"
      BY <3>2, <1>9, <1>10, <1>12, SameRooms
    <3> QED BY <3>1, <3>2
  <2> QED BY <1>2, <1>8, <1>11, <2>1, <2>2, MembersStay
<1>13. CASE p \in Players
  <2>1. o \in PlayerOps(p) /\ q = "room"
    BY <1>3, <1>13, OpsOf, PlayerOpsAre
  <2>2. Member(p, x, actor["room"])
    BY <1>4, <1>13 DEF Membership
  <2>3. \A a \in Players \ {p} : actor'[a] = actor[a]
    BY <1>9, <1>10, <2>1, Names
  <2>4. \A a : HasOp(u, Watch(a)) => HasOp(v, Watch(a))
    BY <1>7 DEF HasOp
  <2>5. CASE o.tag # "join"
    <3>1. o # JoinOp(p) /\ m.tag = "chat"
      BY <1>3, <2>1, <2>5, PlayerOpsAre, Distinct DEF Message
    <3>2. ~HasOp(x, JoinOp(p))
      BY <1>0, <1>4, <1>5, <1>13, <2>2, <3>1, NotJoining
    <3>3. ~HasOp(y, JoinOp(p))
      BY <1>5, <3>2, OpPopped
    <3>4. SamePlayer(p, x, y)
      BY <1>5, <3>2, <3>3 DEF SamePlayer
    <3>5. ASSUME NEW a \in Players PROVE SameRoom(a, u, v)
      <4>1. CASE v.box = u.box
        BY <1>7, <2>4, <4>1, SameRooms
      <4>2. CASE v.box = Append(u.box, m)
        BY <1>2, <1>7, <2>1, <2>4, <3>1, <4>2, ToldRoom
      <4> QED BY <1>7, <4>1, <4>2
    <3>6. \A a \in Players : SamePlayer(a, actor[a], actor'[a])
      BY <1>4, <2>3, <3>4, SamePlayers
    <3> QED BY <1>2, <1>6, <1>8, <1>11, <2>1, <3>5, <3>6, MembersStay
  <2>6. CASE o.tag = "join"
    <3>1. o = JoinOp(p)
      BY <2>1, <2>6 DEF PlayerOps, JoinOp, Tell
    <3>2. m = JoinMsg(p)
      BY <1>3, <3>1 DEF JoinOp, JoinMsg, Tell
    <3>3. HasOp(x, JoinOp(p)) /\ Len(x.todo) = 1
      <4>1. x.todo[1] = JoinOp(p)
        BY <1>0, <1>4, <3>1
      <4>2. Len(x.todo) = 1
        BY <1>5, <1>13, <2>2, <4>1, NotJoining
      <4>3. HasOp(x, x.todo[1])
        BY <1>5, OpPopped
      <4> QED BY <4>1, <4>2, <4>3
    <3>4. ~HasOp(y, JoinOp(p))
      <4>1. DOMAIN y.todo = {}
        BY <1>5, <3>3, TailOf, LenProperties DEF Typed
      <4> QED BY <4>1 DEF HasOp
    <3>5. x.life = "up"
      BY <1>5 DEF Typed
    <3>6. CASE v.box = u.box /\ u.life = "down"
      <4>1. \A a \in Players : SameRoom(a, u, v)
        BY <1>7, <2>4, <3>6, SameRooms
      <4>2. Member(p, y, v)
        BY <1>5, <1>6, <1>7, <1>13, <2>1, <2>2, <3>3, <3>4, <3>5, <3>6, <4>1
           DEF Member, SameRoom, MembersOf
      <4>3. \A a \in Players \ {p} : Member(a, actor'[a], v)
        BY <1>6, <2>1, <2>3, <4>1, MemberStays, SamePlayers DEF Membership
      <4> QED BY <1>2, <1>4, <1>6, <1>8, <1>11, <2>1, <4>2, <4>3 DEF Membership
    <3>7. CASE v.box = Append(u.box, m) /\ u.life # "down"
      <4>1. \A n : HasMsg(v, n) <=> HasMsg(u, n) \/ n = m
        BY <1>2, <1>7, <3>7, MsgTold
      <4>2. \A a \in Players : HasDown(v, a) <=> HasDown(u, a)
        BY <3>2, <4>1, Distinct DEF HasDown
      <4>3. \A a : MembersOf(v) = MembersOf(u)
        BY <1>7 DEF MembersOf
      <4>4. Member(p, y, v)
        <5>1. HasMsg(v, JoinMsg(p)) /\ p \notin MembersOf(v)
          BY <1>6, <2>1, <2>2, <3>2, <3>3, <4>1, <4>3 DEF Member
        <5>2. ~HasDown(v, p)
          BY <1>6, <2>1, <2>2, <3>5, <1>13, <4>2 DEF Member
        <5> QED BY <1>5, <3>4, <3>5, <5>1, <5>2 DEF Member
      <4>5. \A a \in Players \ {p} : SameRoom(a, u, v)
        BY <1>7, <2>4, <3>2, <4>1, <4>2, <4>3, Distinct DEF SameRoom
      <4>6. \A a \in Players \ {p} : Member(a, actor'[a], v)
        BY <1>6, <2>1, <2>3, <4>5, MemberStays, SamePlayers DEF Membership
      <4> QED BY <1>2, <1>4, <1>6, <1>8, <1>11, <2>1, <4>4, <4>6 DEF Membership
    <3> QED BY <1>7, <3>6, <3>7
  <2> QED BY <2>5, <2>6
<1>14. CASE p = "room"
  BY <1>3, <1>14, OpsOf, RoomOpsAre
<1> QED BY <1>12, <1>13, <1>14, OpsOf

\* The room does something that is not to watch.
LEMMA RoomPopped ==
  ASSUME NEW r, Typed("room", r), r.todo # <<>>, r.todo[1].op # "watch",
         NEW s, s.todo = Tail(r.todo), s.life = r.life, s.st = r.st, s.box = r.box, NEW p
  PROVE  SameRoom(p, r, s)
<1>1. r.todo[1] # Watch(p)
  BY Distinct
<1>2. HasOp(r, Watch(p)) => HasOp(s, Watch(p))
  BY <1>1, OpPopped
<1> QED BY <1>2, SameRooms

LEMMA CastMembers == ASSUME Game, Membership, NEW p \in Actor, SendToAll(p) PROVE Membership'
<1>1. PICK m : m = Message("chat", Now(p).arg, "room", 0)
  OBVIOUS
<1>2. /\ p = "room" /\ Now(p).op = "cast" /\ Now(p).arg \in Lines /\ Now(p).tos \in SUBSET Players
      /\ actor[p].todo # <<>> /\ m \in PlayerMsgs
      /\ Actor' = Actor /\ actor'[p] = Popped(p) /\ Rest({"room"} \cup Now(p).tos)
      /\ \A q \in Now(p).tos :
           actor'[q] = IF actor[q].life # "down" THEN Told(actor[q], m) ELSE actor[q]
  BY <1>1, CastDoes, SMTT(60)
<1>3. PICK r, s : r = actor["room"] /\ s = actor'["room"]
  OBVIOUS
<1>4. /\ s.todo = Tail(r.todo) /\ s.life = r.life /\ s.st = r.st /\ s.box = r.box
      /\ Typed("room", r) /\ r.todo # <<>> /\ r.todo[1].op # "watch"
  BY <1>2, <1>3, Life, FirstOp DEF Popped, Typed, Fields
<1>5. \A a \in Players : SameRoom(a, r, s)
  BY <1>4, RoomPopped
<1>6. ASSUME NEW a \in Actor \ {"room"}
      PROVE  /\ actor'[a].todo = actor[a].todo /\ actor'[a].life = actor[a].life
             /\ actor'[a].watchers = actor[a].watchers
  <2>1. CASE a \in Now(p).tos
    <3>1. DOMAIN actor[a] = Fields
      BY <1>6, Life DEF Typed
    <3> QED BY <1>2, <2>1, <3>1 DEF Told, Fields
  <2>2. CASE a \notin Now(p).tos
    BY <1>2, <2>2 DEF Rest
  <2> QED BY <2>1, <2>2
<1>7. Players \subseteq Actor \ {"room"} /\ "main" \in Actor \ {"room"} /\ "room" \in Actor
  BY Names DEF Game, Types
<1>8. \A a \in Players : SamePlayer(a, actor[a], actor'[a])
  BY <1>6, <1>7, SamePlayers
<1>9. \A a \in Actor : actor'[a].life = actor[a].life
  BY <1>3, <1>4, <1>6
<1>10. \A a \in Actor : Starts(actor'["main"], a) => Starts(actor["main"], a)
  BY <1>6, <1>7 DEF Starts
<1> QED BY <1>2, <1>3, <1>5, <1>8, <1>9, <1>10, MembersStay

LEMMA SetTimerMembers == ASSUME Game, Membership, NEW p \in Actor, SetTimer(p) PROVE Membership'
<1>1. /\ p = "room" /\ actor[p].todo # <<>> /\ Actor' = Actor /\ Rest({p})
      /\ actor'[p] = [Popped(p) EXCEPT !.timers = @ \cup {TickMsg}]
  BY SetTimerDoes
<1>2. PICK r, s : r = actor["room"] /\ s = actor'["room"]
  OBVIOUS
<1>3. Now(p).op = "later"
  BY DEF SetTimer, Doing, Now
<1>4. /\ s.todo = Tail(r.todo) /\ s.life = r.life /\ s.st = r.st /\ s.box = r.box
      /\ Typed("room", r) /\ r.todo # <<>> /\ r.todo[1].op # "watch"
  BY <1>1, <1>2, <1>3, Life, FirstOp DEF Popped, Typed, Fields
<1>5. \A a \in Players : SameRoom(a, r, s)
  BY <1>4, RoomPopped
<1>6. \A a \in Actor \ {"room"} : actor'[a] = actor[a]
  BY <1>1 DEF Rest
<1>7. Players \subseteq Actor \ {"room"} /\ "main" \in Actor \ {"room"} /\ "room" \in Actor
  BY Names DEF Game, Types
<1>8. \A a \in Players : SamePlayer(a, actor[a], actor'[a])
  BY <1>6, <1>7, SamePlayers
<1>9. \A a \in Actor : actor'[a].life = actor[a].life
  BY <1>2, <1>4, <1>6
<1> QED BY <1>1, <1>2, <1>5, <1>6, <1>7, <1>8, <1>9, MembersStay

LEMMA TimerMembers ==
  ASSUME Game, Membership, NEW p \in Actor, NEW m \in actor[p].timers, TimerFires(p, m)
  PROVE  Membership'
<1>1. /\ p = "room" /\ actor[p].life = "up" /\ Actor' = Actor /\ Rest({p})
      /\ actor'[p] = [Told(actor[p], TickMsg) EXCEPT !.timers = @ \ {TickMsg}]
  BY TimerDoes
<1>2. PICK r, s : r = actor["room"] /\ s = actor'["room"]
  OBVIOUS
<1>3. /\ s.todo = r.todo /\ s.life = r.life /\ s.st = r.st /\ s.box = Append(r.box, TickMsg)
      /\ Typed("room", r)
  BY <1>1, <1>2, Life DEF Told, Typed, Fields
<1>4. TickMsg.tag = "tick" /\ TickMsg \in Msgs("room")
  BY <1>1, OpsOf DEF RoomMsgs, TickMsg, Message
<1>5. ASSUME NEW a \in Players PROVE SameRoom(a, r, s)
  <2>1. HasOp(r, Watch(a)) => HasOp(s, Watch(a))
    BY <1>3 DEF HasOp
  <2> QED BY <1>3, <1>4, <2>1, ToldRoom
<1>6. \A a \in Actor \ {"room"} : actor'[a] = actor[a]
  BY <1>1 DEF Rest
<1>7. Players \subseteq Actor \ {"room"} /\ "main" \in Actor \ {"room"} /\ "room" \in Actor
  BY Names DEF Game, Types
<1>8. \A a \in Players : SamePlayer(a, actor[a], actor'[a])
  BY <1>6, <1>7, SamePlayers
<1>9. \A a \in Actor : actor'[a].life = actor[a].life
  BY <1>2, <1>3, <1>6
<1> QED BY <1>1, <1>2, <1>5, <1>6, <1>7, <1>8, <1>9, MembersStay

LEMMA KillMembers == ASSUME Game, Membership, NEW p \in Actor, SendExit(p) PROVE Membership'
<1>1. PICK a : a = Now(p).actor
  OBVIOUS
<1>2. /\ p = "main" /\ actor[p].todo # <<>> /\ a \in Actor /\ a # p /\ Actor' = Actor
      /\ actor'[p] = Popped(p) /\ Rest({p, a})
      /\ actor'[a] = [actor[a] EXCEPT !.killed = TRUE]
  BY <1>1, KillDoes
<1>3. ASSUME NEW b \in Actor, b # p
      PROVE  /\ actor'[b].todo = actor[b].todo /\ actor'[b].life = actor[b].life
             /\ actor'[b].watchers = actor[b].watchers /\ actor'[b].box = actor[b].box
             /\ actor'[b].st = actor[b].st
  <2>1. CASE b = a
    BY <1>2, <2>1, Life DEF Typed, Fields
  <2>2. CASE b # a
    BY <1>2, <1>3, <2>2 DEF Rest
  <2> QED BY <2>1, <2>2
<1>4. Players \subseteq Actor \ {p} /\ "room" \in Actor \ {p}
  BY <1>2, Names DEF Game, Types
<1>5. \A b \in Players : SamePlayer(b, actor[b], actor'[b])
  BY <1>3, <1>4, SamePlayers
<1>6. ASSUME NEW b \in Players PROVE SameRoom(b, actor["room"], actor'["room"])
  <2>1. PICK r, s : r = actor["room"] /\ s = actor'["room"]
    OBVIOUS
  <2>2. s.todo = r.todo /\ s.life = r.life /\ s.st = r.st /\ s.box = r.box
    BY <1>3, <1>4, <2>1
  <2>3. HasOp(r, Watch(b)) => HasOp(s, Watch(b))
    BY <2>2 DEF HasOp
  <2> QED BY <2>1, <2>2, <2>3, SameRooms
<1>7. PICK x, y : x = actor["main"] /\ y = actor'["main"]
  OBVIOUS
<1>8. y.todo = Tail(x.todo) /\ y.life = x.life /\ Typed("main", x) /\ x.todo # <<>>
  BY <1>2, <1>7, Life DEF Popped, Typed, Fields
<1>9. \A b : Starts(y, b) => Starts(x, b)
  BY <1>8, OpPopped
<1>10. \A b \in Actor : actor'[b].life = actor[b].life
  BY <1>2, <1>3, <1>7, <1>8
<1> QED BY <1>2, <1>5, <1>6, <1>7, <1>9, <1>10, MembersStay

\* A new player has not joined yet, and a new room has no members.
LEMMA StartMembers == ASSUME Game, Lined, Membership, NEW p \in Actor, StartActor(p) PROVE Membership'
<1>1. PICK a : a = Now(p).actor
  OBVIOUS
<1>2. /\ p = "main" /\ actor[p].todo # <<>> /\ Actor' = Actor /\ Now(p).op = "start"
      /\ \/ a = "room" /\ Now(p).st = NewRoom /\ Now(p).todo = <<>>
         \/ a \in Players /\ Now(p).st = <<>> /\ Now(p).todo = <<Tell("room", "join", a)>>
      /\ actor'[p] = Popped(p) /\ Rest({p, a}) /\ a \in Actor /\ a # p
      /\ actor'[a] = [actor[a] EXCEPT !.life = "up", !.st = Now(p).st, !.todo = Now(p).todo]
  BY <1>1, StartDoes
<1>3. PICK o, w, z : o = actor[p].todo[1] /\ w = actor[p] /\ z = actor'[p]
  OBVIOUS
<1>4. /\ o = Now(p) /\ o = w.todo[1] /\ o.op = "start" /\ o.actor = a /\ Typed("main", w)
      /\ Apart("main", w) /\ z.todo = Tail(w.todo) /\ z.life = w.life /\ w.todo # <<>>
  BY <1>1, <1>2, <1>3, FirstOp, Life DEF Popped, Typed, Fields, Lined
<1>5. /\ \A b : Starts(z, b) => Starts(w, b) /\ b # a
      /\ Starts(w, a)
  <2>1. HasOp(w, o) /\ ~Starts(z, o.actor) /\ \A b : Starts(z, b) => Starts(w, b)
    BY <1>4, OpPopped
  <2>2. Starts(w, a)
    BY <1>4, <2>1 DEF HasOp, Starts
  <2> QED BY <1>4, <2>1, <2>2
<1>6. actor[a].life = "unborn"
  BY <1>2, <1>3, <1>5 DEF Membership
<1>7. \A b \in Actor \ {p, a} : actor'[b] = actor[b]
  BY <1>2 DEF Rest
<1>8. PICK x, y : x = actor[a] /\ y = actor'[a]
  OBVIOUS
<1>9. /\ y.life = "up" /\ y.st = o.st /\ y.todo = o.todo /\ y.box = x.box /\ y.watchers = x.watchers
      /\ x.life = "unborn" /\ Typed(a, x) /\ x.todo = <<>>
  <2>1. Typed(a, x) /\ x.life = "unborn"
    BY <1>2, <1>6, <1>8, Life
  <2>2. DOMAIN x = Fields /\ x.todo = <<>>
    BY <2>1 DEF Typed
  <2>3. y = [x EXCEPT !.life = "up", !.st = o.st, !.todo = o.todo]
    BY <1>2, <1>4, <1>8
  <2> QED BY <2>1, <2>2, <2>3 DEF Fields
<1>10. Players \subseteq Actor \ {p} /\ "room" \in Actor \ {p} /\ "room" \notin Players
  BY <1>2, Names DEF Game, Types
<1>11. \A b \in Actor : Starts(actor'["main"], b) => actor'[b].life = "unborn"
  <2>1. ASSUME NEW b \in Actor, Starts(z, b) PROVE actor'[b].life = "unborn"
    <3>1. b # a /\ actor[b].life = "unborn"
      BY <1>2, <1>3, <1>5, <2>1 DEF Membership
    <3>2. CASE b = p
      BY <1>3, <1>4, <3>1, <3>2
    <3>3. CASE b # p
      BY <1>7, <3>1, <3>3
    <3> QED BY <3>2, <3>3
  <2> QED BY <1>2, <1>3, <2>1
<1>12. CASE a = "room"
  <2>1. y.st = NewRoom /\ MembersOf(x) = {} /\ MembersOf(y) = {}
    BY <1>2, <1>4, <1>9, <1>10, <1>12 DEF NewRoom, MembersOf
  <2>2. \A b : (HasMsg(y, JoinMsg(b)) <=> HasMsg(x, JoinMsg(b))) /\ (HasDown(y, b) <=> HasDown(x, b))
    BY <1>9 DEF HasMsg, HasDown
  <2>3. ASSUME NEW b \in Players PROVE Member(b, actor'[b], y)
    <3>1. actor'[b] = actor[b] /\ Member(b, actor[b], x)
      BY <1>7, <1>8, <1>10, <1>12 DEF Membership
    <3>2. PICK u : u = actor[b]
      OBVIOUS
    <3> QED BY <1>9, <2>1, <2>2, <3>1 DEF Member
  <2> QED BY <1>2, <1>8, <1>11, <1>12, <2>3 DEF Membership
<1>13. CASE a \in Players
  <2>1. y.todo = <<JoinOp(a)>> /\ actor'["room"] = actor["room"]
    BY <1>2, <1>4, <1>7, <1>9, <1>10, <1>13 DEF JoinOp
  <2>2. Len(y.todo) = 1 /\ HasOp(y, JoinOp(a))
    <3>1. DOMAIN y.todo = {1} /\ y.todo[1] = JoinOp(a)
      BY <2>1
    <3> QED BY <2>1, <3>1 DEF HasOp
  <2>3. Member(a, x, actor["room"])
    BY <1>8, <1>13 DEF Membership
  <2>4. Member(a, y, actor["room"])
    BY <1>9, <2>2, <2>3 DEF Member
  <2>5. \A b \in Players \ {a} : actor'[b] = actor[b]
    BY <1>7, <1>10
  <2> QED BY <1>2, <1>8, <1>11, <2>1, <2>4, <2>5 DEF Membership
<1> QED BY <1>2, <1>12, <1>13

\* The room will hear of the end of a member, or it has come too late for that.
LEMMA MonitorMembers == ASSUME Game, Membership, NEW p \in Actor, Monitor(p) PROVE Membership'
<1>1. PICK q : q = Now(p).actor
  OBVIOUS
<1>2. /\ p = "room" /\ actor[p].todo # <<>> /\ Now(p).op = "watch" /\ q \in Players /\ q \in Actor
      /\ Actor' = Actor
      /\ \/ /\ actor[q].life = "down" /\ actor'[p] = Told(Popped(p), Down(q, "gone")) /\ Rest({p})
         \/ /\ actor[q].life # "down" /\ actor'[p] = Popped(p) /\ Rest({p, q})
            /\ actor'[q] = [actor[q] EXCEPT !.watchers = @ \cup {"room"}]
  BY <1>1, MonitorDoes
<1>3. PICK r, s, x, y : r = actor[p] /\ s = actor'[p] /\ x = actor[q] /\ y = actor'[q]
  OBVIOUS
<1>4. /\ s.todo = Tail(r.todo) /\ s.life = r.life /\ s.st = r.st /\ Typed("room", r)
      /\ r.todo # <<>> /\ r.todo[1].op = "watch" /\ r.todo[1].actor = q
      /\ r.todo[1] \in RoomOps
  <2>1. Typed("room", r) /\ r.todo # <<>>
    BY <1>2, <1>3, Life
  <2>2. DOMAIN r = Fields
    BY <2>1 DEF Typed
  <2>3. s.todo = Tail(r.todo) /\ s.life = r.life /\ s.st = r.st
    BY <1>2, <1>3, <2>2 DEF Popped, Told, Fields
  <2>4. r.todo[1].op = "watch" /\ r.todo[1].actor = q /\ r.todo[1] \in RoomOps
    BY <1>1, <1>2, <1>3, FirstOp, OpsOf
  <2> QED BY <2>1, <2>3, <2>4
<1>5. r.todo[1] = Watch(q)
  BY <1>4 DEF RoomOps, Watch, Cast, Later
<1>6. /\ \A b : b # q /\ HasOp(r, Watch(b)) => HasOp(s, Watch(b))
      /\ \A b : MembersOf(s) = MembersOf(r)
  BY <1>4, <1>5, OpPopped, Distinct DEF MembersOf
<1>7. Players \subseteq Actor \ {p} /\ "main" \in Actor \ ({p} \cup Players)
  BY <1>2, Names DEF Game, Types
<1>8. \A b \in Players : Member(b, actor[b], r)
  BY <1>2, <1>3 DEF Membership
<1>9. CASE actor[q].life = "down"
  <2>1. s = Told(Popped(p), Down(q, "gone")) /\ Rest({p})
    BY <1>2, <1>3, <1>9
  <2>2. s.box = Append(r.box, Down(q, "gone")) /\ Down(q, "gone") \in Msgs("room")
    BY <1>2, <1>3, <1>4, <2>1, OpsOf DEF Told, Popped, Typed, Fields, RoomMsgs
  <2>3. \A n : HasMsg(s, n) <=> HasMsg(r, n) \/ n = Down(q, "gone")
    BY <1>4, <2>2, MsgTold
  <2>4. \A b : HasMsg(s, JoinMsg(b)) <=> HasMsg(r, JoinMsg(b))
    BY <2>3, Distinct
  <2>5. HasDown(s, q) /\ \A b : b # q => (HasDown(s, b) <=> HasDown(r, b))
    BY <2>3, Distinct DEF HasDown
  <2>6. \A b \in Actor \ {p} : actor'[b] = actor[b]
    BY <2>1 DEF Rest
  <2>7. Member(q, actor[q], s)
    BY <1>2, <1>4, <1>6, <1>8, <1>9, <2>4, <2>5 DEF Member
  <2>8. \A b \in Players \ {q} : Member(b, actor[b], s)
    <3>1. \A b \in Players \ {q} : SameRoom(b, r, s)
      BY <1>4, <1>6, <2>4, <2>5 DEF SameRoom
    <3> QED BY <1>8, <3>1, MemberStays, SamePlayers
  <2>9. \A b \in Actor : actor'[b].life = actor[b].life
    BY <1>3, <1>4, <2>6
  <2> QED BY <1>2, <1>3, <1>7, <2>6, <2>7, <2>8, <2>9 DEF Membership
<1>10. CASE actor[q].life # "down"
  <2>1. s = Popped(p) /\ Rest({p, q}) /\ y = [x EXCEPT !.watchers = @ \cup {"room"}]
    BY <1>2, <1>3, <1>10
  <2>2. /\ s.box = r.box /\ y.watchers = x.watchers \cup {"room"} /\ y.life = x.life
        /\ y.todo = x.todo
    BY <1>2, <1>3, <1>4, <2>1, Life DEF Popped, Typed, Fields
  <2>3. \A b : (HasMsg(s, JoinMsg(b)) <=> HasMsg(r, JoinMsg(b))) /\ (HasDown(s, b) <=> HasDown(r, b))
    BY <2>2 DEF HasMsg, HasDown
  <2>4. \A b \in Actor \ {p, q} : actor'[b] = actor[b]
    BY <2>1 DEF Rest
  <2>5. Member(q, y, s)
    <3>1. x.life \in {"unborn", "up"} /\ Member(q, x, r)
      BY <1>2, <1>3, <1>8, <1>10, Life DEF Typed
    <3>2. HasOp(y, JoinOp(q)) <=> HasOp(x, JoinOp(q))
      BY <2>2 DEF HasOp
    <3> QED BY <1>4, <1>6, <2>2, <2>3, <3>1, <3>2 DEF Member
  <2>6. \A b \in Players \ {q} : Member(b, actor[b], s)
    <3>1. \A b \in Players \ {q} : SameRoom(b, r, s)
      BY <1>4, <1>6, <2>3 DEF SameRoom
    <3> QED BY <1>8, <3>1, MemberStays, SamePlayers
  <2>7. \A b \in Actor : actor'[b].life = actor[b].life
    BY <1>3, <1>4, <2>2, <2>4
  <2>8. actor'["main"] = actor["main"] /\ \A b \in Players \ {q} : actor'[b] = actor[b]
    BY <1>2, <1>7, <2>4
  <2> QED BY <1>2, <1>3, <2>5, <2>6, <2>7, <2>8 DEF Membership
<1> QED BY <1>9, <1>10

LEMMA SameAlike ==
  ASSUME NEW b, NEW x, Alike(b, x)
  PROVE  /\ \A p : SamePlayer(p, actor[b], x) /\ SameRoom(p, actor[b], x)
         /\ x.life = actor[b].life /\ x.box = actor[b].box /\ x.st = actor[b].st
         /\ \A a : Starts(x, a) <=> Starts(actor[b], a)
<1>1. /\ x.todo = actor[b].todo /\ x.box = actor[b].box /\ x.watchers = actor[b].watchers
      /\ x.life = actor[b].life /\ x.st = actor[b].st
  BY DEF Alike, Fields
<1>2. \A p : SamePlayer(p, actor[b], x)
  BY <1>1, SamePlayers
<1>3. \A p : SameRoom(p, actor[b], x)
  BY <1>1, SameRooms DEF HasOp
<1>4. \A a : Starts(x, a) <=> Starts(actor[b], a)
  BY <1>1 DEF Starts
<1> QED BY <1>1, <1>2, <1>3, <1>4

LEMMA EndMembers ==
  ASSUME Game, Membership, NEW p \in Actor, NEW why, p \in Players => why = "killed",
         p # "main" => actor[p].life = "up" /\ actor[p].todo = <<>>,
         actor' = Ended(actor, p, why)
  PROVE  Membership'
<1>1. Actor' = Actor /\ Gone(p, actor'[p])
  BY EndDoes
<1>2. \A b \in Actor \ {p} :
        \E x : /\ Alike(b, x)
               /\ actor'[b] = IF b \in actor[p].watchers /\ actor[b].life # "down"
                              THEN Told(x, Down(p, why)) ELSE x
  BY EndDoes
<1>3. \A b \in Actor \ {p} : ~(b = "room" /\ p \in Players) => Alike(b, actor'[b])
  BY <1>2, Life DEF Typed
<1>4. "main" \in Actor /\ "room" \in Actor /\ Players \subseteq Actor \ {"main", "room"}
  BY Names DEF Game, Types
<1>5. CASE p = "main"
  <2>1. \A a : ~Starts(actor'["main"], a)
    BY <1>1, <1>5 DEF Gone, Starts
  <2>2. \A b \in Actor \ {p} : Alike(b, actor'[b])
    BY <1>3, <1>4, <1>5
  <2>3. \A b \in Players : Member(b, actor'[b], actor'["room"])
    BY <1>4, <1>5, <2>2, SameAlike, MemberStays DEF Membership
  <2> QED BY <1>1, <2>1, <2>3 DEF Membership
<1>6. CASE p = "room"
  <2>1. \A b \in Actor \ {p} : Alike(b, actor'[b])
    BY <1>3, <1>4, <1>6
  <2>2. \A a \in Actor : Starts(actor'["main"], a) => actor'[a].life = "unborn"
    <3>1. ASSUME NEW a \in Actor, Starts(actor'["main"], a) PROVE actor'[a].life = "unborn"
      <4>1. actor[a].life = "unborn"
        BY <1>4, <1>6, <2>1, <3>1, SameAlike DEF Membership
      <4>2. a # p
        BY <1>6, <4>1
      <4> QED BY <2>1, <4>1, <4>2, SameAlike
    <3> QED BY <3>1
  <2>3. PICK s : s = actor'["room"]
    OBVIOUS
  <2>4. s.life = "down" /\ DOMAIN s.box = {}
    BY <1>1, <1>6, <2>3 DEF Gone
  <2>5. ASSUME NEW b \in Players PROVE Member(b, actor'[b], s)
    <3>1. SamePlayer(b, actor[b], actor'[b]) /\ Member(b, actor[b], actor["room"])
      BY <1>4, <1>6, <2>1, SameAlike DEF Membership
    <3>2. ~HasMsg(s, JoinMsg(b)) /\ ~HasDown(s, b) /\ b \notin MembersOf(s)
      BY <2>4 DEF HasMsg, HasDown, MembersOf
    <3>3. HasOp(actor'[b], JoinOp(b)) => Len(actor'[b].todo) = 1
      BY <3>1 DEF Member, SamePlayer
    <3> QED BY <2>4, <3>2, <3>3 DEF Member
  <2> QED BY <1>1, <2>2, <2>3, <2>5 DEF Membership
<1>7. CASE p \in Players
  <2>1. PICK r, s : r = actor["room"] /\ s = actor'["room"]
    OBVIOUS
  <2>2. PICK u : /\ Alike("room", u)
                 /\ s = IF "room" \in actor[p].watchers /\ r.life # "down" THEN Told(u, Down(p, why)) ELSE u
    BY <1>2, <1>4, <1>7, <2>1
  <2>3. \A b \in Actor \ {p, "room"} : Alike(b, actor'[b])
    BY <1>3
  <2>5. Typed("room", u) /\ u.life = r.life /\ u.st = r.st /\ DOMAIN u = Fields
    BY <1>4, <2>1, <2>2, TypedAlike, SameAlike, ZenonT(60) DEF Typed
  <2>6. s.life = r.life /\ s.st = r.st /\ s.todo = u.todo /\ s.box = IF "room" \in actor[p].watchers /\ r.life # "down"
                                               THEN Append(u.box, Down(p, why)) ELSE u.box
    BY <2>2, <2>5 DEF Told, Fields
  <2>4. \A a \in Actor : Starts(actor'["main"], a) => actor'[a].life = "unborn"
    <3>1. ASSUME NEW a \in Actor, Starts(actor'["main"], a) PROVE actor'[a].life = "unborn"
      <4>1. actor[a].life = "unborn"
        BY <1>4, <1>7, <2>3, <3>1, SameAlike DEF Membership
      <4>2. a # p
        BY <1>4, <1>7, <4>1
      <4>3. CASE a = "room"
        BY <2>1, <2>6, <4>1, <4>3
      <4> QED BY <2>3, <4>1, <4>2, <4>3, SameAlike
    <3> QED BY <3>1
  <2>7. \A b : SameRoom(b, r, u)
    BY <2>1, <2>2, SameAlike
  <2>8. Down(p, why) \in Msgs("room")
    BY <1>4, <1>7, OpsOf DEF RoomMsgs
  <2>9. \A n : HasMsg(s, n) <=> HasMsg(u, n) \/ (n = Down(p, why) /\ "room" \in actor[p].watchers
                                                                  /\ r.life # "down")
    <3>1. CASE "room" \in actor[p].watchers /\ r.life # "down"
      <4>1. s.box = Append(u.box, Down(p, why))
        BY <2>6, <3>1
      <4> QED BY <2>5, <2>8, <3>1, <4>1, MsgTold
    <3>2. CASE ~("room" \in actor[p].watchers /\ r.life # "down")
      BY <2>6, <3>2 DEF HasMsg
    <3> QED BY <3>1, <3>2
  <2>10. \A b : HasMsg(s, JoinMsg(b)) <=> HasMsg(r, JoinMsg(b))
    BY <2>7, <2>9, Distinct DEF SameRoom
  <2>11. \A b : HasDown(s, b) <=> HasDown(r, b) \/ (b = p /\ "room" \in actor[p].watchers
                                                          /\ r.life # "down")
    <3>1. \A b : HasDown(u, b) <=> HasDown(r, b)
      BY <2>7 DEF SameRoom
    <3> QED BY <1>7, <2>9, <3>1, Distinct DEF HasDown
  <2>12. \A b : (HasOp(r, Watch(b)) => HasOp(s, Watch(b))) /\ MembersOf(s) = MembersOf(r)
    <3>1. \A b : HasOp(r, Watch(b)) => HasOp(u, Watch(b))
      BY <2>7 DEF SameRoom
    <3> QED BY <2>6, <3>1 DEF HasOp, MembersOf
  <2>13. ASSUME NEW b \in Players \ {p} PROVE Member(b, actor'[b], s)
    <3>1. SamePlayer(b, actor[b], actor'[b]) /\ Member(b, actor[b], r)
      BY <1>4, <2>1, <2>3, SameAlike DEF Membership
    <3>2. SameRoom(b, r, s)
      BY <2>6, <2>10, <2>11, <2>12 DEF SameRoom
    <3> QED BY <3>1, <3>2, MemberStays
  <2>14. Member(p, actor'[p], s)
    <3>1. PICK x, y : x = actor[p] /\ y = actor'[p]
      OBVIOUS
    <3>2. Member(p, x, r) /\ x.life = "up" /\ y.life = "down" /\ ~HasOp(y, JoinOp(p))
      BY <1>1, <1>4, <1>7, <2>1, <3>1 DEF Membership, Gone, HasOp
    <3>3. p \in MembersOf(r) => r.life # "down"
      BY DEF MembersOf
    <3> QED BY <2>10, <2>11, <2>12, <3>1, <3>2, <3>3 DEF Member
  <2> QED BY <1>1, <2>1, <2>4, <2>13, <2>14 DEF Membership
<1> QED BY <1>5, <1>6, <1>7, OpsOf

LEMMA PlayerMembers == ASSUME Game, Membership, NEW p \in Players, TakeMessage(p) PROVE Membership'
<1>1. PICK m, x, y : m = Head(actor[p].box) /\ x = actor[p] /\ y = actor'[p]
  OBVIOUS
<1>2. /\ x.todo = <<>> /\ p \in Actor /\ Actor' = Actor /\ Rest({p})
      /\ \/ y = Taken(x, x.st, <<Tell("room", "chat", <<p, m.arg>>)>>)
         \/ y = Taken(x, Append(x.st, m.arg), x.todo)
  BY <1>1, PlayerTakes
<1>3. /\ DOMAIN y.todo = {} \/ (DOMAIN y.todo = {1} /\ y.todo[1] = Tell("room", "chat", <<p, m.arg>>))
      /\ y.life = x.life /\ y.watchers = x.watchers
  <2>1. DOMAIN x = Fields
    BY <1>1, <1>2, Life DEF Typed
  <2>2. y.life = x.life /\ y.watchers = x.watchers
          /\ (y.todo = <<>> \/ y.todo = <<Tell("room", "chat", <<p, m.arg>>)>>)
    BY <1>2, <2>1 DEF Taken, Fields
  <2> QED BY <2>2
<1>4. ~HasOp(x, JoinOp(p)) /\ ~HasOp(y, JoinOp(p))
  BY <1>2, <1>3 DEF HasOp, JoinOp, Tell
<1>5. SamePlayer(p, x, y)
  BY <1>3, <1>4 DEF SamePlayer
<1>6. \A b \in Actor \ {p} : actor'[b] = actor[b]
  BY <1>2 DEF Rest
<1>7. Players \subseteq Actor /\ "main" \in Actor \ {p} /\ "room" \in Actor \ {p}
  BY Names DEF Game, Types
<1>8. \A b \in Players : SamePlayer(b, actor[b], actor'[b])
  BY <1>1, <1>5, <1>6, <1>7, SamePlayers
<1>9. \A b \in Players : SameRoom(b, actor["room"], actor'["room"])
  BY <1>6, <1>7, SameRooms
<1>10. \A b \in Actor : actor'[b].life = actor[b].life
  BY <1>1, <1>3, <1>6
<1> QED BY <1>2, <1>6, <1>7, <1>8, <1>9, <1>10, MembersStay

\* A player that joins is watched, one that has ended is forgotten.
LEMMA RoomMembers == ASSUME Game, Lined, Membership, TakeMessage("room") PROVE Membership'
<1>1. PICK m, r, y : m = Head(actor["room"].box) /\ r = actor["room"] /\ y = actor'["room"]
  OBVIOUS
<1>2. PICK s, t : s = Handle("room", m).st /\ t = Handle("room", m).todo
  OBVIOUS
<1>3. /\ r.life = "up" /\ r.todo = <<>> /\ r.box # <<>> /\ m \in RoomMsgs /\ Actor' = Actor
      /\ Rest({"room"}) /\ RoomDoes(m, r.st, s, t) /\ y = Taken(r, s, t)
  BY <1>1, <1>2, RoomTakes
<1>4. "room" \in Actor /\ "main" \in Actor \ {"room"} /\ Players \subseteq Actor \ {"room"}
  BY Names DEF Game, Types
<1>5. Typed("room", r) /\ Apart("room", r) /\ m = r.box[1]
  BY <1>1, <1>3, <1>4, Life, FirstMsg DEF Lined
<1>6. y.box = Tail(r.box) /\ y.life = "up" /\ y.st = s /\ y.todo = t
  BY <1>3, <1>5 DEF Taken, Typed, Fields
<1>7. /\ \A n : HasMsg(y, n) => HasMsg(r, n)
      /\ \A n : HasMsg(r, n) /\ n # m => HasMsg(y, n)
      /\ HasMsg(r, m)
  BY <1>3, <1>5, <1>6, MsgTaken
<1>8. \A b \in Actor \ {"room"} : actor'[b] = actor[b]
  BY <1>3 DEF Rest
<1>9. \A b \in Players : ~HasOp(r, Watch(b)) /\ Member(b, actor[b], r)
  BY <1>1, <1>3 DEF HasOp, Membership
<1>10. MembersOf(r) = r.st.members /\ MembersOf(y) = s.members
  BY <1>3, <1>6 DEF MembersOf
<1>11. SUFFICES ASSUME NEW b \in Players PROVE Member(b, actor[b], y)
  <2>1. \A b \in Actor : actor'[b].life = actor[b].life
    BY <1>1, <1>3, <1>6, <1>8
  <2> QED BY <1>1, <1>3, <1>4, <1>8, <2>1 DEF Membership
<1>12. ASSUME m # JoinMsg(b), \A w : m # Down(b, w), b \in s.members <=> b \in r.st.members
       PROVE  Member(b, actor[b], y)
  <2>1. HasMsg(y, JoinMsg(b)) <=> HasMsg(r, JoinMsg(b))
    BY <1>7, <1>12
  <2>2. HasDown(y, b) <=> HasDown(r, b)
    BY <1>7, <1>12 DEF HasDown
  <2>3. SameRoom(b, r, y)
    BY <1>3, <1>6, <1>9, <1>10, <1>12, <2>1, <2>2 DEF SameRoom
  <2> QED BY <1>9, <2>3, MemberStays, SamePlayers
<1>13. CASE m.tag = "join"
  <2>1. m.arg \in Players /\ m = JoinMsg(m.arg)
    BY <1>3, <1>13 DEF RoomMsgs, JoinMsg, Message, Down, TickMsg
  <2>2. /\ s.members = r.st.members \cup {m.arg} /\ 1 \in DOMAIN t /\ t[1] = Watch(m.arg)
    BY <1>3, <1>13 DEF RoomDoes
  <2>3. CASE b # m.arg
    BY <1>12, <2>1, <2>2, <2>3, Distinct
  <2>4. CASE b = m.arg
    <3>1. actor[b].life # "unborn" /\ ~HasOp(actor[b], JoinOp(b))
      BY <1>7, <1>9, <2>1, <2>4 DEF Member
    <3>2. HasOp(y, Watch(b))
      BY <1>6, <2>2, <2>4 DEF HasOp
    <3>3. ~HasMsg(y, JoinMsg(b))
      <4>1. MsgLines("room", m) = Both(b)
        BY <1>13, <2>4 DEF MsgLines
      <4>2. <<b, "left">> \in Both(b)
        BY DEF Both
      <4>3. ~Holds("box", "room", y, <<b, "left">>)
        BY <1>3, <1>5, <1>6, <4>1, <4>2, LinesTaken
      <4> QED BY <2>1, <2>4, <4>1, <4>2, <4>3 DEF Holds, HasMsg
    <3>4. HasDown(y, b) => actor[b].life = "down"
      BY <1>7, <1>9 DEF HasDown, Member
    <3>5. b \in MembersOf(y)
      BY <1>10, <2>2, <2>4
    <3>6. HasOp(actor[b], JoinOp(b)) => Len(actor[b].todo) = 1
      BY <3>1
    <3> QED BY <3>1, <3>2, <3>3, <3>4, <3>5 DEF Member
  <2> QED BY <2>3, <2>4
<1>14. CASE m.tag = "down"
  <2>1. PICK q \in Players : \E w \in {"killed", "gone"} : m = Down(q, w)
    BY <1>3, <1>14 DEF RoomMsgs, Message, TickMsg
  <2>2. m.from = q /\ s.members = r.st.members \ {q}
    BY <1>3, <1>14, <2>1 DEF RoomDoes, Down, Message
  <2>3. CASE b # q
    BY <1>12, <2>1, <2>2, <2>3, Distinct
  <2>4. CASE b = q
    <3>1. HasDown(r, b)
      BY <1>7, <2>1, <2>4 DEF HasDown
    <3>2. actor[b].life = "down" /\ Member(b, actor[b], r)
      BY <1>9, <3>1 DEF Member
    <3>3. b \notin MembersOf(y)
      BY <1>10, <2>2, <2>4
    <3>4. (HasMsg(y, JoinMsg(b)) => HasMsg(r, JoinMsg(b)))
      BY <1>7
    <3> QED BY <3>2, <3>3, <3>4 DEF Member
  <2> QED BY <2>3, <2>4
<1>15. CASE m.tag \in {"chat", "start", "tick"}
  <2>1. s.members = r.st.members
    BY <1>3, <1>15 DEF RoomDoes
  <2> QED BY <1>12, <1>15, <2>1, Distinct
<1> QED BY <1>3, <1>13, <1>14, <1>15, MsgsAre

LEMMA MembersKept == ASSUME Game, Lined, Membership, Next PROVE Membership'
<1>1. PICK p \in Actor :
             \/ Send(p) \/ SendToAll(p) \/ SetTimer(p) \/ StartActor(p) \/ Monitor(p)
             \/ SendExit(p) \/ Leave(p) \/ TakeMessage(p) \/ Exit(p)
             \/ \E m \in actor[p].timers : TimerFires(p, m)
  BY StepsAre
<1>2. CASE Leave(p)
  <2>1. PICK why : p = "main" /\ actor' = Ended(actor, p, why)
    BY <1>2, LeaveDoes
  <2> QED BY <2>1, EndMembers, Names
<1>3. CASE Exit(p)
  BY <1>3, ExitDoes, EndMembers
<1>4. CASE TakeMessage(p)
  <2>1. p # "main"
    BY <1>4, FirstMsg DEF TakeMessage
  <2> QED BY <1>4, <2>1, OpsOf, PlayerMembers, RoomMembers
<1>5. CASE \E m \in actor[p].timers : TimerFires(p, m)
  BY <1>5, TimerMembers
<1> QED BY <1>1, <1>2, <1>3, <1>4, <1>5, SendMembers, CastMembers, SetTimerMembers, StartMembers,
           MonitorMembers, KillMembers

-----------------------------------------------------------------------------
(* What the invariant says of the room and of what the players see.        *)

LEMMA OrderFollows == ASSUME IInv PROVE SameOrder
<1>1. SUFFICES ASSUME NEW p \in Players, NEW q \in Players,
                      NEW i \in DOMAIN actor[p].st, NEW j \in DOMAIN actor[p].st, i < j,
                      Follows(actor[q].st, actor[p].st[j], actor[p].st[i])
               PROVE  FALSE
  BY DEF SameOrder
<1>2. actor[p].st \in Seq(Lines)
  BY Life, Names DEF IInv, Typed, States, Game, Types
<1>3. PICK l, m : l = actor[p].st[i] /\ m = actor[p].st[j]
  OBVIOUS
<1>4. l \in Lines /\ m \in Lines
  BY <1>2, <1>3, ElementOfSeq
<1>5. Before(actor[p], l, m)
  BY <1>1, <1>3 DEF Before
<1>6. Before(actor[q], m, l)
  BY <1>1, <1>3 DEF Before, Follows
<1> QED BY <1>4, <1>5, <1>6 DEF IInv, OneOrder

LEMMA MembersFollow == ASSUME IInv PROVE MembersAlive
<1>1. name = "game room" /\ Game /\ Membership
  BY DEF IInv, Game
<1>2. SUFFICES ASSUME Idle("room"), actor["room"].box = <<>>
               PROVE  {p \in Players : Joined(p)} = actor["room"].st.members
  BY <1>1 DEF MembersAlive, HasHandledAll
<1>3. "room" \in Actor /\ Players \subseteq Actor
  BY <1>1 DEF Game, Types
<1>4. PICK r : r = actor["room"]
  OBVIOUS
<1>5. /\ Typed("room", r) /\ r.life = "up" /\ r.todo = <<>> /\ r.box = <<>>
      /\ MembersOf(r) = r.st.members
  BY <1>1, <1>2, <1>3, <1>4, Life DEF Idle, MembersOf
<1>6. r.st.members \subseteq Players
  BY <1>5, Names DEF Typed, States
<1>7. ASSUME NEW p \in Players PROVE Joined(p) <=> p \in r.st.members
  <2>1. PICK x : x = actor[p]
    OBVIOUS
  <2>2. Typed(p, x) /\ Member(p, x, r)
    BY <1>1, <1>3, <1>4, <2>1, Life DEF Membership
  <2>3. ~HasMsg(r, JoinMsg(p)) /\ ~HasDown(r, p) /\ ~HasOp(r, Watch(p))
    BY <1>5 DEF HasMsg, HasDown, HasOp
  <2>4. p \in r.st.members <=> x.life = "up" /\ ~HasOp(x, JoinOp(p))
    BY <1>5, <2>2, <2>3 DEF Member
  <2>5. CASE x.todo = <<>>
    <3>1. ~HasOp(x, JoinOp(p))
      BY <2>5 DEF HasOp
    <3> QED BY <2>1, <2>4, <2>5, <3>1 DEF Joined
  <2>6. CASE x.todo # <<>>
    <3>1. x.todo[1] \in PlayerOps(p) /\ Head(x.todo) = x.todo[1] /\ HasOp(x, x.todo[1])
      <4>1. x.todo \in Seq(Ops(p)) /\ Ops(p) = PlayerOps(p)
        BY <1>1, <1>3, <2>2, OpsOf DEF Typed
      <4>2. 1 \in DOMAIN x.todo /\ x.todo[1] \in Ops(p) /\ Head(x.todo) = x.todo[1]
        BY <2>6, <4>1, TailOf
      <4> QED BY <4>1, <4>2 DEF HasOp
    <3>2. x.todo[1].op = "tell" /\ (x.todo[1].tag = "join" <=> x.todo[1] = JoinOp(p))
      BY <3>1 DEF PlayerOps, Tell, JoinOp
    <3>3. HasOp(x, JoinOp(p)) <=> x.todo[1].tag = "join"
      BY <2>2, <2>6, <3>1, <3>2, NotJoining
    <3> QED BY <2>1, <2>4, <2>6, <3>1, <3>2, <3>3 DEF Joined, Doing, Now
  <2> QED BY <2>5, <2>6
<1> QED BY <1>4, <1>6, <1>7

-----------------------------------------------------------------------------
(* The start: everything is on the list of the script.                     *)

LEMMA SeqOfSet ==
  ASSUME NEW S, IsFiniteSet(S)
  PROVE  /\ SetToSeq(S) \in Seq(S) /\ Len(SetToSeq(S)) = Cardinality(S) /\ Cardinality(S) \in Nat
         /\ \A i, j \in DOMAIN SetToSeq(S) : i # j => SetToSeq(S)[i] # SetToSeq(S)[j]
<1> DEFINE n == Cardinality(S)
<1>1. n \in Nat /\ ExistsBijection(1..n, S)
  BY FS_CardinalityType
<1>2. \E f \in [1..n -> S] : IsInjective(f)
  BY <1>1 DEF ExistsBijection, Bijection, Injection
<1>3. SetToSeq(S) \in [1..n -> S] /\ IsInjective(SetToSeq(S))
  BY <1>2 DEF SetToSeq
<1>4. PICK f : f = SetToSeq(S)
  OBVIOUS
<1>5. f \in [1..n -> S] /\ IsInjective(f)
  BY <1>3, <1>4
<1> HIDE DEF n
<1>6. f \in Seq(S) /\ Len(f) = n /\ DOMAIN f = 1..n
  BY <1>1, <1>5
<1> QED BY <1>1, <1>4, <1>5, <1>6 DEF n, IsInjective

\* The list s says only lines of A, each once.
Says(s, S, A) == /\ s \in Seq(S) /\ \A i \in DOMAIN s : OpLines(s[i]) \subseteq A
                 /\ \A i, j \in DOMAIN s : i # j => OpLines(s[i]) \cap OpLines(s[j]) = {}

LEMMA SaysBoth ==
  ASSUME NEW S, NEW A, NEW B, NEW s, NEW t, Says(s, S, A), Says(t, S, B), A \cap B = {}
  PROVE  Says(s \o t, S, A \cup B)
<1>1. PICK u, n : u = s \o t /\ n = Len(s)
  OBVIOUS
<1>2. s \in Seq(S) /\ t \in Seq(S)
  BY DEF Says
<1>3. /\ u \in Seq(S) /\ n \in Nat /\ Len(t) \in Nat /\ Len(u) = n + Len(t)
      /\ \A i \in 1..(n + Len(t)) : u[i] = IF i <= n THEN s[i] ELSE t[i - n]
      /\ DOMAIN s = 1..n /\ DOMAIN t = 1..Len(t) /\ DOMAIN u = 1..(n + Len(t))
  BY <1>1, <1>2, ConcatProperties, LenProperties
<1>4. \A i \in DOMAIN u : \/ i \in DOMAIN s /\ u[i] = s[i]
                          \/ i \notin DOMAIN s /\ i - n \in DOMAIN t /\ u[i] = t[i - n]
  BY <1>3
<1>5. \A i \in DOMAIN u : OpLines(u[i]) \subseteq A \cup B
  BY <1>4 DEF Says
<1>6. ASSUME NEW i \in DOMAIN u, NEW j \in DOMAIN u, i # j
      PROVE  OpLines(u[i]) \cap OpLines(u[j]) = {}
  <2>1. CASE i \in DOMAIN s /\ j \in DOMAIN s
    BY <1>4, <1>6, <2>1 DEF Says
  <2>2. CASE i \notin DOMAIN s /\ j \notin DOMAIN s
    <3>1. i - n \in DOMAIN t /\ j - n \in DOMAIN t /\ i - n # j - n
            /\ u[i] = t[i - n] /\ u[j] = t[j - n]
      BY <1>3, <1>4, <1>6, <2>2
    <3> QED BY <3>1 DEF Says
  <2>3. CASE i \in DOMAIN s /\ j \notin DOMAIN s
    <3>1. OpLines(u[i]) \subseteq A /\ OpLines(u[j]) \subseteq B
      BY <1>4, <2>3 DEF Says
    <3> QED BY <3>1
  <2>4. CASE i \notin DOMAIN s /\ j \in DOMAIN s
    <3>1. OpLines(u[i]) \subseteq B /\ OpLines(u[j]) \subseteq A
      BY <1>4, <2>4 DEF Says
    <3> QED BY <3>1
  <2> QED BY <2>1, <2>2, <2>3, <2>4
<1> QED BY <1>1, <1>3, <1>5, <1>6 DEF Says

LEMMA SaysNothing ==
  ASSUME NEW S, NEW s \in Seq(S), \A i \in DOMAIN s : OpLines(s[i]) = {}
  PROVE  Says(s, S, {})
  BY DEF Says

\* What the entries of the script say.
LEMMA ScriptLines ==
  /\ OpLines(Spawn("room", NewRoom)) = ClockFrom(1)
  /\ \A p : p # "room" => OpLines(JoinRoom(p)) = Both(p)
  /\ \A p, t : OpLines(Tell(p, "say", t)) = {<<p, t>>}
  /\ OpLines(Tell("room", "start", Rounds)) = {}
  /\ \A a : OpLines(Kill(a)) = {}
  /\ OpLines(Quit("normal")) = {}
<1>1. OpLines(Spawn("room", NewRoom)) = ClockFrom(1)
  BY DEF OpLines, Spawn, Start
<1>2. ASSUME NEW p, p # "room" PROVE OpLines(JoinRoom(p)) = Both(p)
  <2>1. PICK o : o = JoinRoom(p)
    OBVIOUS
  <2>2. o.op = "start" /\ o.actor = p
    BY <2>1 DEF JoinRoom, Start
  <2> QED BY <1>2, <2>1, <2>2 DEF OpLines
<1>3. \A p, t : OpLines(Tell(p, "say", t)) = {<<p, t>>}
  BY DEF OpLines, Tell
<1>4. OpLines(Tell("room", "start", Rounds)) = {}
  BY DEF OpLines, Tell
<1>5. \A a : OpLines(Kill(a)) = {}
  BY DEF OpLines, Kill
<1>6. OpLines(Quit("normal")) = {}
  BY DEF OpLines, Quit
<1> QED BY <1>1, <1>2, <1>3, <1>4, <1>5, <1>6

LEMMA StayersAre ==
  /\ Leaver \in Players /\ Stayers \in Seq(Players)
  /\ Stayers[1] \in Players /\ Stayers[Len(Stayers)] \in Players
<1>1. IsFiniteSet(Players) /\ Cardinality(Players) \in Nat /\ Cardinality(Players) > 1
  BY PlayersAreNamed, FS_CardinalityType
<1>2. Leaver \in Players
  <2>1. \E p \in Players : TRUE
    BY <1>1, FS_EmptySet
  <2> QED BY <2>1 DEF Leaver
<1>3. /\ IsFiniteSet(Players \ {Leaver})
      /\ Cardinality(Players \ {Leaver}) = Cardinality(Players) - 1
  BY <1>1, <1>2, FS_RemoveElement
<1>4. Stayers \in Seq(Players \ {Leaver}) /\ Len(Stayers) = Cardinality(Players) - 1
  BY <1>3, SeqOfSet DEF Stayers
<1>5. Len(Stayers) \in Nat \ {0} /\ DOMAIN Stayers = 1..Len(Stayers)
  BY <1>1, <1>4, LenProperties
<1>6. Stayers[1] \in Players /\ Stayers[Len(Stayers)] \in Players
  <2>1. \A i \in 1..Len(Stayers) : Stayers[i] \in Players \ {Leaver}
    BY <1>4, ElementOfSeq
  <2>2. 1 \in 1..Len(Stayers) /\ Len(Stayers) \in 1..Len(Stayers)
    BY <1>5
  <2> QED BY <2>1, <2>2
<1>7. Stayers \in Seq(Players)
  <2>1. \A i \in 1..Len(Stayers) : Stayers[i] \in Players
    BY <1>4, <1>5, ElementOfSeq
  <2>2. Stayers = [i \in 1..Len(Stayers) |-> Stayers[i]]
    BY <1>4
  <2> QED BY <1>5, <2>1, <2>2
<1> QED BY <1>2, <1>6, <1>7

LEMMA JoinsSay == Says(SetToSeq({JoinRoom(p) : p \in Players}), MainOps, Players \X {"joins", "left"})
<1> DEFINE J == {JoinRoom(p) : p \in Players}
           s == SetToSeq(J)
<1>1. IsFiniteSet(J)
  <2> DEFINE f == [p \in Players |-> JoinRoom(p)]
  <2>1. f \in Surjection(Players, J)
    BY DEF Surjection
  <2> QED BY <2>1, PlayersAreNamed, FS_Surjection
<1>2. s \in Seq(J) /\ \A i, j \in DOMAIN s : i # j => s[i] # s[j]
  BY <1>1, SeqOfSet
<1> HIDE DEF s
<1>3. \A i \in DOMAIN s : \E p \in Players : s[i] = JoinRoom(p)
  <2>1. DOMAIN s = 1..Len(s) /\ \A i \in 1..Len(s) : s[i] \in J
    BY <1>2, LenProperties, ElementOfSeq
  <2> QED BY <2>1
<1>4. s \in Seq(MainOps)
  <2>1. Len(s) \in Nat /\ DOMAIN s = 1..Len(s) /\ s = [i \in 1..Len(s) |-> s[i]]
    BY <1>2, LenProperties
  <2>2. \A i \in 1..Len(s) : s[i] \in MainOps
    BY <1>3, <2>1 DEF MainOps
  <2> QED BY <2>1, <2>2
<1>5. \A p \in Players : OpLines(JoinRoom(p)) = {<<p, "joins">>, <<p, "left">>}
  BY ScriptLines, Names DEF Both
<1>6. \A i \in DOMAIN s : OpLines(s[i]) \subseteq Players \X {"joins", "left"}
  BY <1>3, <1>5
<1>7. ASSUME NEW i \in DOMAIN s, NEW j \in DOMAIN s, i # j PROVE OpLines(s[i]) \cap OpLines(s[j]) = {}
  <2>1. PICK p \in Players : s[i] = JoinRoom(p)
    BY <1>3
  <2>2. PICK q \in Players : s[j] = JoinRoom(q)
    BY <1>3
  <2>3. p # q
    BY <1>2, <1>7, <2>1, <2>2
  <2>4. OpLines(s[i]) = {<<p, "joins">>, <<p, "left">>} /\ OpLines(s[j]) = {<<q, "joins">>, <<q, "left">>}
    BY <1>5, <2>1, <2>2
  <2> QED BY <2>3, <2>4
<1>8. Says(s, MainOps, Players \X {"joins", "left"})
  BY <1>4, <1>6, <1>7 DEF Says
<1> QED BY <1>8 DEF s

LEMMA TheScript == Says(GameRoomScript \o <<Quit("normal")>>, MainOps, Lines)
<1> DEFINE A == ClockFrom(1)
           B == Players \X {"joins", "left"}
           C == Players \X {"hello", "where is it"}
           s1 == <<Spawn("room", NewRoom)>>
           s2 == SetToSeq({JoinRoom(p) : p \in Players})
           s3 == <<Tell(Stayers[1], "say", "hello"), Tell("room", "start", Rounds), Kill(Leaver),
                   Tell(Stayers[Len(Stayers)], "say", "where is it"), Kill("room")>>
           s4 == [k \in DOMAIN Stayers |-> Kill(Stayers[k])]
           s5 == <<Quit("normal")>>
<1>1. Says(s1, MainOps, A)
  <2>1. PICK o, s : o = Spawn("room", NewRoom) /\ s = <<o>>
    OBVIOUS
  <2>2. o \in MainOps /\ OpLines(o) = A
    BY <2>1, ScriptLines DEF MainOps
  <2>3. s \in Seq(MainOps) /\ DOMAIN s = {1} /\ s[1] = o
    BY <2>1, <2>2, Singles
  <2>4. Says(s, MainOps, A)
    BY <2>2, <2>3 DEF Says
  <2> QED BY <2>1, <2>4
<1>2. Says(s2, MainOps, B)
  BY JoinsSay
<1>3. Says(s3, MainOps, C)
  <2>1. PICK o1, o2, o3, o4, o5, s :
          /\ o1 = Tell(Stayers[1], "say", "hello") /\ o2 = Tell("room", "start", Rounds)
          /\ o3 = Kill(Leaver) /\ o4 = Tell(Stayers[Len(Stayers)], "say", "where is it")
          /\ o5 = Kill("room") /\ s = <<o1, o2, o3, o4, o5>>
    OBVIOUS
  <2>2. o1 \in MainOps /\ o2 \in MainOps /\ o3 \in MainOps /\ o4 \in MainOps /\ o5 \in MainOps
    <3>1. /\ \A p \in Players, t \in Texts : Tell(p, "say", t) \in MainOps
          /\ \A a \in Players \cup {"room"} : Kill(a) \in MainOps
          /\ Tell("room", "start", Rounds) \in MainOps
      BY DEF MainOps
    <3>2. "hello" \in Texts /\ "where is it" \in Texts
      BY DEF Texts
    <3> QED BY <2>1, <3>1, <3>2, StayersAre
  <2>3. /\ OpLines(o1) = {<<Stayers[1], "hello">>} /\ OpLines(o2) = {} /\ OpLines(o3) = {}
        /\ OpLines(o4) = {<<Stayers[Len(Stayers)], "where is it">>} /\ OpLines(o5) = {}
    BY <2>1, ScriptLines
  <2>4. OpLines(o1) \subseteq C /\ OpLines(o4) \subseteq C /\ OpLines(o1) \cap OpLines(o4) = {}
    <3>1. PICK p, q : p = Stayers[1] /\ q = Stayers[Len(Stayers)]
      OBVIOUS
    <3>2. p \in Players /\ q \in Players
      BY <3>1, StayersAre
    <3>3. <<p, "hello">> \in C /\ <<q, "where is it">> \in C /\ <<p, "hello">> # <<q, "where is it">>
      BY <3>2
    <3> QED BY <2>3, <3>1, <3>3
  <2>5. /\ s \in Seq(MainOps) /\ DOMAIN s = {1, 2, 3, 4, 5}
        /\ s[1] = o1 /\ s[2] = o2 /\ s[3] = o3 /\ s[4] = o4 /\ s[5] = o5
    <3>1. PICK S : S = MainOps
      OBVIOUS
    <3>2. o1 \in S /\ o2 \in S /\ o3 \in S /\ o4 \in S /\ o5 \in S
      BY <2>2, <3>1
    <3>3. s = <<o1, o2, o3, o4, o5>>
      BY <2>1
    <3>4. /\ s \in Seq(S) /\ DOMAIN s = {1, 2, 3, 4, 5}
          /\ s[1] = o1 /\ s[2] = o2 /\ s[3] = o3 /\ s[4] = o4 /\ s[5] = o5
      BY <3>2, <3>3
    <3> QED BY <3>1, <3>4
  <2>6. \A i \in DOMAIN s : OpLines(s[i]) \subseteq C
    BY <2>3, <2>4, <2>5
  <2>7. \A i \in DOMAIN s : i \in {2, 3, 5} => OpLines(s[i]) = {}
    BY <2>3, <2>5
  <2>8. ASSUME NEW i \in DOMAIN s, NEW j \in DOMAIN s, i # j
        PROVE  OpLines(s[i]) \cap OpLines(s[j]) = {}
    <3>1. CASE i \in {2, 3, 5} \/ j \in {2, 3, 5}
      BY <2>7, <3>1
    <3>2. CASE (i = 1 /\ j = 4) \/ (i = 4 /\ j = 1)
      BY <2>4, <2>5, <3>2
    <3> QED BY <2>5, <2>8, <3>1, <3>2
  <2>9. Says(s, MainOps, C)
    BY <2>5, <2>6, <2>8 DEF Says
  <2> QED BY <2>1, <2>9
<1>4. Says(s4, MainOps, {})
  <2>1. DOMAIN Stayers = 1..Len(Stayers) /\ Len(Stayers) \in Nat
          /\ \A k \in 1..Len(Stayers) : Stayers[k] \in Players
    BY StayersAre, LenProperties, ElementOfSeq
  <2>2. \A k \in 1..Len(Stayers) : Kill(Stayers[k]) \in MainOps
    BY <2>1 DEF MainOps
  <2>3. s4 \in Seq(MainOps) /\ \A k \in DOMAIN s4 : s4[k] = Kill(Stayers[k])
    BY <2>1, <2>2
  <2> HIDE DEF s4
  <2>4. \A k \in DOMAIN s4 : OpLines(s4[k]) = {}
    BY <2>3, ScriptLines
  <2> QED BY <2>3, <2>4, SaysNothing
<1>5. Says(s5, MainOps, {})
  <2>1. PICK o, s : o = Quit("normal") /\ s = <<o>>
    OBVIOUS
  <2>2. o \in MainOps /\ OpLines(o) = {}
    BY <2>1, ScriptLines DEF MainOps
  <2>3. s \in Seq(MainOps) /\ DOMAIN s = {1} /\ s[1] = o
    BY <2>1, <2>2, Singles
  <2>4. Says(s, MainOps, {})
    BY <2>2, <2>3 DEF Says
  <2> QED BY <2>1, <2>4
<1>6. A \cap B = {} /\ (A \cup B) \cap C = {}
  <2>1. \A l \in A : l[1] = "clock"
    BY DEF ClockFrom
  <2>2. \A l \in B \cup C : l[1] \in Players
    OBVIOUS
  <2>3. A \cap (B \cup C) = {}
    BY <2>1, <2>2, Names
  <2>4. B \cap C = {}
    OBVIOUS
  <2> QED BY <2>3, <2>4
<1>7. A \cup B \cup C \subseteq Lines
  BY DEF Lines, Texts
<1> HIDE DEF A, B, C, s1, s2, s3, s4, s5
<1>8. Says(s1 \o s2, MainOps, A \cup B)
  BY <1>1, <1>2, <1>6, SaysBoth
<1>9. Says(s1 \o s2 \o s3, MainOps, A \cup B \cup C)
  BY <1>3, <1>6, <1>8, SaysBoth
<1>10. Says(s1 \o s2 \o s3 \o s4, MainOps, (A \cup B \cup C) \cup {})
  BY <1>4, <1>9, SaysBoth
<1>11. Says((s1 \o s2 \o s3 \o s4) \o s5, MainOps, ((A \cup B \cup C) \cup {}) \cup {})
  BY <1>5, <1>10, SaysBoth
<1>12. Says((s1 \o s2 \o s3 \o s4) \o s5, MainOps, Lines)
  BY <1>7, <1>11 DEF Says
<1> QED BY <1>12 DEF s1, s2, s3, s4, s5, GameRoomScript

LEMMA NoneIn == ASSUME NEW e, e = <<>> PROVE DOMAIN e = {}
  OBVIOUS

\* Everything but the script is still to be born, and all that will be said is in it.
LEMMA TheStart ==
  ASSUME Init, name = "game room"
  PROVE  /\ Actor = Players \cup {"main", "room"}
         /\ \A a \in Actor : /\ DOMAIN actor[a] = Fields /\ actor[a].role = RoleOf(a)
                             /\ actor[a].life = IF a = "main" THEN "up" ELSE "unborn"
                             /\ actor[a].st = <<>> /\ actor[a].box = <<>> /\ actor[a].watchers = {}
                             /\ actor[a].closed = FALSE /\ actor[a].killed = FALSE
                             /\ actor[a].timers = {}
         /\ Says(actor["main"].todo, MainOps, Lines)
         /\ \A a \in Actor : a # "main" => actor[a].todo = <<>>
<1>1. PICK cast : cast \in Program("game room") /\
        actor = [a \in DOMAIN cast |->
                [Unborn(cast[a].role) EXCEPT !.life = IF cast[a].role = "script" THEN "up" ELSE @,
                                             !.st = cast[a].st, !.todo = cast[a].todo]]
  BY DEF Init
<1>2. cast = GameRoom
  <2>1. Program("game room") = CafProgram("game room")
    BY DEF Program, AsioPrograms
  <2>2. CafProgram("game room") = {GameRoom}
    BY DEF CafProgram
  <2> QED BY <1>1, <2>1, <2>2
<1>3. PICK s : s = GameRoomScript
  OBVIOUS
<1>4. PICK u : u = s \o <<Quit("normal")>>
  OBVIOUS
<1>5. Says(u, MainOps, Lines)
  BY <1>3, <1>4, TheScript
<1>6. PICK S, R, P : S = Script(s) /\ R = Role("game room") /\ P = Role("player")
  OBVIOUS
<1>7. cast = [a \in Players \cup {"main", "room"} |->
               CASE a = "main" -> S [] a = "room" -> R [] OTHER -> P]
  BY <1>2, <1>3, <1>6 DEF GameRoom
<1>8. /\ cast["main"] = S /\ cast["room"] = R /\ \A p \in Players : cast[p] = P
      /\ DOMAIN cast = Players \cup {"main", "room"}
  BY <1>7, Names
<1>9. /\ cast["main"].role = "script" /\ cast["main"].st = <<>> /\ cast["main"].todo = u
      /\ \A a \in DOMAIN cast : a # "main" => /\ cast[a].role = RoleOf(a) /\ cast[a].st = <<>>
                                              /\ cast[a].todo = <<>>
      /\ \A a \in DOMAIN cast : cast[a].role = RoleOf(a)
  <2>1. /\ R.role = "game room" /\ R.st = <<>> /\ R.todo = <<>>
        /\ P.role = "player" /\ P.st = <<>> /\ P.todo = <<>>
    BY <1>6 DEF Role, Nothing
  <2>2. S.role = "script" /\ S.st = <<>> /\ S.todo = u
    BY <1>4, <1>6 DEF Script, Nothing
  <2>3. /\ RoleOf("main") = "script" /\ RoleOf("room") = "game room"
        /\ \A p \in Players : RoleOf(p) = "player"
    BY Names DEF RoleOf
  <2>4. ASSUME NEW a \in DOMAIN cast
        PROVE  /\ cast[a].role = RoleOf(a)
               /\ a # "main" => cast[a].st = <<>> /\ cast[a].todo = <<>>
    <3>1. CASE a = "main"
      BY <1>8, <2>2, <2>3, <3>1
    <3>2. CASE a = "room"
      BY <1>8, <2>1, <2>3, <3>2
    <3>3. CASE a \in Players
      BY <1>8, <2>1, <2>3, <3>3
    <3> QED BY <1>8, <3>1, <3>2, <3>3
  <2> QED BY <1>8, <2>2, <2>4
<1>10. Actor = DOMAIN cast
  BY <1>1 DEF Actor
<1>11. ASSUME NEW a \in Actor
       PROVE  /\ DOMAIN actor[a] = Fields /\ actor[a].role = RoleOf(a)
              /\ actor[a].life = IF a = "main" THEN "up" ELSE "unborn"
              /\ actor[a].st = <<>> /\ actor[a].box = <<>> /\ actor[a].watchers = {}
              /\ actor[a].closed = FALSE /\ actor[a].killed = FALSE
              /\ actor[a].timers = {} /\ actor[a].todo = cast[a].todo
  <2>1. PICK x : x = Unborn(cast[a].role)
    OBVIOUS
  <2>2. /\ DOMAIN x = Fields /\ x.role = cast[a].role /\ x.life = "unborn" /\ x.box = <<>>
        /\ x.watchers = {} /\ x.closed = FALSE /\ x.killed = FALSE /\ x.timers = {}
    BY <2>1 DEF Unborn, Fields, Nothing
  <2>3. actor[a] = [x EXCEPT !.life = IF cast[a].role = "script" THEN "up" ELSE @,
                             !.st = cast[a].st, !.todo = cast[a].todo]
    BY <1>1, <1>10, <2>1
  <2>4. cast[a].role = RoleOf(a) /\ cast[a].st = <<>> /\ (RoleOf(a) = "script" <=> a = "main")
    BY <1>9, <1>10, <1>11 DEF RoleOf
  <2> QED BY <2>2, <2>3, <2>4 DEF Fields
<1>12. actor["main"].todo = u
  BY <1>8, <1>9, <1>10, <1>11
<1> QED BY <1>5, <1>8, <1>9, <1>10, <1>11, <1>12, ZenonT(60)

LEMMA InitInv == ASSUME Init, name = "game room" PROVE IInv
<1>1. Actor = Players \cup {"main", "room"} /\ Says(actor["main"].todo, MainOps, Lines)
  BY TheStart
<1>2. \A a \in Actor : a # "main" => DOMAIN actor[a].todo = {} /\ actor[a].todo = <<>>
  BY TheStart, NoneIn
<1>3. \A a \in Actor : /\ DOMAIN actor[a] = Fields /\ actor[a].role = RoleOf(a)
                       /\ actor[a].life = IF a = "main" THEN "up" ELSE "unborn"
                       /\ actor[a].st = <<>> /\ actor[a].box = <<>> /\ actor[a].watchers = {}
                       /\ actor[a].closed = FALSE /\ actor[a].killed = FALSE
                       /\ actor[a].timers = {}
                       /\ DOMAIN actor[a].st = {} /\ DOMAIN actor[a].box = {}
  BY TheStart, NoneIn
<1>4. Game
  <2>1. ASSUME NEW a \in Actor PROVE Typed(a, actor[a])
    <3>1. PICK x : x = actor[a]
      OBVIOUS
    <3>2. x.st \in States(a)
      BY <1>3, <3>1, EmptySeq DEF States, Nothing
    <3>3. x.todo \in Seq(Ops(a)) /\ (a # "main" => x.todo = <<>>)
      <4>1. CASE a = "main"
        BY <1>1, <3>1, <4>1 DEF Ops, Says
      <4>2. CASE a # "main"
        BY <1>2, <3>1, <4>2, EmptySeq
      <4> QED BY <4>1, <4>2
    <3>4. x.box \in Seq(Msgs(a))
      BY <1>3, <3>1, EmptySeq
    <3>5. /\ DOMAIN x = Fields /\ x.role = RoleOf(a)
          /\ x.life = IF a = "main" THEN "up" ELSE "unborn"
          /\ x.watchers = {} /\ x.closed = FALSE /\ x.killed = FALSE /\ x.timers = {}
      BY <1>3, <3>1
    <3>6. Typed(a, x)
      BY <3>2, <3>3, <3>4, <3>5 DEF Typed
    <3> QED BY <3>1, <3>6
  <2> QED BY <1>1, <2>1 DEF Game, Types
<1>5. \A a \in Actor : Apart(a, actor[a])
  <2>1. ASSUME NEW a \in Actor PROVE Apart(a, actor[a])
    <3>1. \A i, j \in DOMAIN actor[a].todo : i # j =>
            OpLines(actor[a].todo[i]) \cap OpLines(actor[a].todo[j]) = {}
      BY <1>1, <1>2 DEF Says
    <3> QED BY <1>3, <3>1 DEF Apart
  <2> QED BY <2>1
<1>6. \A k \in Kinds : \A a \in Actor : \A l \in Lines : Holds(k, a, actor[a], l) => k = "todo" /\ a = "main"
  BY <1>2, <1>3 DEF Holds
<1>7. Players \subseteq Actor /\ "room" \in Actor /\ "main" \in Actor /\ "main" \notin Players
  BY <1>1, Names
<1>8. \A p \in Players : \A l, m : ~Sees(actor[p], l) /\ ~Before(actor[p], l, m)
  BY <1>3, <1>7 DEF Sees, Before
<1>9. OnePlace /\ Unseen /\ OneOrder
  BY <1>6, <1>8 DEF OnePlace, Unseen, OneOrder
<1>10. Membership
  <2>1. ASSUME NEW a \in Actor, Starts(actor["main"], a) PROVE actor[a].life = "unborn"
    <3>1. PICK k \in DOMAIN actor["main"].todo : /\ actor["main"].todo[k].op = "start"
                                                 /\ actor["main"].todo[k].actor = a
      BY <2>1 DEF Starts
    <3>2. actor["main"].todo[k] \in MainOps
      <4>1. PICK t : t = actor["main"].todo
        OBVIOUS
      <4>2. t \in Seq(MainOps) /\ DOMAIN t = 1..Len(t)
        BY <1>1, <4>1, LenProperties DEF Says
      <4>3. t[k] \in MainOps
        BY <3>1, <4>1, <4>2, ElementOfSeq
      <4> QED BY <4>1, <4>3
    <3>3. a # "main"
      BY <1>7, <3>1, <3>2, MainOpsAre
    <3> QED BY <1>3, <3>3
  <2>2. ASSUME NEW p \in Players PROVE Member(p, actor[p], actor["room"])
    <3>1. PICK x, r : x = actor[p] /\ r = actor["room"]
      OBVIOUS
    <3>2. /\ x.life = "unborn" /\ r.life = "unborn" /\ DOMAIN x.todo = {} /\ DOMAIN r.todo = {}
          /\ DOMAIN r.box = {}
      BY <1>2, <1>3, <1>7, <3>1
    <3>3. Member(p, x, r)
      BY <3>2 DEF Member, HasOp, HasMsg, HasDown, MembersOf
    <3> QED BY <3>1, <3>3
  <2> QED BY <2>1, <2>2 DEF Membership
<1> QED BY <1>4, <1>5, <1>9, <1>10 DEF IInv

LEMMA NextInv == ASSUME IInv, [Next]_vars PROVE IInv'
<1>1. CASE UNCHANGED vars
  BY <1>1, ZenonT(60) DEF vars, IInv, Game, Types, OnePlace, Unseen, OneOrder, Membership, Actor
<1>2. CASE Next
  <2>1. Game /\ Lined /\ Membership
    BY DEF IInv, Lined
  <2> QED BY <1>2, <2>1, TypesKept, LinesKept, MembersKept DEF IInv, Lined
<1> QED BY <1>1, <1>2

\* No step changes which program runs.
LEMMA NameKept == ASSUME [Next]_vars PROVE name' = name
<1>1. ASSUME NEW p \in Actor, Step(p) PROVE name' = name
  BY <1>1 DEF Step, Proceed, Send, SendToAll, SendRequest, WriteSocket, Delegate, Respond, SetTimer,
     TakeAnswers, TimeOut, Receive, WaitFor, StartActor, StartLinked, Monitor, SendExit, CloseMailbox, Leave,
     TakeMessage, FindClosed, Run, Exit, TimerFires, Becomes
<1> QED BY <1>1 DEF Next, vars

\* With any number of players, whatever overtakes what: no two players see two lines in different
\* orders, although the script, the players, the monitors and the clock all tell the room at once.
THEOREM SameOrderAlways == Spec => []SameOrder
<1> DEFINE Inv == name = "game room" => IInv
<1>1. Init => Inv
  BY InitInv
<1>2. Inv /\ [Next]_vars => Inv'
  BY NextInv, NameKept
<1>3. Inv => SameOrder
  BY OrderFollows DEF SameOrder
<1> QED BY <1>1, <1>2, <1>3, PTL DEF Spec

\* A game room that has handled all its messages has as members the players that have joined and
\* are alive: a player that ends while its join is on the way, or before it is watched, is forgotten.
THEOREM GameRoomMembers == Spec => []MembersAlive
<1> DEFINE Inv == name = "game room" => IInv
<1>1. Init => Inv
  BY InitInv
<1>2. Inv /\ [Next]_vars => Inv'
  BY NextInv, NameKept
<1>3. Inv => MembersAlive
  BY MembersFollow DEF MembersAlive
<1> QED BY <1>1, <1>2, <1>3, PTL DEF Spec
=============================================================================
