------------------------------- MODULE Actors -------------------------------
(***************************************************************************)
(* The actor programs of caf-example and boost-asio-example at work.  An   *)
(* actor has a private state and a mailbox; it takes a message, and then   *)
(* does one after the other what its handler says.  Between any two of     *)
(* these, any other actor may go on.  Mailboxes, requests, monitors and    *)
(* timers are the libraries', external to the source.                      *)
(***************************************************************************)
EXTENDS CafActors, AsioActors

CONSTANTS Programs,         \* the programs to look at
          MailboxCapacity   \* of the mailboxes of boost-asio-example, 16 in the code

ASSUME ActorConstants == {Rounds, Casts, MaxAttempts, GoodAttempt, MailboxCapacity} \subseteq Nat \ {0}

VARIABLES name,   \* the program that runs
          actor   \* actor -> what it is and where it is

vars == <<name, actor>>

Actor == DOMAIN actor
OfAsio == name \in AsioPrograms
Program(n) == IF n \in AsioPrograms THEN AsioProgram(n) ELSE CafProgram(n)

Unborn(role) == [role |-> role, life |-> "unborn", st |-> Nothing, todo |-> Nothing,
                 box |-> <<>>, watchers |-> {}, closed |-> FALSE, killed |-> FALSE, timers |-> {},
                 asked |-> 0, heard |-> 0, answers |-> <<>>, got |-> <<>>]
(* box, closed: the mailbox; st: the private state; todo: what is left to  *)
(* do; watchers: its monitors; timers: messages on their way from the      *)
(* clock; asked, heard: how many requests were sent, and are over;         *)
(* answers: those that are not; got: history, what a script received.      *)
Init == \E n \in Programs : \E cast \in Program(n) :
  /\ name = n
  /\ actor = [a \in DOMAIN cast |->
                [Unborn(cast[a].role) EXCEPT !.life = IF cast[a].role = "script" THEN "up" ELSE @,
                                             !.st = cast[a].st, !.todo = cast[a].todo]]

Handle(p, m) == IF OfAsio THEN AsioHandle(actor[p].role, actor[p].st, m)
                ELSE CafHandle(actor[p].role, p, actor[p].st, m)

-----------------------------------------------------------------------------
(* What becomes of the actors as, when ...                                 *)

\* ... a request of the sender of m is answered; a late answer is dropped.
Answered(as, m, outcome) ==
  IF m.id > as[m.from].heard
  THEN [as EXCEPT ![m.from].answers = @ @@ (m.id :> outcome)] ELSE as
\* ... m arrives; a dead actor answers a request with an error.
Sent(as, to, m) ==
  IF as[to].life # "down" THEN [as EXCEPT ![to].box = Append(@, m)]
  ELSE IF m.id > 0 THEN Answered(as, m, Nothing) ELSE as
Message(tag, arg, from, id) == [tag |-> tag, arg |-> arg, from |-> from, id |-> id]
Down(p, why) == Message("down", why, p, 0)
\* ... p ends: its monitors hear of it, and those that wait for an answer.
Ended(as, p, why) ==
  LET gone == [Unborn(as[p].role) EXCEPT !.life = "down", !.st = as[p].st, !.got = as[p].got,
                                         !.asked = as[p].asked, !.heard = as[p].asked]
      told(a) == a \in as[p].watchers /\ as[a].life # "down"
      open(a) == {m \in ToSet(as[p].box) : m.from = a /\ m.id > as[a].heard}
  IN  [a \in DOMAIN as |->
         IF a = p THEN gone
         ELSE [as[a] EXCEPT !.box = IF told(a) THEN Append(@, Down(p, why)) ELSE @,
                            !.answers = @ @@ [id \in {m.id : m \in open(a)} |-> Nothing]]]

-----------------------------------------------------------------------------
(* The first thing on the list of p.                                       *)

Doing(p, ops) == /\ actor[p].life = "up" /\ actor[p].todo # <<>>
                 /\ Head(actor[p].todo).op \in ops
Now(p) == Head(actor[p].todo)
Done(p) == [actor EXCEPT ![p].todo = Tail(@)]
Becomes(as) == actor' = as /\ UNCHANGED name

HasRoom(q) == OfAsio => Len(actor[q].box) < MailboxCapacity
Send(p) ==
  /\ Doing(p, {"tell"}) /\ HasRoom(Now(p).to)
  /\ Becomes(Sent(Done(p), Now(p).to, Message(Now(p).tag, Now(p).arg, p, 0)))
SendToAll(p) ==
  LET m == Message(Now(p).tag, Now(p).arg, p, 0)
  IN  /\ Doing(p, {"cast"})
      /\ Becomes([a \in Actor |-> IF a \in Now(p).tos THEN Sent(Done(p), a, m)[a] ELSE Done(p)[a]])
SendRequest(p) ==
  LET id == actor[p].asked + 1
  IN  /\ Doing(p, {"ask"}) /\ HasRoom(Now(p).to)
      /\ Becomes(Sent([Done(p) EXCEPT ![p].asked = id], Now(p).to,
                      Message(Now(p).tag, Now(p).arg, p, id)))
\* The socket is closed: the writer throws and takes its partner along.
WriteSocket(p) ==
  /\ Doing(p, {"write"})
  /\ IF actor[Now(p).to].life = "up"
     THEN Becomes(Sent(Done(p), Now(p).to, Message(Now(p).tag, Now(p).arg, p, 0)))
     ELSE Becomes(Ended(Ended(actor, Now(p).partner, "error"), p, "error"))
Delegate(p) ==
  /\ Doing(p, {"forward"})
  /\ Becomes(Sent(Done(p), Now(p).to, Now(p).msg))
Respond(p) ==
  /\ Doing(p, {"reply"})
  /\ Becomes(IF Now(p).msg.id > 0 THEN Answered(Done(p), Now(p).msg, Now(p).outcome) ELSE Done(p))
SetTimer(p) ==
  /\ Doing(p, {"later"})
  /\ Becomes([Done(p) EXCEPT ![p].timers = @ \cup {Message(Now(p).tag, Nothing, p, 0)}])

Asked(p) == (actor[p].asked - Now(p).n + 1)..actor[p].asked
Heard(p, outcome) == [Done(p) EXCEPT ![p].got = Append(@, outcome),
                                     ![p].heard = actor[p].asked, ![p].answers = <<>>]
(* All answers are there: their values, or nothing if one is an error.     *)
TakeAnswers(p) ==
  LET values == [k \in 1..Now(p).n |-> actor[p].answers[actor[p].asked - Now(p).n + k]]
  IN  /\ Doing(p, {"answers"})
      /\ Asked(p) \subseteq DOMAIN actor[p].answers
      /\ Becomes(Heard(p, IF \E k \in DOMAIN values : values[k] = Nothing THEN Nothing
                          ELSE [k \in DOMAIN values |-> values[k][1]]))
\* The timeout of the request passes first.
TimeOut(p) == /\ Doing(p, {"answers"}) /\ ~Now(p).patient
              /\ ~(Asked(p) \subseteq DOMAIN actor[p].answers)
              /\ Becomes(Heard(p, Nothing))
Receive(p) ==
  /\ Doing(p, {"listen"}) /\ actor[p].box # <<>>
  /\ Becomes([Done(p) EXCEPT ![p].got = Append(@, Head(actor[p].box).arg), ![p].box = Tail(@)])
WaitFor(p) == /\ Doing(p, {"await"})
              /\ \A q \in Now(p).actors : actor[q].life = "down"
              /\ Becomes(Done(p))

\* A mailbox that has messages before its actor starts keeps them.
StartActor(p) ==
  /\ Doing(p, {"start"})
  /\ Becomes([Done(p) EXCEPT ![Now(p).actor].life = "up", ![Now(p).actor].st = Now(p).st,
                             ![Now(p).actor].todo = Now(p).todo])
StartLinked(p) ==
  /\ Doing(p, {"link"})
  /\ Becomes([Done(p) EXCEPT ![Now(p).actor].life = "up", ![Now(p).actor].st = Now(p).st,
                             ![Now(p).actor].todo = Now(p).todo,
                             ![Now(p).actor].watchers = {p}])
Monitor(p) ==
  LET q == Now(p).actor
  IN  /\ Doing(p, {"watch"})
      /\ Becomes(IF actor[q].life = "down" THEN Sent(Done(p), p, Down(q, "gone"))
                 ELSE [Done(p) EXCEPT ![q].watchers = @ \cup {p}])
SendExit(p) == /\ Doing(p, {"kill"})
               /\ Becomes([Done(p) EXCEPT ![Now(p).actor].killed = TRUE])
CloseMailbox(p) == /\ Doing(p, {"hangup"})
                   /\ Becomes([Done(p) EXCEPT ![Now(p).actor].closed = TRUE])
Leave(p) == /\ Doing(p, {"quit"})
            /\ Becomes(Ended(actor, p, Now(p).why))

-----------------------------------------------------------------------------
(* Between two messages.                                                   *)

Idle(p) == actor[p].life = "up" /\ actor[p].todo = <<>>
Run(p, result, box) == Becomes([actor EXCEPT ![p].st = result.st, ![p].todo = result.todo,
                                             ![p].box = box])
TakeMessage(p) == /\ Idle(p) /\ actor[p].box # <<>>
                  /\ Run(p, Handle(p, Head(actor[p].box)), Tail(actor[p].box))
\* The mailbox is closed and empty: receiving from it fails.
FindClosed(p) == /\ Idle(p) /\ actor[p].box = <<>> /\ actor[p].closed
                 /\ Run(p, Handle(p, Message("closed", Nothing, p, 0)), <<>>)
\* An exit message may overtake others.
Exit(p) == /\ Idle(p) /\ actor[p].killed
           /\ Becomes(Ended(actor, p, "killed"))
TimerFires(p, m) == /\ actor[p].life = "up" /\ m \in actor[p].timers
                    /\ Becomes([Sent(actor, p, m) EXCEPT ![p].timers = @ \ {m}])

Proceed(p) == \/ Send(p) \/ SendToAll(p) \/ SendRequest(p) \/ WriteSocket(p) \/ Delegate(p) \/ Respond(p)
              \/ SetTimer(p) \/ TakeAnswers(p) \/ TimeOut(p) \/ Receive(p) \/ WaitFor(p)
              \/ StartActor(p) \/ StartLinked(p) \/ Monitor(p) \/ SendExit(p) \/ CloseMailbox(p) \/ Leave(p)
              \/ TakeMessage(p) \/ FindClosed(p) \/ Exit(p)
Step(p) == Proceed(p) \/ \E m \in actor[p].timers : TimerFires(p, m)

Next == \E p \in Actor : Step(p)

\* While some actor or timer can go on, one of them does: nobody runs for ever.
Spec == Init /\ [][Next]_vars /\ WF_vars(Next)

-----------------------------------------------------------------------------
(* What each request of a script must be answered with, or each message it *)
(* listens to must say: the values the demos print.                        *)
Expected(p) ==
  CASE name = "hello" -> <<{<<<<"hello", "CAF">>>>}>>
    [] name = "calculator" -> <<{<<42>>}, {<<42>>}, {<<42>>}>>
    [] name = "counter" -> <<{<<2>>}>>
    [] name = "request" -> <<{<<49>>}>>
    [] name = "door" -> <<{<<"is closed">>}, {<<"opens">>, Nothing}, {<<"is open">>},
                          {<<"closes">>}, {<<"is closed">>}>>
    [] name = "rocket" -> <<{<<"launched">>}>>
    [] name = "divider" -> <<{<<42>>}, {}>>
    [] name = "monitor" -> <<{"normal", "gone"}, {"killed", "gone"}>>
    [] name = "shop" -> <<{<<<<1024, 1797>>>>}>>
    [] name = "fan out" -> <<{<<3, 7, 11>>}>>
    [] name = "delegation" -> <<{<<<<"value of", "config">>>>}>>
    [] name = "distribution" -> <<{<<42>>}, {<<<<7, 2560>>>>}>>
    [] name = "genserver" ->
         IF p = "main" THEN <<{<<2 * Casts>>}>>
         ELSE <<{<<v>> : v \in (Casts \div 2)..(Casts + Casts \div 2)}>>
    [] name = "chat" ->
         LET sessions == {1, 2}
             said == {<<"says", IF p = "alice" THEN "hi alice" ELSE "hi bob">>}
         IN  <<{"welcome"} \X sessions, ({"joined"} \X sessions) \cup said,
               ({"left"} \X sessions) \cup said>>
    [] OTHER -> <<>>
AnswersRight ==
  \A p \in Actor : \A k \in DOMAIN actor[p].got :
    \/ actor[p].got[k] \in Expected(p)[k]
    \/ name \notin {"monitor", "chat", "genserver"} /\ actor[p].got[k] = Nothing

Follows(log, x, y) == \E i, j \in DOMAIN log : i < j /\ log[i] = x /\ log[j] = y
(* All players see what is said in the room in one order, the room's.      *)
SameOrder ==
  name = "game room" => \A p, q \in Players : \A i, j \in DOMAIN actor[p].st :
    i < j => ~Follows(actor[q].st, actor[p].st[j], actor[p].st[i])

(* Who has joined and not left: a session leaves when it is about to end.  *)
Joined(a) == /\ actor[a].life = "up"
             /\ actor[a].todo = <<>> \/ (Doing(a, {"tell"}) /\ Now(a).tag # "join")
HasHandledAll(p) == Idle(p) /\ actor[p].box = <<>>
(* A game room that has handled all its messages has as members the        *)
(* players that have joined and are alive.                                 *)
MembersAlive ==
  name = "game room" /\ HasHandledAll("room") =>
    {p \in Players : Joined(p)} = actor["room"].st.members
(* So has a chat room: the clients whose session has joined and not left.  *)
SessionsInRoom ==
  name = "chat" /\ HasHandledAll("room") =>
    {c \in ChatClients : Joined(Reader(c))} = DOMAIN actor["room"].st.members

(* Every program ends, and with it every actor.                            *)
EverybodyEnds == <>(\A p \in Actor : actor[p].life = "down")
=============================================================================
