------------------------------ MODULE Channels ------------------------------
(***************************************************************************)
(* The programs of ChannelPrograms and ThreadPrograms at work: coroutines  *)
(* and threads that talk through channels, share variables, cancel, start  *)
(* and join each other, in every interleaving of their steps.  Channels,   *)
(* locks and stop sources are the libraries', external to the source.      *)
(***************************************************************************)
EXTENDS ChannelPrograms, ThreadPrograms

SE == INSTANCE SequencesExt

CONSTANT Programs  \* the programs to look at

ASSUME ChannelConstants == /\ Items \in Nat \ {0, 1} /\ Workers \in Nat \ {0}
                           /\ Programs \subseteq ChannelNames \cup ThreadNames

-----------------------------------------------------------------------------
VARIABLES program,  \* the one that runs: name, cap, code, shared and result
          chan,     \* channel -> [buf, senders, receivers, closed]
          proc,     \* coroutine or thread -> where it is, and what it received
          shared    \* variable -> value

vars == <<program, chan, proc, shared>>

Program(n) ==
  LET pr == IF n \in ThreadNames THEN ThreadProgram(n)
            ELSE WithShared(<<>>, <<>>, ChannelProgram(n))
  IN  [name |-> n, cap |-> pr.cap, code |-> pr.code,
       shared |-> pr.shared, result |-> pr.result]

Proc == DOMAIN proc
Chan == DOMAIN chan
Cap(c) == program.cap[c]
Code(p) == program.code[p]
Returned(p) == proc[p].at > Len(Code(p))
Phase(p) == Code(p)[proc[p].at]
\* What its loop reads from; the sieve reads from the end of its chain.
Inputs(p) == LET ph == Phase(p)
             IN  IF ph.chain = <<>> THEN ph.in
                 ELSE {ph.chain[k] : k \in DOMAIN ph.chain \cap {Len(proc[p].got) + 1}}

(* at: the phase; k: how many sends and receives of it are over; status:   *)
(* does it run, is it suspended in a channel, or has it won a select; hand:*)
(* the item it received last; sent: how many it made; got: those received; *)
(* arrived: those of a select in progress; lost: those a select dropped;   *)
(* reg: the value it loaded last.                                          *)
Init == \E n \in Programs :
  /\ program = Program(n)
  /\ chan = [c \in DOMAIN program.cap |->
               [buf |-> <<>>, senders |-> <<>>, receivers |-> <<>>, closed |-> FALSE]]
  /\ proc = [p \in DOMAIN program.code |->
               [at |-> 1, k |-> 0, status |-> "run", hand |-> <<>>, sent |-> 0,
                got |-> <<>>, arrived |-> {}, lost |-> {}, reg |-> 0]]
  /\ shared = program.shared

At(p, op) == ~Returned(p) /\ proc[p].status = "run" /\ Phase(p).op = op
AtOp(p, op) == /\ At(p, "loop")
               /\ Phase(p).pattern[(proc[p].k % Len(Phase(p).pattern)) + 1] = op

Left(x) == [x EXCEPT !.at = @ + 1, !.k = 0, !.status = "run"]
\* One more send or receive of the loop is over.
Stepped(p, x) ==
  IF Phase(p).n # Forever /\ x.k + 1 = Phase(p).n * Len(Phase(p).pattern)
  THEN Left(x)
  ELSE [x EXCEPT !.k = IF Phase(p).n = Forever THEN (@ + 1) % Len(Phase(p).pattern) ELSE @ + 1,
                 !.status = "run"]

(* An item: who made it, its number, and who sent it last.  Number 0 is    *)
(* the stop message.                                                       *)
Outgoing(p) == IF Phase(p).relay
               THEN [proc[p].hand EXCEPT !.by = p]
               ELSE [from |-> p, seq |-> proc[p].sent + 1, by |-> p]
HasSent(p) == LET x == Stepped(p, proc[p])
              IN  IF Phase(p).relay THEN x ELSE [x EXCEPT !.sent = @ + 1]
(* A filter drops the multiples of its prime instead of sending them on.   *)
Prime(k) == proc[<<"sieve", 0>>].got[k].seq + 1
Filtered(p, i) == Phase(p).prime > 0 /\ (i.seq + 1) % Prime(Phase(p).prime) = 0
Keeps(p, i) == IF i.seq = 0 THEN Left(proc[p])
               ELSE LET x == [Stepped(p, proc[p]) EXCEPT !.hand = i, !.got = Append(@, i)]
                    IN  IF Filtered(p, i) THEN Stepped(p, x) ELSE x
\* A select has won, the others take the item at once.
Given(p, items) ==
  IF Phase(p).lossy
  THEN [proc[p] EXCEPT !.status = "won", !.arrived = @ \cup items]
  ELSE Keeps(p, CHOOSE i \in items : TRUE)

\* A coroutine waits at most once in a channel.
Removed(p, queue) ==
  IF \E k \in DOMAIN queue : queue[k] = p
  THEN SE!RemoveAt(queue, CHOOSE k \in DOMAIN queue : queue[k] = p) ELSE queue
Without(p, ch) == [ch EXCEPT !.receivers = Removed(p, @)]
\* The receive p has in c is over; those it has elsewhere go, but for a select.
Unregistered(p, c) == [d \in Chan |-> IF d = c \/ ~Phase(p).lossy
                                      THEN Without(p, chan[d]) ELSE chan[d]]

-----------------------------------------------------------------------------
(* Sending.                                                                *)

\* Mutant: one slot too many.
Room_OneMore(c) == Len(chan[c].buf) <= Cap(c)
Room(c) == Len(chan[c].buf) < Cap(c)

\* Give item i to the receiver that waits longest.
HandOver(c, i, after) ==
  LET r == Head(chan[c].receivers)
  IN  /\ chan[c].receivers # <<>>
      /\ chan' = Unregistered(r, c)
      /\ proc' = [after EXCEPT ![r] = Given(r, {i})]
Store(c, i, after) ==
  /\ chan[c].receivers = <<>> /\ Room(c)
  /\ chan' = [chan EXCEPT ![c].buf = Append(@, i)]
  /\ proc' = after

Send(p) == LET c == Phase(p).out
               after == [proc EXCEPT ![p] = HasSent(p)]
           IN  /\ AtOp(p, "s") /\ ~chan[c].closed
               /\ HandOver(c, Outgoing(p), after) \/ Store(c, Outgoing(p), after)
               /\ UNCHANGED <<program, shared>>
WaitToSend(p) == LET c == Phase(p).out
                 IN  /\ AtOp(p, "s") /\ ~chan[c].closed
                     /\ chan[c].receivers = <<>> /\ ~Room(c)
                     /\ chan' = [chan EXCEPT ![c].senders = Append(@, p)]
                     /\ proc' = [proc EXCEPT ![p].status = "send"]
                     /\ UNCHANGED <<program, shared>>

-----------------------------------------------------------------------------
(* Receiving.                                                              *)

Ripe(c) == chan[c].buf # <<>> \/ chan[c].senders # <<>>
\* The items in c, those of the suspended senders last.
Queue(c) == chan[c].buf \o [k \in DOMAIN chan[c].senders |-> Outgoing(chan[c].senders[k])]
Freed(c) == IF chan[c].senders = <<>> THEN {} ELSE {Head(chan[c].senders)}
\* The head is taken, the first suspended sender gets its place.
Popped(c) == [chan[c] EXCEPT
               !.buf = SubSeq(Queue(c), 2, Len(@) + Cardinality(Freed(c))),
               !.senders = IF @ = <<>> THEN @ ELSE Tail(@)]

\* The channels a receive takes from: one of the ripe ones, a select all.
Taken(p) == LET ripe == {c \in Inputs(p) : Ripe(c)}
            IN  IF Phase(p).lossy THEN {ripe} \ {{}} ELSE {{c} : c \in ripe}
Receive(p) ==
  /\ AtOp(p, "r")
  /\ \E cs \in Taken(p) :
       /\ chan' = [c \in Chan |->
                     IF c \in cs THEN Popped(c)
                     ELSE IF Phase(p).lossy /\ c \in Inputs(p)
                          THEN [chan[c] EXCEPT !.receivers = Append(@, p)]
                     ELSE chan[c]]
       /\ proc' = [q \in Proc |->
                     IF q = p THEN Given(p, {Head(Queue(c)) : c \in cs})
                     ELSE IF q \in UNION {Freed(c) : c \in cs} THEN HasSent(q)
                     ELSE proc[q]]
  /\ UNCHANGED <<program, shared>>
WaitToReceive(p) ==
  /\ AtOp(p, "r")
  /\ \A c \in Inputs(p) : ~Ripe(c) /\ ~chan[c].closed
  /\ chan' = [c \in Chan |-> IF c \in Inputs(p)
                             THEN [chan[c] EXCEPT !.receivers = Append(@, p)] ELSE chan[c]]
  /\ proc' = [proc EXCEPT ![p].status = "receive"]
  /\ UNCHANGED <<program, shared>>
\* The channel is closed and empty: the loop ends.
Leave(p) == /\ AtOp(p, "r") /\ Phase(p).n = Forever
            /\ \A c \in Inputs(p) : ~Ripe(c) /\ chan[c].closed
            /\ proc' = [proc EXCEPT ![p] = Left(@)]
            /\ UNCHANGED <<program, chan, shared>>
\* A select goes on with one item and cancels the receives that still wait.
Choose(p) == /\ ~Returned(p) /\ proc[p].status = "won"
             /\ \E i \in proc[p].arrived :
                  proc' = [proc EXCEPT ![p] = [Keeps(p, i) EXCEPT
                            !.arrived = {}, !.lost = @ \cup (proc[p].arrived \ {i})]]
             /\ chan' = [c \in Chan |-> Without(p, chan[c])]
             /\ UNCHANGED <<program, shared>>

-----------------------------------------------------------------------------
(* Closing, stopping, joining.                                             *)

\* Those that wait to receive look again, and find the channel closed.
CloseChannel(p) ==
  LET c == Phase(p).chan
      woken == SE!ToSet(chan[c].receivers)
  IN  /\ At(p, "close")
      /\ chan' = [d \in Chan |-> IF d = c THEN [chan[c] EXCEPT !.closed = TRUE, !.receivers = <<>>]
                                ELSE chan[d]]
      /\ proc' = [q \in Proc |-> IF q = p THEN Left(proc[p])
                                ELSE IF q \in woken THEN [proc[q] EXCEPT !.status = "run"]
                                ELSE proc[q]]
      /\ UNCHANGED <<program, shared>>
SendStop(p) ==
  LET c == Phase(p).chan
      stop == [from |-> p, seq |-> 0, by |-> p]
      after == [proc EXCEPT ![p] = Left(@)]
  IN  /\ At(p, "stop")
      /\ HandOver(c, stop, after) \/ Store(c, stop, after)
      /\ UNCHANGED <<program, shared>>
JoinAll(p) == /\ At(p, "join")
              /\ \A q \in Phase(p).procs : Returned(q)
              /\ proc' = [proc EXCEPT ![p] = Left(@)]
              /\ UNCHANGED <<program, chan, shared>>

-----------------------------------------------------------------------------
(* Time, cancellation, and starting one another.                           *)

\* The clock may always go on.
Tick(p) == /\ AtOp(p, "t")
           /\ proc' = [proc EXCEPT ![p] = Stepped(p, @)]
           /\ UNCHANGED <<program, chan, shared>>
\* What a cancelled loop waits for is over; it leaves its channels.
Cancelled(p) ==
  /\ ~Returned(p) /\ Phase(p).op = "loop"
  /\ \E v \in Phase(p).until : shared[v] = 1
  /\ proc' = [proc EXCEPT ![p] = Left(@)]
  /\ chan' = [c \in Chan |-> [Without(p, chan[c]) EXCEPT
                               !.senders = Removed(p, @)]]
  /\ UNCHANGED <<program, shared>>
Began(p) == Len(proc[Phase(p).by].got) >= Phase(p).k
StartSpawned(p) == /\ At(p, "spawned") /\ Began(p)
                   /\ proc' = [proc EXCEPT ![p] = Left(@)]
                   /\ UNCHANGED <<program, chan, shared>>
NeverSpawned(p) == /\ At(p, "spawned") /\ ~Began(p) /\ proc[Phase(p).by].at > 1
                   /\ proc' = [proc EXCEPT ![p].at = Len(Code(p)) + 1]
                   /\ UNCHANGED <<program, chan, shared>>

-----------------------------------------------------------------------------
(* Shared variables.                                                       *)

AtomicStep(p) == /\ At(p, "atomic") /\ shared[Phase(p).var] \in DOMAIN Phase(p).to
                 /\ shared' = [shared EXCEPT ![Phase(p).var] = Phase(p).to[@]]
                 /\ proc' = [proc EXCEPT ![p] = Left(@)]
                 /\ UNCHANGED <<program, chan>>
LoadPlain(p) == /\ At(p, "load")
                /\ proc' = [proc EXCEPT ![p] = [Left(@) EXCEPT !.reg = shared[Phase(p).var]]]
                /\ UNCHANGED <<program, chan, shared>>
StorePlain(p) == /\ At(p, "store")
                 /\ shared' = [shared EXCEPT ![Phase(p).var] = proc[p].reg + 1]
                 /\ proc' = [proc EXCEPT ![p] = Left(@)]
                 /\ UNCHANGED <<program, chan>>

Step(p) == \/ Send(p) \/ WaitToSend(p)
           \/ Receive(p) \/ WaitToReceive(p) \/ Leave(p) \/ Choose(p)
           \/ CloseChannel(p) \/ SendStop(p) \/ JoinAll(p)
           \/ Tick(p) \/ Cancelled(p) \/ StartSpawned(p) \/ NeverSpawned(p)
           \/ AtomicStep(p) \/ LoadPlain(p) \/ StorePlain(p)

\* run() or main() returns, the program is over.
AllReturned == \A p \in Proc : Returned(p)

Next == \E p \in Proc : Step(p)

\* While anybody can go on, the event loop or the system lets somebody.
Spec == Init /\ [][Next]_vars /\ WF_vars(Next)

-----------------------------------------------------------------------------
(* Type invariant, with what a channel keeps to: values wait only if no    *)
(* receiver does, and senders only at a full buffer.                       *)
TypeOK ==
  /\ program.name \in Programs
  /\ \A c \in Chan :
       /\ Len(chan[c].buf) <= Cap(c)
       /\ chan[c].receivers # <<>> => chan[c].buf = <<>> /\ chan[c].senders = <<>>
       /\ chan[c].senders # <<>> => Len(chan[c].buf) = Cap(c)
       /\ chan[c].closed \in BOOLEAN
  /\ \A p \in Proc : /\ proc[p].status \in {"run", "send", "receive", "won"}
                      /\ proc[p].at \in 1..(Len(Code(p)) + 1)
                      /\ proc[p].k \in Nat /\ proc[p].sent \in Nat

(* Nobody sends to a channel that is closed, is suspended in one when it   *)
(* is closed, or wants a value that will not come from it: each of these   *)
(* throws out of the coroutine.  The right one has to close, when all that *)
(* write have returned.                                                    *)
NobodyFails ==
  /\ \A c \in Chan : chan[c].closed => chan[c].senders = <<>>
  /\ \A p \in Proc :
       /\ AtOp(p, "s") => ~chan[Phase(p).out].closed
       /\ AtOp(p, "r") /\ Phase(p).n # Forever =>
            \A c \in Inputs(p) : Ripe(c) \/ ~chan[c].closed

(* What a coroutine receives from one that sends comes in the order in     *)
(* which it was sent and not twice, whoever else sends to the channel or   *)
(* receives from it (the FIFO check of mt_consumer, for every program).    *)
InOrder ==
  \A p \in Proc : \A j, k \in DOMAIN proc[p].got :
    LET a == proc[p].got[j]
        b == proc[p].got[k]
    IN  j < k /\ a.from = b.from /\ a.by = b.by => a.seq < b.seq

(* When the program is over each item has reached somebody, and none is    *)
(* left behind in a channel, whichever way the workers shared them, but    *)
(* for what a sender that may be cancelled has sent.                       *)
MayBeCut(p) == \E k \in DOMAIN Code(p) : Code(p)[k].op = "loop" /\ Code(p)[k].until # {}
AllDelivered ==
  AllReturned =>
    /\ \A c \in Chan : \A k \in DOMAIN chan[c].buf : MayBeCut(chan[c].buf[k].from)
    /\ \A p \in Proc : ~MayBeCut(p) => \A s \in 1..proc[p].sent :
         Cardinality({q \in Proc : \E k \in DOMAIN proc[q].got :
                        proc[q].got[k] = [from |-> p, seq |-> s, by |-> p]}) = 1

(* When the program is over its variables have the values it prints: no    *)
(* increment of a counter is lost, but for the ones of folly_task_example  *)
(* that nothing protects; every stop callback ran once; no operation is    *)
(* under way; and the sieve has received the primes.                       *)
IsPrime(n) == n > 1 /\ \A d \in 2..(n - 1) : n % d # 0
ResultsExact ==
  AllReturned =>
    /\ \A v \in DOMAIN program.result : shared[v] \in program.result[v]
    /\ program.name = "sieve" => {Prime(k) : k \in DOMAIN proc[<<"sieve", 0>>].got} =
                           {n \in 1..SieveLimit : IsPrime(n)}

(* No value that left its sender is dropped: the receive a select cancels  *)
(* never has one.                                                          *)
NothingLost == \A p \in Proc : proc[p].lost = {}

(* Every coroutine and thread returns: no program ends with all of them    *)
(* waiting for each other.  The one exception is getB() of                 *)
(* folly_task_example, which awaits getA() with the lock that getA() takes.*)
SelfLocking == {"folly locks"}
EverybodyReturns == program.name \notin SelfLocking => <>AllReturned
=============================================================================
