--------------------------- MODULE ThreadPrograms ---------------------------
(***************************************************************************)
(* The programs whose threads or coroutines share variables, locks and     *)
(* stop sources: the jthread module of cpp-20-exmaple, folly_task_example, *)
(* strand, timer and coroutine of boost-asio-example, the flow graph of    *)
(* onetbb_demo, the bridge of asio-call-tokio, and of cobalt-example the   *)
(* echo server and the handles of spawned coroutines.                      *)
(***************************************************************************)
EXTENDS ChannelKit

CONSTANT Workers   \* threads or coroutines of one kind

Worker == 1..Workers
\* Processes of one kind are named by a pair.
Each(kind, code) == [w \in {<<kind, k>> : k \in Worker} |-> code]
All(kind) == {<<kind, k>> : k \in Worker}
Main(code) == <<"main", 0>> :> code
NoChannels == [c \in {} |-> 0]

-----------------------------------------------------------------------------
(* jthread: how often a thread polls before it sees the request is open.   *)

\* ~jthread(): request_stop(), then join().
Destroy(stop, ts) == <<RequestStop(stop), Join(ts)>>
CooperativeStop == [cap |-> NoChannels,
  code |-> <<"worker", 1>> :> <<AwaitStop("stop")>>
           @@ Main(<<RequestStop("stop")>> \o Destroy("stop", {<<"worker", 1>>}))]
(* A callback runs in request_stop(), or where it is registered if that    *)
(* came first.                                                             *)
StopCallback == [cap |-> NoChannels,
  code |-> <<"worker", 1>> :> <<Atomic("source", "open" :> "registered" @@ "stopped" :> "called"),
                                Atomic("source", "called" :> "called")>>
           @@ Main(<<Atomic("source", "open" :> "stopped" @@ "registered" :> "called"),
                     Join({<<"worker", 1>>})>>)]
AutoJoin == [cap |-> NoChannels,
  code |-> <<"worker", 1>> :> <<AwaitStop("stop"), Add("finished", 1)>>
           @@ Main(Destroy("stop", {<<"worker", 1>>}))]
\* The wait gives the lock away, and a stop request ends it.
InterruptibleWait == [cap |-> NoChannels,
  code |-> <<"waiter", 1>> :> <<Lock("mutex"), Unlock("mutex"), AwaitStop("stop"), Lock("mutex"),
                                Unlock("mutex")>>
           @@ Main(<<RequestStop("stop")>> \o Destroy("stop", {<<"waiter", 1>>}))]
(* One stop source for all of them.  A worker looks at it before each of   *)
(* its ticks, so that it may tick no time or many; their sum, which is     *)
(* printed, can be anything and is left out.                               *)
Poll(stop) == Until(Ticks(Forever), {stop})
CoordinatedShutdown == [cap |-> NoChannels,
  code |-> Each("worker", <<Poll("stop")>>)
           @@ Main(<<RequestStop("stop"), Join(All("worker"))>>)]
\* The stop source in somebody else's hand.
ExternalStop == [cap |-> NoChannels,
  code |-> <<"worker", 1>> :> <<AwaitStop("stop")>>
           @@ <<"other", 1>> :> <<RequestStop("stop")>>
           @@ Main(<<Join({<<"worker", 1>>})>> \o Destroy("stop", {<<"worker", 1>>}))]

-----------------------------------------------------------------------------
(* strand: handlers in a thread pool, one after the other or not.          *)

\* Mutant: posted to the pool itself.
Serialized_NoStrand(handler) == handler
Serialized(handler) == <<Lock("strand")>> \o handler \o <<Unlock("strand")>>
Strand == [cap |-> NoChannels,
  code |-> Each("serial", Serialized(PlainIncrement("counter")))
           @@ Each("plain", <<Add("atomic_counter", 1)>>)
           @@ Main(<<Join(All("serial") \cup All("plain"))>>)]

(* folly_task_example: four tasks one after the other, twice, then on the  *)
(* threads of the global executor with nothing to protect the counter.     *)
FollyTasks == [cap |-> NoChannels,
  code |-> [t \in {<<t, 1>> : t \in {"a", "b", "c", "d"}} |->
              <<AwaitStop("go")>> \o PlainIncrement("global")]
           @@ Main(Times(8, PlainIncrement("global"))
                   \o <<RequestStop("go"), Join({<<t, 1>> : t \in {"a", "b", "c", "d"}})>>)]
(* getB_unlock() awaits getA(); getB() awaits it with the lock in its hand *)
(* that getA() takes.                                                      *)
GetA(go) == <<AwaitStop(go), Lock("coro_lock"), Unlock("coro_lock")>>
AwaitGetA(go, a) == <<RequestStop(go), Join({<<a, 1>>})>>
FollyLocks == [cap |-> NoChannels,
  code |-> <<"first", 1>> :> GetA("go1") @@ <<"second", 1>> :> GetA("go2")
           @@ Main(AwaitGetA("go1", "first")
                   \o <<Lock("coro_lock")>> \o AwaitGetA("go2", "second")
                   \o <<Unlock("coro_lock")>>)]

(* run_flow_pipeline(): the limiter lets a message pass when fewer than    *)
(* its threshold are under way.                                            *)
FlowCapacity == 2
Limited == Atomic("flight", [n \in 0..(FlowCapacity - 1) |-> n + 1])
FlowPipeline(items) == [cap |-> [edge |-> items],
  code |-> Main(Times(items, <<Limited, SendAll("edge", 1)>>))
           @@ <<"consumer", 1>> :> Times(items, <<Take("edge", 1), Sub("flight", 1)>>)]

-----------------------------------------------------------------------------
(* asio-call-tokio: a parked operation holds run() up, and a thread of the *)
(* Rust runtime posts its result.                                          *)

Park(go) == <<Add("work", 1), RequestStop(go)>>
RustTask(go, c) == <<AwaitStop(go), SendAll(c, 1)>>
Resumed(c) == <<Take(c, 1), Sub("work", 1)>>
AwaitRust(go, c) == Park(go) \o Resumed(c)
AwaitBoth(go1, c1, go2, c2) == Park(go1) \o Park(go2) \o Resumed(c1) \o Resumed(c2)
TokioBridge == [cap |-> [sum |-> 1, next_sum |-> 1, greeting |-> 1],
  code |-> Main(<<Atomic("work", 0 :> 0)>>)
           @@ <<"demo", 1>> :> AwaitRust("go1", "sum") \o AwaitBoth("go2", "next_sum", "go3", "greeting")
                                \o <<Sub("work", 1)>>
           @@ <<"add", 1>> :> RustTask("go1", "sum") @@ <<"add", 2>> :> RustTask("go2", "next_sum")
           @@ <<"greet", 1>> :> RustTask("go3", "greeting")]

-----------------------------------------------------------------------------
(* timer and coroutine: an await that is over when its time has come, or   *)
(* when somebody cancels it.                                               *)

Timers == [cap |-> NoChannels,
  code |-> Main(<<Ticks(1), RequestStop("cancelled")>>
                \o <<Join({<<"async", 1>>, <<"periodic", 1>>, <<"never", 1>>})>>)
           @@ <<"async", 1>> :> <<Ticks(1)>> @@ <<"periodic", 1>> :> <<Ticks(3)>>
           @@ <<"never", 1>> :> <<AwaitStop("cancelled")>>]
DelayedMessage(c) == <<Ticks(1), SendAll(c, 1)>>
(* first then second; fast || slow, which cancels the other; left && right *)
Awaitables == [cap |-> [first |-> 1, second |-> 1, fast |-> 1, left |-> 1, right |-> 1],
  code |-> Main(<<Take("first", 1), RequestStop("one"), Take("second", 1), RequestStop("two"),
                  Take("fast", 1), RequestStop("cancel"), Join({<<"slow", 1>>}),
                  RequestStop("three"), Take("left", 1), Take("right", 1)>>)
           @@ <<"first", 1>> :> DelayedMessage("first")
           @@ <<"second", 1>> :> <<AwaitStop("one")>> \o DelayedMessage("second")
           @@ <<"fast", 1>> :> <<AwaitStop("two")>> \o DelayedMessage("fast")
           @@ <<"slow", 1>> :> <<AwaitStop("two"), Until(Ticks(1), {"cancel"})>>
           @@ <<"left", 1>> :> <<AwaitStop("three")>> \o DelayedMessage("left")
           @@ <<"right", 1>> :> <<AwaitStop("three")>> \o DelayedMessage("right")]

(* spawn_channel, examples 1 to 5: tasks that are spawned with a callback, *)
(* a future, a cancellation slot or nothing, and the handle of a promise.  *)
TickPromise(n, cancel) == <<Until(Ticks(n), {cancel})>>
ComputeSquare == <<Ticks(1), SendAll("future", 1)>>
SpawnFuture == [cap |-> [future |-> 1],
  code |-> <<"square", 1>> :> ComputeSquare @@ Main(<<Join({<<"square", 1>>}), Take("future", 1)>>)]
SpawnCancellable == [cap |-> NoChannels,
  code |-> <<"cancellable", 1>> :> TickPromise(Forever, "cancel")
           @@ <<"stop", 1>> :> <<Ticks(1), RequestStop("cancel")>>
           @@ Main(<<Join({<<"cancellable", 1>>, <<"stop", 1>>})>>)]
SpawnDetached == [cap |-> NoChannels,
  code |-> Each("task", TickPromise(3, "never")) @@ Main(<<Join(All("task"))>>)]
PromiseHandle == [cap |-> NoChannels,
  code |-> <<"eager", 1>> :> TickPromise(3, "never")
           @@ <<"victim", 1>> :> <<AwaitStop("begin")>> \o TickPromise(Forever, "cancel")
           @@ Main(<<Ticks(1), Join({<<"eager", 1>>}), RequestStop("begin"), Ticks(1),
                     RequestStop("cancel"), Join({<<"victim", 1>>})>>)]

(* The echo server of cobalt-example.  Its accept loop ends by the signal, *)
(* by another error of accept(), or by an exception of remote_endpoint(),  *)
(* all at any time; the wait group then cancels the sessions, whose        *)
(* clients may stay for ever.  (A connection whose remote_endpoint() threw *)
(* is dropped as that of a session which is cancelled at once.)  A session *)
(* also ends when its client hangs up, be it at the end of file, with an   *)
(* error of the read, or with a write that fails.                          *)
CancelAll == <<"cancel all", 0>>
Down(k) == <<"down", k>>
Session(k) == <<Spawned(<<"listen", 0>>, k),
                Until(Relay(<<"lines", k>>, <<"replies", k>>, Forever), {CancelAll, Down(k)})>>
TelnetClient(k) == <<SendAll(<<"connect", 0>>, 1),
                     Until(Ask(<<"lines", k>>, <<"replies", k>>, 2), {CancelAll, Down(k)})>>
HangUp(k) == <<RequestStop(Down(k))>>
AcceptEnds == <<"accept ends", 0>>
Listen == <<Until(Drain(<<"connect", 0>>), {AcceptEnds}), RequestStop(CancelAll), Join(All("session"))>>
EchoServer == [cap |-> [c \in {<<"connect", 0>>} \cup ({"lines", "replies"} \X Worker) |-> Workers],
  code |-> <<"listen", 0>> :> Listen @@ <<"signal", 0>> :> <<RequestStop(AcceptEnds)>>
           @@ [p \in {"session", "client", "user"} \X Worker |->
                 IF p[1] = "session" THEN Session(p[2])
                 ELSE IF p[1] = "client" THEN TelnetClient(p[2]) ELSE HangUp(p[2])]]

-----------------------------------------------------------------------------
ThreadNames == {"cooperative stop", "stop callback", "auto join", "interruptible wait",
                "coordinated shutdown", "external stop", "strand", "folly tasks", "folly locks", "flow", "bridge",
                "timers", "awaitables", "future", "cancellable", "detached", "promise handle",
                "echo server"}
Zeros(vs) == [v \in vs |-> 0]
ThreadProgram(name) ==
  CASE name = "cooperative stop" -> WithShared(Zeros({"stop"}), <<>>, CooperativeStop)
    [] name = "stop callback" -> WithShared([source |-> "open"], [source |-> {"called"}], StopCallback)
    [] name = "auto join" -> WithShared(Zeros({"stop", "finished"}), [finished |-> {1}], AutoJoin)
    [] name = "interruptible wait" -> WithShared(Zeros({"stop", "mutex"}), [mutex |-> {0}], InterruptibleWait)
    [] name = "coordinated shutdown" ->
         WithShared(Zeros({"stop"}), <<>>, CoordinatedShutdown)
    [] name = "external stop" -> WithShared(Zeros({"stop"}), <<>>, ExternalStop)
    [] name = "strand" -> WithShared(Zeros({"strand", "counter", "atomic_counter"}),
                            [counter |-> {Workers}, atomic_counter |-> {Workers}], Strand)
    [] name = "folly tasks" -> WithShared(Zeros({"global", "go"}), [global |-> 9..12], FollyTasks)
    [] name = "folly locks" -> WithShared(Zeros({"coro_lock", "go1", "go2"}), <<>>, FollyLocks)
    [] name = "flow" -> WithShared(Zeros({"flight"}), [flight |-> {0}], FlowPipeline(Workers + 1))
    [] name = "bridge" -> WithShared([work |-> 1, go1 |-> 0, go2 |-> 0, go3 |-> 0],
                                     [work |-> {0}], TokioBridge)
    [] name = "timers" -> WithShared(Zeros({"cancelled"}), <<>>, Timers)
    [] name = "awaitables" -> WithShared(Zeros({"one", "two", "three", "cancel"}), <<>>, Awaitables)
    [] name = "future" -> WithShared(Zeros({}), <<>>, SpawnFuture)
    [] name = "cancellable" -> WithShared(Zeros({"cancel"}), <<>>, SpawnCancellable)
    [] name = "detached" -> WithShared(Zeros({"never"}), <<>>, SpawnDetached)
    [] name = "promise handle" ->
         WithShared(Zeros({"never", "begin", "cancel"}), <<>>, PromiseHandle)
    [] name = "echo server" -> WithShared(Zeros({AcceptEnds, CancelAll} \cup {Down(k) : k \in Worker}), <<>>, EchoServer)
=============================================================================
