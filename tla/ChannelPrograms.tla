-------------------------- MODULE ChannelPrograms ---------------------------
(***************************************************************************)
(* The programs of boost-asio-example (csp_* and actor_* modules, the echo *)
(* servers) and of cobalt-example (spawn_channel.cpp) in which coroutines  *)
(* talk through channels or sockets.  A program is [cap |-> channel ->     *)
(* capacity, code |-> coroutine -> its phases].                            *)
(***************************************************************************)
EXTENDS ChannelKit

CONSTANT Items  \* how many items a producer sends, for TLC (3 to 250 in the code)


\* csp_channel: rendezvous_demo; csp_duo: handoff_demo.
Rendezvous == [cap |-> [c |-> 0],
               code |-> [sender |-> <<SendAll("c", 1)>>, receiver |-> <<Take("c", 1)>>]]
\* csp_channel: buffered_demo.
Buffered == [cap |-> [c |-> Items - 1],
             code |-> [producer |-> <<SendAll("c", Items)>>,
                       consumer |-> <<Take("c", Items)>>]]
\* csp_channel: range_demo.
CloseAndRange(cap) == [cap |-> [c |-> cap],
               code |-> [producer |-> <<SendAll("c", Items), Close("c")>>,
                         consumer |-> <<Drain("c")>>]]
\* spawn_channel: spsc_demo, backpressure_demo, channel_sum.
Spsc == CloseAndRange(Items - 1)
Backpressure == CloseAndRange(1)
ChannelSum == [CloseAndRange(Items - 1) EXCEPT !.code.consumer = Append(@, Join({"producer"}))]
\* csp_duo: alternate_demo.
Alternate == [cap |-> [even |-> 0, odd |-> 0],
              code |-> [odd |-> <<Ask("even", "odd", Forever)>>,
                        even |-> <<Relay("even", "odd", Items - 1),
                                   Take("even", 1), Close("odd")>>]]
\* csp_duo: duplex_demo.
Duplex == [cap |-> [requests |-> 0, responses |-> 0],
           code |-> [calculator |-> <<Relay("requests", "responses", Forever)>>,
                     user |-> <<Ask("requests", "responses", Items), Close("requests")>>]]
\* csp_duo: credit_demo, with batches of two.
Credit == [cap |-> [demand |-> 0, data |-> 0],
           code |-> [producer |-> <<Loop(<<"r", "s", "s">>, {"demand"}, "data", Forever)>>,
                     consumer |-> <<Loop(<<"s", "r", "r">>, {"data"}, "demand", Items),
                                    Close("demand")>>]]
\* spawn_channel: pingpong_demo.
PingPong == [cap |-> [there |-> 0, back |-> 0],
             code |-> [ping |-> <<Ask("there", "back", Items), Close("there")>>,
                       pong |-> <<Relay("there", "back", Forever), Close("back")>>]]
\* actor_pingpong: a stop message instead of a close.
PingPongActors == [cap |-> [pong |-> 8, ping |-> 8],
                   code |-> [ping |-> <<Ask("pong", "ping", Items), Stop("pong")>>,
                             pong |-> <<Relay("pong", "ping", Forever)>>]]

\* Mutant: each worker closes the channel it shares with the other.
FanInWorker_Closes == <<Relay("jobs", "merged", Forever), Close("merged")>>
FanInWorker == <<Relay("jobs", "merged", Forever)>>
\* csp_fanin.
FanIn == [cap |-> [jobs |-> 0, merged |-> 0],
          code |-> [dispatcher |-> <<SendAll("jobs", Items), Close("jobs")>>,
                    w1 |-> FanInWorker, w2 |-> FanInWorker,
                    closer |-> <<Join({"w1", "w2"}), Close("merged")>>,
                    consumer |-> <<Drain("merged")>>]]

\* Mutant: the collector stops one result early.
Collector_OffByOne == <<Take("results", Items - 1)>>
Collector == <<Take("results", Items)>>
\* actor_pool.
Pool == [cap |-> [jobs |-> 4, results |-> Items],
         code |-> [dispatcher |-> <<SendAll("jobs", Items), Close("jobs")>>,
                   w1 |-> <<Relay("jobs", "results", Forever)>>, w2 |-> <<Relay("jobs", "results", Forever)>>,
                   w3 |-> <<Relay("jobs", "results", Forever)>>,
                   collector |-> Collector]]

\* Mutant: results are handed over one by one.
ResultsCapacity_None == 0
ResultsCapacity == Items
\* spawn_channel: worker_pool_demo; main sends all jobs, more than
\* there are workers, before it reads a result.
MainPool == [cap |-> [jobs |-> 0, results |-> ResultsCapacity],
             code |-> [main |-> <<SendAll("jobs", Items), Close("jobs"),
                                  Take("results", Items), Join({"w1", "w2"}),
                                  Close("results")>>,
                       w1 |-> <<Relay("jobs", "results", Forever)>>,
                       w2 |-> <<Relay("jobs", "results", Forever)>>]]
\* actor_pipeline.
Pipeline == [cap |-> [stage1 |-> 2, stage2 |-> 2],
             code |-> [producer |-> <<SendAll("stage1", Items), Close("stage1")>>,
                       square |-> <<Relay("stage1", "stage2", Forever), Close("stage2")>>,
                       sink |-> <<Drain("stage2")>>]]
\* spawn_channel: pipeline_demo.
LongPipeline == [cap |-> [nums |-> 1, squares |-> 1, lines |-> 1],
                 code |-> [gen |-> <<SendAll("nums", Items), Close("nums")>>,
                           square |-> <<Relay("nums", "squares", Forever), Close("squares")>>,
                           format |-> <<Relay("squares", "lines", Forever), Close("lines")>>,
                           sink |-> <<Drain("lines")>>]]
\* csp_mpsc: single_thread_demo.
Mpsc == [cap |-> [c |-> 8],
         code |-> [p1 |-> <<SendAll("c", Items)>>, p2 |-> <<SendAll("c", Items)>>,
                   closer |-> <<Join({"p1", "p2"}), Close("c")>>,
                   consumer |-> <<Drain("c")>>]]
\* spawn_channel: mpsc_demo, with two producers of three.
GatheredMpsc == [Mpsc EXCEPT !.cap.c = 2,
                             !.code.closer = Append(@, Join({"consumer"}))]
\* csp_mpsc: multi_thread_demo, whose consumer counts.
CountingMpsc == [cap |-> [c |-> 2],
                 code |-> [p1 |-> <<SendAll("c", Items)>>, p2 |-> <<SendAll("c", Items)>>,
                           consumer |-> <<Take("c", 2 * Items)>>]]
\* csp_select: the done channel.
DoneChannel == [cap |-> [done |-> 0],
                code |-> [w1 |-> <<Drain("done")>>, w2 |-> <<Drain("done")>>,
                          closer |-> <<Close("done")>>]]
\* csp_select: timeout_demo; the deadline is a channel the clock writes to.
Timeout == [cap |-> [quiet |-> 0, deadline |-> 0],
            code |-> [clock |-> <<SendAll("deadline", 1)>>,
                      demo |-> <<Select({"quiet", "deadline"}, 1)>>]]
\* csp_select: select over two channels.
SelectTwo == [cap |-> [fast |-> 0, slow |-> 0],
              code |-> [tick |-> <<SendAll("fast", Items)>>,
                        tock |-> <<SendAll("slow", Items)>>,
                        loop |-> <<Select({"fast", "slow"}, 2 * Items)>>]]
\* spawn_channel: select_demo.
RaceTwo == [cap |-> [fast |-> 1, slow |-> 1],
            code |-> [f1 |-> <<SendAll("fast", Items)>>, f2 |-> <<SendAll("slow", Items)>>,
                      main |-> <<Race({"fast", "slow"}, 2 * Items), Join({"f1", "f2"}),
                                 Close("fast"), Close("slow")>>]]

-----------------------------------------------------------------------------
(* csp_sieve: a chain of filters that grows while it runs.  The value of   *)
(* the k-th item is k + 1.                                                 *)

SieveLimit == Items + 4   \* 30 in the code
\* At least the primes up to the limit: 2 and the odd numbers.
Filters == 1..((SieveLimit + 1) \div 2)
\* The k-th filter reads from the k-th link and writes to the next.
Link == [k \in 1..((SieveLimit + 1) \div 2 + 1) |-> <<"link", k>>]
\* Each prime the sieve reads becomes a filter, and the sieve reads from its exit.
Sieve == [Loop(<<"r">>, {}, "", Forever) EXCEPT !.chain = Link]
Filter(k) == <<Spawned(<<"sieve", 0>>, k),
               [Relay(Link[k], Link[k + 1], Forever) EXCEPT !.prime = k], Close(Link[k + 1])>>
PrimeSieve == [cap |-> [l \in {Link[k] : k \in DOMAIN Link} |-> 0],
               code |-> <<"sieve", 0>> :> <<Sieve>>
                        @@ <<"generate", 0>> :> <<SendAll(Link[1], SieveLimit - 1), Close(Link[1])>>
                        @@ [f \in {"filter"} \X Filters |-> Filter(f[2])]]

-----------------------------------------------------------------------------
(* echo_tcp and udp_echo: a socket is two channels, an item is what one    *)
(* read returns; the message has Items of these.                           *)

EchoSession == <<Relay("there", "back", Forever), Close("back")>>
EchoClient == <<SendAll("there", Items), Take("back", Items), Close("there")>>
\* Accept and connect are over when the system has shaken hands.
Connected == Join({"handshake"})
EchoTcp == [cap |-> [there |-> Items, back |-> Items],
            code |-> [handshake |-> <<Ticks(1)>>,
                      server |-> <<Connected>> \o EchoSession,
                      client |-> <<Connected>> \o EchoClient]]
\* One datagram in each direction, which the loopback does not lose.
EchoUdp == [cap |-> [there |-> 1, back |-> 1],
            code |-> [server |-> <<Relay("there", "back", 1)>>,
                      client |-> <<Ask("there", "back", 1)>>]]

-----------------------------------------------------------------------------
ChannelNames == {"rendezvous", "buffered", "range", "spsc", "backpressure", "sum", "alternate",
                 "duplex", "credit", "pingpong", "pingpong actors", "fanin", "pool",
                 "main pool", "pipeline", "long pipeline", "mpsc", "gathered mpsc",
                 "counting mpsc", "done", "timeout", "select", "race", "sieve",
                 "echo tcp", "echo udp"}
ChannelProgram(name) ==
  CASE name = "rendezvous" -> Rendezvous [] name = "buffered" -> Buffered
    [] name = "range" -> CloseAndRange(2) [] name = "spsc" -> Spsc
    [] name = "backpressure" -> Backpressure [] name = "sum" -> ChannelSum
    [] name = "alternate" -> Alternate [] name = "duplex" -> Duplex
    [] name = "credit" -> Credit [] name = "pingpong" -> PingPong
    [] name = "pingpong actors" -> PingPongActors [] name = "fanin" -> FanIn
    [] name = "pool" -> Pool [] name = "main pool" -> MainPool
    [] name = "pipeline" -> Pipeline [] name = "long pipeline" -> LongPipeline
    [] name = "mpsc" -> Mpsc [] name = "gathered mpsc" -> GatheredMpsc
    [] name = "counting mpsc" -> CountingMpsc [] name = "done" -> DoneChannel
    [] name = "timeout" -> Timeout
    [] name = "select" -> SelectTwo [] name = "race" -> RaceTwo
    [] name = "sieve" -> PrimeSieve [] name = "echo tcp" -> EchoTcp [] name = "echo udp" -> EchoUdp
=============================================================================
