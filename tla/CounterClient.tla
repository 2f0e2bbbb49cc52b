--------------------------- MODULE CounterClient ----------------------------
(***************************************************************************)
(* counter_client bench (raft-rpc/source/counter_client.cpp) against       *)
(* replicate() of counter_server.cpp: Ops adds of 1 and a final get, each  *)
(* a request() that tries every endpoint, follows REDIRECT hints and backs *)
(* off between rounds until a server gives a final answer.  A request has  *)
(* no identity.  An attempt the client gave up, or that a server answered  *)
(* with REDIRECT because it did not commit in time, may still be applied.  *)
(* The log is external: it applies an entry at most once, and at any time. *)
(***************************************************************************)
EXTENDS Integers, FiniteSets, Sequences

CONSTANTS Endpoint,    \* every server there is
          Given,       \* the endpoints on the command line, in order
          Dead,        \* endpoints at which nobody answers
          kMaxRounds,  \* 8 in the code
          Ops          \* the argument of bench

ASSUME ClientConstants == /\ IsFiniteSet(Endpoint) /\ Dead \subseteq Endpoint
                          /\ Given \in Seq(Endpoint) /\ Given # <<>>
                          /\ kMaxRounds \in Nat \ {0} /\ Ops \in Nat

\* No run of bench sends more: a list has an endpoint once.  It keeps the
\* model of a client that never gives up finite.
MaxSent == Ops * kMaxRounds * Cardinality(Endpoint)

VARIABLES endpoints,   \* the list of this request() in its current order
          i,           \* position in the list
          round,
          pc,          \* "connect", "await", "sleep", "done"
          attempt,     \* "none", "sent", "logged", "applied": the one awaited
          loose,       \* adds nobody waits for that may still be applied
          counter,     \* adds applied
          n,           \* requests of bench that have returned
          ok,          \* adds that were answered OK
          sent,        \* history: adds sent
          shown        \* what get returned, -1 before, -2 for an ERR

list == <<endpoints, i, round>>
log == <<attempt, loose, counter>>
bench == <<n, ok, sent, shown>>
vars == <<list, pc, log, bench>>

Adding == n < Ops

Init == /\ endpoints = Given /\ i = 1 /\ round = 0
        /\ pc = "connect"
        /\ attempt = "none" /\ loose = 0 /\ counter = 0
        /\ n = 0 /\ ok = 0 /\ sent = 0 /\ shown = -1

-----------------------------------------------------------------------------
(* The servers.                                                            *)

\* replicate(): append_entries() takes the entry, then waits.
Accepted == /\ attempt = "sent" /\ endpoints[i] \notin Dead
            /\ attempt' = "logged"
            /\ UNCHANGED <<list, pc, loose, counter, bench>>

Applied == /\ attempt = "logged"
           /\ attempt' = "applied"
           /\ counter' = IF Adding THEN counter + 1 ELSE counter
           /\ UNCHANGED <<list, pc, loose, bench>>

\* An add that was given up reaches a leader, or is committed, after all.
AppliedLate == /\ loose > 0
               /\ loose' = loose - 1
               /\ counter' = counter + 1
               /\ UNCHANGED <<list, pc, attempt, bench>>

-----------------------------------------------------------------------------
(* The client.                                                             *)

\* The add that is given up now may be applied later, if it was not before.
GivenUp(reached) == /\ attempt' = "none"
                    /\ loose' = IF Adding /\ attempt \in reached THEN loose + 1 ELSE loose
                    /\ UNCHANGED counter

(* request_once(): the line goes to the next endpoint of the list.         *)
Send == /\ pc = "connect" /\ i <= Len(endpoints)
        /\ Adding => sent < MaxSent
        /\ pc' = "await" /\ attempt' = "sent"
        /\ sent' = IF Adding THEN sent + 1 ELSE sent
        /\ UNCHANGED <<endpoints, i, round, loose, counter, n, ok, shown>>

\* Mutant: the same endpoint is tried until it answers.
NoAnswer_TryAgain == /\ pc = "await"
                     /\ pc' = "connect"
                     /\ GivenUp({"sent", "logged"})
                     /\ UNCHANGED <<list, bench>>
(* connect() fails, or no line comes back within three seconds.            *)
NoAnswer == /\ pc = "await"
            /\ i' = i + 1
            /\ pc' = "connect"
            /\ GivenUp({"sent", "logged"})
            /\ UNCHANGED <<endpoints, round, bench>>

\* The hinted leader first, then the others in their order.
Reordered(ep) == <<ep>> \o SelectSeq(endpoints, LAMBDA e : e # ep)

(* redirect_or_err(): the entry was refused, or it was accepted and no     *)
(* commit came in time.  The next round starts with the hint.              *)
Redirect(ep) == /\ pc = "await" /\ endpoints[i] \notin Dead
                /\ ep # endpoints[i]
                /\ endpoints' = Reordered(ep)
                /\ pc' = "sleep"
                /\ GivenUp({"logged"})
                /\ UNCHANGED <<i, round, bench>>

\* Mutant: replicate() answers OK to every accepted entry.
Final_Accepted == {"logged", "applied"}
\* What get_result_code() is OK for.
Final == {"applied"}

\* request() returns; bench sends the next, or prints and ends.
Return == /\ n' = n + 1
          /\ IF Adding
             THEN pc' = "connect" /\ endpoints' = Given /\ i' = 1 /\ round' = 0
             ELSE pc' = "done" /\ UNCHANGED <<endpoints, i, round>>
          /\ UNCHANGED sent

(* OK and the value of the counter.                                        *)
ReplyOK == /\ pc = "await" /\ attempt \in Final
           /\ IF Adding THEN ok' = ok + 1 /\ UNCHANGED shown
                         ELSE shown' = counter /\ UNCHANGED ok
           /\ GivenUp({"logged"})
           /\ Return

\* bench counts neither an ERR nor the last line of request() as ok.
Failed == /\ UNCHANGED ok
          /\ shown' = IF Adding THEN shown ELSE -2
          /\ Return

(* The same as for Redirect, at a server that knows of no other leader.    *)
ReplyErr == /\ pc = "await" /\ endpoints[i] \notin Dead
            /\ GivenUp({"logged"})
            /\ Failed

EndOfList == /\ pc = "connect"
             /\ i > Len(endpoints)
             /\ pc' = "sleep"
             /\ UNCHANGED <<list, log, bench>>

Again(r) == r < kMaxRounds
(* Back off, then start the next round, if there is one.                   *)
Sleep == /\ pc = "sleep"
         /\ UNCHANGED log
         /\ \/ /\ Again(round + 1)
               /\ round' = round + 1 /\ i' = 1 /\ pc' = "connect"
               /\ UNCHANGED <<endpoints, bench>>
            \/ ~Again(round + 1) /\ Failed

Client == Send \/ NoAnswer \/ ReplyOK \/ ReplyErr \/ EndOfList \/ Sleep
          \/ \E ep \in Endpoint : Redirect(ep)

Next == Accepted \/ Applied \/ AppliedLate \/ Client

\* Every call the client blocks in has a timeout.
Spec == Init /\ [][Next]_vars /\ WF_vars(Client)

-----------------------------------------------------------------------------
(* What bench prints: the counter it reads is at least the number of adds  *)
(* it was told OK for, and at most the number it sent, retries included.   *)
(* So n/n ops without a retry is the value n.                              *)
BenchReport == pc = "done" /\ shown >= 0 => ok <= shown /\ shown <= sent

(* bench ends: every call of request() returns.                            *)
Returns == <>(pc = "done")
=============================================================================
