------------------------ MODULE CounterProcessProofs -------------------------
(***************************************************************************)
(* The two processes of the counter example, each for itself.              *)
(*                                                                         *)
(* counter_client: what bench prints is right for every number of adds,    *)
(* rounds and endpoints.  The invariant is an account of the adds: every   *)
(* add sent has been applied, may still be, or is the one awaited, and     *)
(* none is in two of these places; an OK is counted only for an add that   *)
(* was applied.                                                            *)
(*                                                                         *)
(* counter_server: main() outlives its workers, and a worker leaves no     *)
(* line it has received.  A worker counts: what it has handled never       *)
(* passes what it has received, nor that what was sent, and the two only   *)
(* differ while it is at a line, when it found its client gone, or when a  *)
(* client that was gone had the process killed.                            *)
(***************************************************************************)
EXTENDS CounterClient, CounterServer, TLAPS

AttemptOK == /\ attempt \in {"none", "sent", "logged", "applied"}
             /\ pc \in {"connect", "await", "sleep", "done"}
             /\ pc # "await" => attempt = "none"

Counts == /\ loose \in Nat /\ counter \in Nat /\ ok \in Nat /\ sent \in Nat
          /\ n \in Nat /\ shown \in Int

\* The awaited add, while it is not applied.
Awaited == IF Adding /\ attempt \in {"sent", "logged"} THEN 1 ELSE 0
Account == counter + loose + Awaited <= sent

\* OKs, and the one that is about to be given.
Earned == IF Adding /\ attempt = "applied" THEN ok + 1 ELSE ok
Honest == /\ Earned <= counter
          /\ Adding => shown = -1 /\ pc # "done"
          /\ shown >= 0 => ok <= shown /\ shown <= counter

IInv == AttemptOK /\ Counts /\ Account /\ Honest

-----------------------------------------------------------------------------
(* The invariant holds at the start.                                       *)
LEMMA InitInv == Init => IInv
  BY ClientConstants
  DEF Init, IInv, AttemptOK, Counts, Account, Awaited, Honest, Earned, Adding

(* The servers move an add between the places of the account.              *)
LEMMA AcceptedInv == IInv /\ Accepted => IInv'
  BY DEF IInv, Accepted, AttemptOK, Counts, Account, Awaited, Honest, Earned,
         Adding, list, bench

LEMMA AppliedInv == IInv /\ Applied => IInv'
  BY ClientConstants
  DEF IInv, Applied, AttemptOK, Counts, Account, Awaited, Honest, Earned,
      Adding, list, bench

LEMMA AppliedLateInv == IInv /\ AppliedLate => IInv'
  BY DEF IInv, AppliedLate, AttemptOK, Counts, Account, Awaited, Honest, Earned,
         Adding, list, bench

\* An attempt that is over is counted with the loose ones, or not at all.
Over == /\ attempt' = "none" /\ loose' \in Nat /\ counter' = counter
        /\ counter + loose' <= sent

(* Giving up an attempt moves it to the loose ones, or forgets it.         *)
LEMMA GivenUpCounts ==
  ASSUME IInv, NEW reached \in SUBSET {"sent", "logged"}, GivenUp(reached)
  PROVE  Over
<1>1. CASE Adding /\ attempt \in reached
  <2>1. Awaited = 1
    BY <1>1 DEF Awaited
  <2>2. loose' = loose + 1
    BY <1>1 DEF GivenUp
  <2> QED
    BY <2>1, <2>2 DEF IInv, Counts, Account, GivenUp, Over
<1>2. CASE ~(Adding /\ attempt \in reached)
  <2>1. Awaited \in {0, 1}
    BY DEF Awaited
  <2>2. loose' = loose
    BY <1>2 DEF GivenUp
  <2> QED
    BY <2>1, <2>2 DEF IInv, Counts, Account, GivenUp, Over
<1> QED
  BY <1>1, <1>2

LEMMA SendInv == IInv /\ Send => IInv'
  BY DEF IInv, Send, AttemptOK, Counts, Account, Awaited, Honest, Earned, Adding

(* The end of an attempt that does not end the request.                    *)
LEMMA GoOnInv ==
  ASSUME IInv, Over, UNCHANGED bench, pc' \in {"connect", "sleep"}, pc # "done"
  PROVE  IInv'
<1>1. Adding' = Adding
  BY DEF Adding, bench
<1>2. AttemptOK'
  BY DEF AttemptOK, Over
<1>3. Counts'
  BY DEF IInv, Counts, Over, bench
<1>4. Account'
  <2>1. Awaited' = 0
    BY DEF Awaited, Adding, Over
  <2>2. counter' + loose' <= sent' /\ counter' \in Nat /\ loose' \in Nat
    BY DEF IInv, Counts, Over, bench
  <2> QED
    BY <2>1, <2>2 DEF Account
<1>5. Honest'
  <2>1. Earned' = ok /\ (Earned = ok \/ Earned = ok + 1)
    BY DEF Earned, Over, bench
  <2> QED
    BY <1>1, <2>1 DEF IInv, Counts, Honest, Over, bench
<1> QED
  BY <1>2, <1>3, <1>4, <1>5 DEF IInv

LEMMA NoAnswerInv == IInv /\ NoAnswer => IInv'
<1> SUFFICES ASSUME IInv, NoAnswer PROVE IInv'
  OBVIOUS
<1>1. Over
  BY GivenUpCounts DEF NoAnswer
<1> QED
  BY <1>1, GoOnInv DEF NoAnswer

LEMMA RedirectInv == ASSUME IInv, NEW ep \in Endpoint, Redirect(ep) PROVE IInv'
<1>1. Over
  BY GivenUpCounts DEF Redirect
<1> QED
  BY <1>1, GoOnInv DEF Redirect

(* The request that returns was an add, or the get, which shows at most    *)
(* the counter.                                                            *)
LEMMA ReturnInv ==
  ASSUME IInv, Over, Return, ok' \in Nat, ok' <= counter, shown' \in Int,
         Adding => shown' = -1, shown' >= 0 => ok' <= shown' /\ shown' <= counter
  PROVE  IInv'
<1>1. Adding' => Adding
  BY ClientConstants DEF IInv, Counts, Return, Adding
<1>2. IF Adding THEN pc' = "connect" ELSE pc' = "done"
  BY DEF Return
<1>3. AttemptOK'
  BY <1>2 DEF AttemptOK, Over
<1>4. Counts'
  BY DEF IInv, Counts, Over, Return
<1>5. Account'
  <2>1. Awaited' = 0
    BY DEF Awaited, Adding, Over
  <2>2. counter' + loose' <= sent' /\ counter' \in Nat /\ loose' \in Nat
    BY DEF IInv, Counts, Over, Return
  <2> QED
    BY <2>1, <2>2 DEF Account
<1>6. Honest'
  <2>1. Earned' = ok'
    BY DEF Earned, Adding, Over
  <2> QED
    BY <1>1, <1>2, <2>1 DEF Honest, Over
<1> QED
  BY <1>3, <1>4, <1>5, <1>6 DEF IInv

LEMMA ReplyOKInv == IInv /\ ReplyOK => IInv'
<1> SUFFICES ASSUME IInv, ReplyOK PROVE IInv'
  OBVIOUS
<1>1. Over
  BY GivenUpCounts DEF ReplyOK
<1>2. attempt = "applied"
  BY DEF ReplyOK, Final
<1>3. CASE Adding
  <2>1. ok' = ok + 1 /\ shown' = -1
    BY <1>3 DEF ReplyOK, IInv, Honest
  <2>2. Earned = ok + 1
    BY <1>2, <1>3 DEF Earned
  <2> QED
    BY <1>1, <1>3, <2>1, <2>2, ReturnInv DEF ReplyOK, IInv, Counts, Honest
<1>4. CASE ~Adding
  <2>1. ok' = ok /\ shown' = counter
    BY <1>4 DEF ReplyOK
  <2>2. Earned = ok
    BY <1>4 DEF Earned
  <2> QED
    BY <1>1, <1>4, <2>1, <2>2, ReturnInv DEF ReplyOK, IInv, Counts, Honest
<1> QED
  BY <1>3, <1>4

LEMMA FailedInv == ASSUME IInv, Failed, Over PROVE IInv'
<1>1. ok' = ok /\ Earned \in {ok, ok + 1}
  BY DEF Failed, Earned
<1>2. IF Adding THEN shown' = -1 ELSE shown' = -2
  BY DEF Failed, IInv, Honest
<1> QED
  BY <1>1, <1>2, ReturnInv DEF Failed, IInv, Counts, Honest

LEMMA ReplyErrInv == IInv /\ ReplyErr => IInv'
<1> SUFFICES ASSUME IInv, ReplyErr PROVE IInv'
  OBVIOUS
<1>1. Over
  BY GivenUpCounts DEF ReplyErr
<1> QED
  BY <1>1, FailedInv DEF ReplyErr

LEMMA EndOfListInv == IInv /\ EndOfList => IInv'
  BY DEF IInv, EndOfList, AttemptOK, Counts, Account, Awaited, Honest, Earned,
         Adding, log, bench

LEMMA SleepInv == IInv /\ Sleep => IInv'
<1> SUFFICES ASSUME IInv, Sleep PROVE IInv'
  OBVIOUS
<1>1. Over
  <2>1. Awaited \in {0, 1} /\ attempt = "none"
    BY DEF Awaited, IInv, Sleep, AttemptOK
  <2> QED
    BY <2>1 DEF IInv, Sleep, log, Counts, Account, Over
<1>2. CASE Failed
  BY <1>1, <1>2, FailedInv
<1>3. CASE ~Failed
  BY <1>1, <1>3, GoOnInv DEF Sleep
<1> QED
  BY <1>2, <1>3

(* The invariant is inductive.                                             *)
LEMMA NextInv == IInv /\ [Next]_vars => IInv'
<1> SUFFICES ASSUME IInv, [Next]_vars PROVE IInv'
  OBVIOUS
<1>1. CASE Accepted BY <1>1, AcceptedInv
<1>2. CASE Applied BY <1>2, AppliedInv
<1>3. CASE AppliedLate BY <1>3, AppliedLateInv
<1>4. CASE Send BY <1>4, SendInv
<1>5. CASE NoAnswer BY <1>5, NoAnswerInv
<1>6. CASE ReplyOK BY <1>6, ReplyOKInv
<1>7. CASE ReplyErr BY <1>7, ReplyErrInv
<1>8. CASE EndOfList BY <1>8, EndOfListInv
<1>9. CASE Sleep BY <1>9, SleepInv
<1>10. ASSUME NEW ep \in Endpoint, Redirect(ep) PROVE IInv'
  BY <1>10, RedirectInv
<1>11. CASE UNCHANGED vars
  BY <1>11 DEF IInv, AttemptOK, Counts, Account, Awaited, Honest, Earned, Adding,
               vars, list, log, bench
<1> QED
  BY <1>1, <1>2, <1>3, <1>4, <1>5, <1>6, <1>7, <1>8, <1>9, <1>10, <1>11
  DEF Next, Client

LEMMA InvImplies == IInv => BenchReport
  BY DEF IInv, BenchReport, Counts, Account, Awaited, Honest

(* What bench prints: the counter it reads is at least the number of adds  *)
(* it was told OK for, and at most the number it sent.                     *)
THEOREM BenchReportsRight == Spec => []BenchReport
<1>1. Init => IInv BY InitInv
<1>2. IInv /\ [Next]_vars => IInv' BY NextInv
<1>3. IInv => BenchReport BY InvImplies
<1> QED
  BY <1>1, <1>2, <1>3, PTL DEF Spec

-----------------------------------------------------------------------------
(* The threads of the server, for every set of clients and any number of   *)
(* lines.                                                                  *)
ServerTypes ==
  /\ main \in {"starting", "accept", "join", "exited", "killed"}
  /\ conn \in [Connection -> {"none", "backlog", "open", "closed", "gone"}]
  /\ worker \in [Connection -> {"none", "check", "recv", "serve", "done", "killed"}]
  /\ quit \in [Connection -> BOOLEAN] /\ part \in [Connection -> BOOLEAN]
  /\ lines \in [Connection -> Nat] /\ got \in [Connection -> Nat] /\ handled \in [Connection -> Nat]

\* The lines of client c.
LinesCount(c) ==
  /\ handled[c] <= got[c] /\ got[c] <= lines[c]
  /\ worker[c] = "serve" => handled[c] < got[c]
  /\ worker[c] \in {"none", "check", "recv"} => handled[c] = got[c]
  /\ worker[c] = "done" => handled[c] = got[c] \/ conn[c] = "gone"
  /\ conn[c] \in {"none", "backlog"} => worker[c] = "none"

\* Workers only run while the process does, and a client had it killed.
Killing ==
  /\ main = "starting" => \A c \in Connection : worker[c] = "none"
  /\ \A c \in Connection : worker[c] = "killed" => main = "killed"
  /\ main = "killed" => \E d \in Connection : conn[d] = "gone"

ServerInv == /\ ServerTypes /\ NoWorkerOutlivesMain /\ Killing
             /\ \A c \in Connection : LinesCount(c)

-----------------------------------------------------------------------------
(* The invariant holds at the start.                                       *)
LEMMA ServerStarts == ServerInit => ServerInv
  BY DEF ServerInit, ServerInv, ServerTypes, NoWorkerOutlivesMain, Killing, LinesCount

(* No worker starts once main() has left the accept loop, and main() only  *)
(* returns when there is none left, or when there never was one.           *)
LEMMA MainIsLast == ServerInv /\ [ServerNext]_serverVars => NoWorkerOutlivesMain'
<1> SUFFICES ASSUME ServerInv, [ServerNext]_serverVars, main' = "exited", NEW d \in Connection
             PROVE  worker'[d] \in {"none", "done"}
  BY DEF NoWorkerOutlivesMain
<1>1. CASE JoinWorkers
  BY <1>1 DEF JoinWorkers
<1>2. CASE Listen
  BY <1>2 DEF Listen, ServerInv, Killing
<1>3. ASSUME main = "exited" PROVE worker' = worker
  <2>1. \A c \in Connection : worker[c] \in {"none", "done"}
    BY <1>3 DEF ServerInv, NoWorkerOutlivesMain
  <2> QED
    BY <1>3, <2>1 DEF ServerNext, serverVars, server, Listen, LeaveAcceptLoop,
                      AcceptFails, JoinWorkers, handle_signal, ProcessLives,
                      Connect, Accept, Check, Recv,
                      Serve, BrokenPipe, SendLine, Leave
<1>4. main = "exited" \/ JoinWorkers \/ Listen
  BY DEF ServerNext, serverVars, server, LeaveAcceptLoop,
         AcceptFails, handle_signal,
         Connect, Accept, Check, Recv, Serve,
         BrokenPipe, SendLine, Leave
<1> QED
  BY <1>1, <1>2, <1>3, <1>4 DEF ServerInv, NoWorkerOutlivesMain

(* A client that is gone stays so, and workers start in the accept loop.   *)
LEMMA KillingStep == ServerInv /\ [ServerNext]_serverVars => Killing'
<1> SUFFICES ASSUME ServerInv, [ServerNext]_serverVars PROVE Killing'
  OBVIOUS
<1>1. CASE Listen \/ LeaveAcceptLoop \/ AcceptFails \/ JoinWorkers \/ handle_signal
           \/ UNCHANGED serverVars
  BY <1>1 DEF ServerInv, Killing, serverVars, server, clients, Listen,
              LeaveAcceptLoop, AcceptFails, JoinWorkers, handle_signal, ProcessLives
<1>2. ASSUME NEW c \in Connection, BrokenPipe(c) PROVE Killing'
  BY <1>2 DEF ServerInv, ServerTypes, Killing, BrokenPipe, clients
<1>3. ASSUME NEW c \in Connection, Connect(c) \/ SendLine(c) \/ Leave(c)
      PROVE  Killing'
  <2>1. UNCHANGED <<main, worker>> /\ \A d \in Connection : conn[d] = "gone" => conn'[d] = "gone"
    BY <1>3 DEF ServerInv, ServerTypes, Connect, SendLine, Leave, server
  <2> QED
    BY <2>1 DEF ServerInv, Killing
<1>4. ASSUME NEW c \in Connection, Accept(c) \/ Check(c) \/ Recv(c) \/ Serve(c)
      PROVE  Killing'
  <2>1. /\ UNCHANGED main /\ main # "starting"
        /\ \A d \in Connection : conn[d] = "gone" => conn'[d] = "gone"
    BY <1>4 DEF ServerInv, ServerTypes, Killing, Accept, Check, Recv, Serve, server, clients
  <2>2. \A d \in Connection : worker'[d] = "killed" => worker[d] = "killed"
    BY <1>4 DEF ServerInv, ServerTypes, Accept, Check, Recv, Receive, EndOfFile, Serve, AfterLine
  <2> QED
    BY <2>1, <2>2 DEF ServerInv, Killing
<1> QED
  BY <1>1, <1>2, <1>3, <1>4 DEF ServerNext

(* What happens to client c leaves the counts of the others alone.         *)
LEMMA OthersCount ==
  ASSUME ServerInv, NEW c \in Connection, LinesCount(c)',
         \A d \in Connection : d # c =>
           /\ conn'[d] = conn[d] /\ worker'[d] = worker[d]
           /\ lines'[d] = lines[d] /\ got'[d] = got[d] /\ handled'[d] = handled[d]
  PROVE  \A d \in Connection : LinesCount(d)'
  BY DEF ServerInv, LinesCount

LEMMA RecvCounts ==
  ASSUME ServerInv, NEW c \in Connection, Recv(c) PROVE ServerTypes' /\ LinesCount(c)'
<1>1. /\ worker[c] = "recv" /\ handled[c] = got[c] /\ conn[c] \notin {"none", "backlog"}
      /\ got[c] <= lines[c] /\ UNCHANGED <<main, conn, lines, quit, handled>>
  BY DEF ServerInv, LinesCount, Recv, server, clients
<1>2. handled[c] \in Nat /\ got[c] \in Nat /\ lines[c] \in Nat
  BY DEF ServerInv, ServerTypes
<1>3. CASE EndOfFile(c)
  BY <1>1, <1>2, <1>3 DEF ServerInv, ServerTypes, LinesCount, EndOfFile
<1>4. CASE Receive(c)
  <2>1. PICK k \in got[c]..lines[c], p \in BOOLEAN :
          /\ got' = [got EXCEPT ![c] = k]
          /\ part' = [part EXCEPT ![c] = p]
          /\ worker' = [worker EXCEPT ![c] = IF k > got[c] THEN "serve" ELSE "check"]
    BY <1>4 DEF Receive
  <2>2. k \in Nat /\ got[c] <= k /\ k <= lines[c]
    BY <1>2
  <2>3. got'[c] = k /\ worker'[c] = IF k > got[c] THEN "serve" ELSE "check"
    BY <2>1 DEF ServerInv, ServerTypes
  <2>4. ServerTypes'
    <3>1. worker' \in [Connection -> {"none", "check", "recv", "serve", "done", "killed"}]
      BY <2>1 DEF ServerInv, ServerTypes
    <3>2. got' \in [Connection -> Nat] /\ part' \in [Connection -> BOOLEAN]
      BY <2>1, <2>2 DEF ServerInv, ServerTypes
    <3> QED
      BY <1>1, <3>1, <3>2 DEF ServerInv, ServerTypes
  <2> QED
    BY <1>1, <1>2, <2>2, <2>3, <2>4 DEF LinesCount
<1> QED
  BY <1>3, <1>4 DEF Recv

LEMMA ServeCounts ==
  ASSUME ServerInv, NEW c \in Connection, Serve(c) PROVE ServerTypes' /\ LinesCount(c)'
<1>1. /\ worker[c] = "serve" /\ handled' = [handled EXCEPT ![c] = @ + 1]
      /\ UNCHANGED <<main, conn, lines, quit, got, part>>
  BY DEF Serve, server, clients
<1>2. /\ handled[c] \in Nat /\ got[c] \in Nat /\ lines[c] \in Nat
      /\ handled[c] < got[c] /\ got[c] <= lines[c] /\ conn[c] \notin {"none", "backlog"}
  BY <1>1 DEF ServerInv, ServerTypes, LinesCount
<1>3. handled'[c] = handled[c] + 1 /\ handled' \in [Connection -> Nat]
  BY <1>1, <1>2 DEF ServerInv, ServerTypes
<1>4. PICK w \in {"check", "serve", "done"} :
        /\ worker' = [worker EXCEPT ![c] = w]
        /\ w = "serve" => handled[c] + 1 < got[c]
        /\ w = "check" => ~(handled[c] + 1 < got[c])
        /\ w = "done" => handled[c] + 1 = lines[c] \/ conn[c] = "gone"
  BY DEF Serve, AfterLine, AtQuit
<1>5. ServerTypes' /\ worker'[c] = w
  BY <1>1, <1>3, <1>4 DEF ServerInv, ServerTypes
<1>6. LinesCount(c)'
  BY <1>1, <1>2, <1>3, <1>4, <1>5 DEF LinesCount
<1> QED
  BY <1>5, <1>6

(* The signal ends every thread where it stands.                           *)
LEMMA BrokenPipeCounts ==
  ASSUME ServerInv, NEW c \in Connection, BrokenPipe(c)
  PROVE  ServerTypes' /\ \A d \in Connection : LinesCount(d)'
<1>1. /\ handled' = [handled EXCEPT ![c] = @ + 1] /\ main' = "killed"
      /\ worker' = [d \in Connection |->
                      IF worker[d] \in {"none", "done"} THEN worker[d] ELSE "killed"]
      /\ UNCHANGED <<conn, lines, quit, got, part>>
  BY DEF BrokenPipe, clients
<1>2. /\ handled[c] \in Nat /\ got[c] \in Nat /\ handled[c] < got[c]
      /\ worker[c] = "serve" /\ conn[c] = "gone"
  BY DEF BrokenPipe, ServerInv, ServerTypes, LinesCount
<1>3. ServerTypes'
  BY <1>1, <1>2 DEF ServerInv, ServerTypes
<1>4. ASSUME NEW d \in Connection PROVE LinesCount(d)'
  <2>1. CASE d = c
    BY <1>1, <1>2, <2>1 DEF ServerInv, ServerTypes, LinesCount
  <2>2. CASE d # c
    <3>1. /\ handled'[d] = handled[d]
          /\ worker'[d] = IF worker[d] \in {"none", "done"} THEN worker[d] ELSE "killed"
      BY <1>1, <2>2 DEF ServerInv, ServerTypes
    <3> QED
      BY <1>1, <3>1 DEF ServerInv, LinesCount
  <2> QED
    BY <2>1, <2>2
<1> QED
  BY <1>3, <1>4

(* A client sends, or leaves; what it has sent only grows.                 *)
LEMMA ClientCounts ==
  ASSUME ServerInv, NEW c \in Connection, Connect(c) \/ Accept(c)
         \/ Check(c) \/ SendLine(c) \/ Leave(c)
  PROVE  ServerTypes' /\ LinesCount(c)'
<1>1. handled[c] \in Nat /\ got[c] \in Nat /\ lines[c] \in Nat /\ LinesCount(c)
  BY DEF ServerInv, ServerTypes
<1>2. CASE Connect(c)
  BY <1>1, <1>2 DEF ServerInv, ServerTypes, LinesCount, Connect, server, counts
<1>3. CASE Accept(c)
  BY <1>1, <1>3 DEF ServerInv, ServerTypes, LinesCount, Accept, server, counts
<1>4. CASE Check(c)
  BY <1>1, <1>4 DEF ServerInv, ServerTypes, LinesCount, Check, server, clients, counts
<1>5. CASE SendLine(c)
  <2>1. /\ lines' = [lines EXCEPT ![c] = @ + 1]
        /\ UNCHANGED <<main, conn, worker, got, part, handled>>
    BY <1>5 DEF SendLine, server, counts
  <2>2. quit' \in [Connection -> BOOLEAN]
    BY <1>5 DEF ServerInv, ServerTypes, SendLine
  <2>3. lines'[c] = lines[c] + 1 /\ lines' \in [Connection -> Nat]
    BY <1>1, <2>1 DEF ServerInv, ServerTypes
  <2>4. ServerTypes'
    BY <2>1, <2>2, <2>3 DEF ServerInv, ServerTypes
  <2>5. got[c] <= lines[c] + 1
    BY <1>1 DEF LinesCount
  <2> QED
    BY <1>1, <2>1, <2>3, <2>4, <2>5 DEF LinesCount
<1>6. CASE Leave(c)
  BY <1>1, <1>6 DEF ServerInv, ServerTypes, LinesCount, Leave, server, counts
<1> QED
  BY <1>2, <1>3, <1>4, <1>5, <1>6

LEMMA ServerSteps == ServerInv /\ [ServerNext]_serverVars => ServerInv'
<1> SUFFICES ASSUME ServerInv, [ServerNext]_serverVars
             PROVE  ServerTypes' /\ \A c \in Connection : LinesCount(c)'
  BY MainIsLast, KillingStep DEF ServerInv
<1>1. CASE Listen \/ LeaveAcceptLoop \/ AcceptFails
           \/ JoinWorkers \/ handle_signal \/ UNCHANGED serverVars
  <2>1. UNCHANGED <<clients, worker, counts>>
    BY <1>1 DEF serverVars, Listen, LeaveAcceptLoop, AcceptFails, JoinWorkers, handle_signal
  <2>2. main' \in {main, "accept", "join", "exited"}
    BY <1>1 DEF serverVars, server, Listen, LeaveAcceptLoop, AcceptFails, JoinWorkers, handle_signal
  <2> QED
    BY <2>1, <2>2 DEF ServerInv, ServerTypes, LinesCount, clients, counts
<1>2. ASSUME NEW c \in Connection,
             \/ Connect(c) \/ Accept(c) \/ Check(c)
             \/ Recv(c) \/ Serve(c) \/ SendLine(c) \/ Leave(c)
      PROVE  ServerTypes' /\ \A d \in Connection : LinesCount(d)'
  <2>1. ServerTypes' /\ LinesCount(c)'
    BY <1>2, RecvCounts, ServeCounts, ClientCounts
  <2>2. ASSUME NEW d \in Connection, d # c
        PROVE  /\ conn'[d] = conn[d] /\ worker'[d] = worker[d]
               /\ lines'[d] = lines[d] /\ got'[d] = got[d] /\ handled'[d] = handled[d]
    BY <1>2, <2>2 DEF ServerInv, ServerTypes, Connect, Accept, Check, Recv, Receive,
                      EndOfFile, Serve, SendLine, Leave, server, clients, counts
  <2> QED
    BY <2>1, <2>2, OthersCount
<1>3. ASSUME NEW c \in Connection, BrokenPipe(c)
      PROVE  ServerTypes' /\ \A d \in Connection : LinesCount(d)'
  BY <1>3, BrokenPipeCounts
<1> QED
  BY <1>1, <1>2, <1>3 DEF ServerNext

LEMMA ServerInvHolds == ServerSpec => []ServerInv
  BY ServerStarts, ServerSteps, PTL DEF ServerSpec

-----------------------------------------------------------------------------
(* The server context belongs to main(): no worker uses it after main()    *)
(* has returned, whenever the signal comes and whoever connects meanwhile. *)
THEOREM WorkersEndBeforeMain == ServerSpec => []NoWorkerOutlivesMain
<1>1. ServerInv => NoWorkerOutlivesMain
  BY DEF ServerInv
<1> QED
  BY <1>1, ServerInvHolds, PTL

(* A worker that looks at g_stop, waits in recv() or has ended has handled *)
(* every line it received, unless its client went away before its answers; *)
(* and it is killed at a line only with the whole process, by the answer   *)
(* to such a client.                                                       *)
THEOREM NoLineIsDropped == ServerSpec => []ReceivedIsHandled
<1>1. ServerInv => ReceivedIsHandled
  BY DEF ServerInv, ServerTypes, Killing, LinesCount, ReceivedIsHandled
<1> QED
  BY <1>1, ServerInvHolds, PTL
=============================================================================
