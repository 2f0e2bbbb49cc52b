--------------------------- MODULE CounterServer ----------------------------
(***************************************************************************)
(* The client side of counter_server (raft-rpc/source/counter_server.cpp): *)
(* the listener thread, one worker thread per accepted connection, and the *)
(* signal handler that is to stop them.  A line a client sends is answered *)
(* by handle_command(), which may block in replicate() until the cluster   *)
(* has committed or client_req_timeout_ has passed; either way it returns. *)
(***************************************************************************)
EXTENDS Integers, FiniteSets

CONSTANTS Connection,   \* the connections, one of each client
          MaxLines,     \* bound on the lines a client sends, for TLC
          AcceptErrors  \* may accept() fail of itself (no descriptor left)?

ASSUME ServerConstants == MaxLines \in Nat /\ AcceptErrors \in BOOLEAN

VARIABLES main,      \* "starting", "accept", "join", "exited", "killed": the main thread
          g_stop,
          listening, \* is g_listen_fd open?
          conn,      \* connection -> "none", "backlog", "open"; its client left: "closed", "gone"
          worker,    \* connection -> "none", "check", "recv", "serve", "done", "killed"
          lines,     \* connection -> lines its client has sent
          quit,      \* connection -> is the last of them "quit"?
          got,       \* connection -> lines its worker has received
          part,      \* connection -> does pending hold the beginning of another one?
          handled    \* connection -> lines its worker has handled

clients == <<conn, lines, quit>>
server  == <<main, g_stop, listening>>
counts  == <<got, part, handled>>
serverVars == <<server, clients, worker, counts>>

ServerInit == /\ main = "starting"
              /\ g_stop = FALSE
              /\ listening = FALSE
              /\ conn = [c \in Connection |-> "none"]
              /\ worker = [c \in Connection |-> "none"]
              /\ lines = [c \in Connection |-> 0]
              /\ quit = [c \in Connection |-> FALSE]
              /\ got = [c \in Connection |-> 0]
              /\ part = [c \in Connection |-> FALSE]
              /\ handled = [c \in Connection |-> 0]

Left(c) == conn[c] \in {"closed", "gone"}
ProcessLives == main \notin {"exited", "killed"}

(* handle_signal(), at any time and any number of times: SIGINT, SIGTERM.  *)
(* It closes the number g_listen_fd however often it runs; that the number *)
(* is another descriptor's by then is left to the README.                  *)
handle_signal == /\ ProcessLives
                 /\ g_stop' = TRUE
                 /\ listening' = FALSE
                 /\ UNCHANGED <<main, clients, worker, counts>>

(* run_client_listener(): socket, bind and listen.  One of them may fail,  *)
(* and main() returns.  A signal that came before leaves the loop to be    *)
(* skipped.                                                                *)
Listen == /\ main = "starting"
          /\ \/ main' = "accept" /\ listening' = TRUE
             \/ main' = "exited" /\ UNCHANGED listening
          /\ UNCHANGED <<g_stop, clients, worker, counts>>

Connect(c) == /\ listening /\ conn[c] = "none"
              /\ conn' = [conn EXCEPT ![c] = "backlog"]
              /\ UNCHANGED <<server, lines, quit, worker, counts>>

Accept(c) == /\ main = "accept" /\ ~g_stop /\ listening
             /\ conn[c] = "backlog"
             /\ conn' = [conn EXCEPT ![c] = "open"]
             /\ worker' = [worker EXCEPT ![c] = "check"]
             /\ UNCHANGED <<server, lines, quit, counts>>

\* Mutant: only the closed descriptor ends the loop.
LeaveAcceptLoop_FdOnly ==
  /\ main = "accept"
  /\ ~listening
  /\ main' = "join"
  /\ UNCHANGED <<g_stop, listening, clients, worker, counts>>
\* g_stop was seen, or accept() failed on the closed descriptor.
LeaveAcceptLoop == /\ main = "accept"
                   /\ g_stop \/ ~listening
                   /\ main' = "join"
                   /\ UNCHANGED <<g_stop, listening, clients, worker, counts>>

(* accept() fails for a reason of its own: the loop takes any error for    *)
(* the listener closed by the signal handler.                              *)
AcceptFails == /\ AcceptErrors
               /\ main = "accept" /\ ~g_stop /\ listening
               /\ main' = "join"
               /\ UNCHANGED <<g_stop, listening, clients, worker, counts>>

\* Mutant: the workers are not waited for.
JoinWorkers_Detached == /\ main = "join"
                        /\ main' = "exited"
                        /\ UNCHANGED <<g_stop, listening, clients, worker, counts>>
(* Every worker is joined; then the launcher shuts down and main returns.  *)
JoinWorkers == /\ main = "join"
               /\ \A c \in Connection : worker[c] \in {"none", "done"}
               /\ main' = "exited"
               /\ UNCHANGED <<g_stop, listening, clients, worker, counts>>

(* serve_connection(): g_stop is looked at between two recv() calls only.  *)
Check(c) == /\ worker[c] = "check"
            /\ worker' = [worker EXCEPT ![c] = IF g_stop THEN "done" ELSE "recv"]
            /\ UNCHANGED <<server, clients, counts>>

(* recv() blocks until it can return something: k - got[c] lines, and if p *)
(* the beginning of another one, which the client has sent or goes on with *)
(* later.  (A line is cut once at most.)                                   *)
Receive(c) == \E k \in got[c]..lines[c], p \in BOOLEAN :
  /\ k > got[c] \/ (p /\ ~part[c])
  /\ p => k < lines[c] \/ ~quit[c]
  /\ got' = [got EXCEPT ![c] = k]
  /\ part' = [part EXCEPT ![c] = p]
  /\ worker' = [worker EXCEPT ![c] = IF k > got[c] THEN "serve" ELSE "check"]
\* The end of the connection or an error: what was not received is lost.
EndOfFile(c) == /\ Left(c)
                /\ worker' = [worker EXCEPT ![c] = "done"]
                /\ UNCHANGED <<got, part>>
Recv(c) == /\ worker[c] = "recv"
           /\ Receive(c) \/ EndOfFile(c)
           /\ UNCHANGED <<server, clients, handled>>

\* Mutant: one line is handled per recv(), the rest of the buffer waits.
AfterLine_Recv(c) == "check"
\* All the lines in the buffer are handled before the next recv().
AfterLine(c) == IF handled[c] + 1 < got[c] THEN "serve" ELSE "check"

\* The line worker c is at.
AtQuit(c) == quit[c] /\ handled[c] + 1 = lines[c]

(* One line is handled and answered.  "quit" ends the connection without   *)
(* an answer.  An answer to a client that is gone may still be taken by    *)
(* the socket, or send() fails, which ends the worker.                     *)
Serve(c) ==
  /\ worker[c] = "serve"
  /\ handled' = [handled EXCEPT ![c] = @ + 1]
  /\ \/ ~AtQuit(c) /\ worker' = [worker EXCEPT ![c] = AfterLine(c)]
     \/ /\ AtQuit(c) \/ conn[c] = "gone"
        /\ worker' = [worker EXCEPT ![c] = "done"]
  /\ UNCHANGED <<server, clients, got, part>>

(* Or send() raises SIGPIPE: it is called without MSG_NOSIGNAL and nobody  *)
(* ignores the signal.  The process is killed, with all its threads.       *)
BrokenPipe(c) ==
  /\ worker[c] = "serve" /\ ~AtQuit(c) /\ conn[c] = "gone"
  /\ handled' = [handled EXCEPT ![c] = @ + 1]
  /\ main' = "killed" /\ listening' = FALSE
  /\ worker' = [d \in Connection |->
                  IF worker[d] \in {"none", "done"} THEN worker[d] ELSE "killed"]
  /\ UNCHANGED <<g_stop, clients, got, part>>

(* The clients.  One that leaves before its last answer ("quit" has none)  *)
(* is gone.                                                                *)
SendLine(c) == /\ conn[c] \in {"backlog", "open"} /\ ~quit[c]
               /\ lines[c] < MaxLines
               /\ lines' = [lines EXCEPT ![c] = @ + 1]
               /\ quit' \in {quit, [quit EXCEPT ![c] = TRUE]}
               /\ UNCHANGED <<server, conn, worker, counts>>
Answered(c) == handled[c] = lines[c] \/ AtQuit(c)
Leave(c) == /\ conn[c] \in {"backlog", "open"}
            /\ conn' = [conn EXCEPT ![c] = IF Answered(c) THEN "closed" ELSE "gone"]
            /\ UNCHANGED <<server, lines, quit, worker, counts>>

ServerNext == \/ Listen \/ LeaveAcceptLoop \/ AcceptFails \/ JoinWorkers \/ handle_signal
              \/ \E c \in Connection :
                   \/ Connect(c) \/ Accept(c) \/ Check(c) \/ Recv(c) \/ Serve(c)
                   \/ BrokenPipe(c) \/ SendLine(c) \/ Leave(c)

(* Every thread of the server runs; handle_command() returns.  A client    *)
(* need not do anything but leave some day: a worker whose client stays    *)
(* and is silent is blocked in recv(), and the main thread joins it.       *)
Fairness ==
  /\ WF_serverVars(Listen) /\ WF_serverVars(LeaveAcceptLoop) /\ WF_serverVars(JoinWorkers)
  /\ \A c \in Connection : /\ WF_serverVars(Accept(c)) /\ WF_serverVars(Check(c))
                           /\ WF_serverVars(Recv(c)) /\ WF_serverVars(Serve(c))
  /\ \A c \in Connection : WF_serverVars(Leave(c))

ServerSpec == ServerInit /\ [][ServerNext]_serverVars /\ Fairness

-----------------------------------------------------------------------------
(* main() owns the server context the workers use: it only returns when no *)
(* worker is running.  (A process that is killed takes them along.)        *)
NoWorkerOutlivesMain ==
  main = "exited" => \A c \in Connection : worker[c] \in {"none", "done"}

(* What a worker has received it handles before it looks at g_stop, waits  *)
(* or ends.  Lines are lost to a client that left before its answers only: *)
(* its own, and by SIGPIPE those the other workers are at.                 *)
ReceivedIsHandled ==
  \A c \in Connection : handled[c] # got[c] =>
    \/ worker[c] = "serve"
    \/ worker[c] = "done" /\ conn[c] = "gone"
    \/ worker[c] = "killed" /\ \E d \in Connection : conn[d] = "gone"

(* A signal stops the server, once its clients are gone.                   *)
StopsOnSignal == g_stop ~> main \in {"exited", "killed"}
=============================================================================
