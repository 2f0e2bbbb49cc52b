--------------------------- MODULE CounterCluster ---------------------------
(***************************************************************************)
(* The whole cluster (raft-rpc/source): servers elect leaders, clients add *)
(* to the counter and read it through the Raft log, servers crash and come *)
(* back.  What a server has after a restart is what the source decides:    *)
(* file_state_mgr keeps term and vote on disk (FileStateMgr shows that a   *)
(* save is atomic), mem_log_store and counter_state_machine keep the log   *)
(* and the counter in memory only.  Election and replication themselves    *)
(* are NuRaft's, external to the source: one request and its answer are    *)
(* one step, and any of them may be lost.                                  *)
(*                                                                         *)
(* Deltas are powers of two, so a value of the counter is a set of adds.   *)
(***************************************************************************)
EXTENDS Integers, FiniteSets, Sequences

CONSTANTS Server,
          Nobody,        \* no vote in this term
          MaxTerm,       \* bound on terms, for TLC
          MaxLog         \* bound on commands and restarts together, for TLC

ASSUME ClusterConstants == /\ IsFiniteSet(Server) /\ Nobody \notin Server
                           /\ {MaxTerm, MaxLog} \subseteq Nat

VARIABLES term, voted,   \* per server, on disk
          role,          \* per server: "follower", "candidate" or "leader"
          votes,         \* per candidate: who voted for it
          log,           \* per server: the entries, in memory
          commit,        \* per server: how many of them are committed
          match,         \* per leader: how much of its log each server has acked
          waiting,       \* requests a leader has accepted and not answered
          replies,       \* history: every answer a client got
          added,         \* history: adds submitted so far
          elected,       \* history: <<term, leader>>
          restarts

persistent == <<term, voted>>
volatile == <<role, votes, log, commit, match>>
clients == <<waiting, replies, added>>
vars == <<persistent, volatile, clients, elected, restarts>>

Init == /\ term = [s \in Server |-> 0]
        /\ voted = [s \in Server |-> Nobody]
        /\ role = [s \in Server |-> "follower"]
        /\ votes = [s \in Server |-> {}]
        /\ log = [s \in Server |-> <<>>]
        /\ commit = [s \in Server |-> 0]
        /\ match = [s \in Server |-> [r \in Server |-> 0]]
        /\ waiting = {}
        /\ replies = {}
        /\ added = 0
        /\ elected = {}
        /\ restarts = 0

Majority(S) == 2 * Cardinality(S) > Cardinality(Server)
LastTerm(l) == IF l = <<>> THEN 0 ELSE l[Len(l)].term

\* The counter after the first n entries of l, as the set of adds in it.
Value(l, n) == {l[i].add : i \in {j \in DOMAIN l : j <= n /\ l[j].op = "ADD"}}

\* What clients have been told is in the counter.
Acknowledged == UNION {r.value : r \in replies}

-----------------------------------------------------------------------------
(* Elections.                                                              *)

\* The election timer fires: vote for oneself in the next term, on disk.
StartElection(s) ==
  /\ role[s] # "leader"
  /\ term[s] < MaxTerm
  /\ term' = [term EXCEPT ![s] = @ + 1]
  /\ voted' = [voted EXCEPT ![s] = s]
  /\ role' = [role EXCEPT ![s] = "candidate"]
  /\ votes' = [votes EXCEPT ![s] = {s}]
  /\ UNCHANGED <<log, commit, match, clients, elected, restarts>>

\* Mutant: a vote does not ask whose log is longer.
UpToDate_Any(c, s) == TRUE
UpToDate(c, s) == \/ LastTerm(log[c]) > LastTerm(log[s])
                  \/ /\ LastTerm(log[c]) = LastTerm(log[s])
                     /\ Len(log[c]) >= Len(log[s])

\* The vote another server has on disk for the term of candidate c.
VoteNow(s, c) == IF term[c] > term[s] THEN Nobody ELSE voted[s]
(* s answers the vote request of c; the answer may be lost.                *)
RequestVote(c, s) ==
  LET grant == VoteNow(s, c) \in {Nobody, c} /\ UpToDate(c, s)
  IN  /\ role[c] = "candidate" /\ s # c
      /\ term[c] >= term[s]
      /\ term' = [term EXCEPT ![s] = term[c]]
      /\ voted' = [voted EXCEPT ![s] = IF grant THEN c ELSE VoteNow(s, c)]
      /\ role' = [role EXCEPT ![s] = IF term[c] > term[s] THEN "follower" ELSE @]
      /\ grant \/ term[c] > term[s]
      /\ \/ votes' = [votes EXCEPT ![c] = IF grant THEN @ \cup {s} ELSE @]
         \/ UNCHANGED votes
      /\ UNCHANGED <<log, commit, match, clients, elected, restarts>>

BecomeLeader(c) ==
  /\ role[c] = "candidate"
  /\ Majority(votes[c])
  /\ role' = [role EXCEPT ![c] = "leader"]
  /\ match' = [match EXCEPT ![c] = [r \in Server |-> IF r = c THEN Len(log[c]) ELSE 0]]
  /\ elected' = elected \cup {<<term[c], c>>}
  /\ UNCHANGED <<persistent, votes, log, commit, clients, restarts>>

-----------------------------------------------------------------------------
(* Commands.                                                               *)

(* replicate(): the leader (to which any other server forwards the call)   *)
(* appends the command; the caller waits for the commit.  floor is what    *)
(* was acknowledged to anybody before the call.                            *)
AppendCommand(s, op) ==
  /\ role[s] = "leader"
  /\ Len(log[s]) + restarts < MaxLog
  /\ added' = IF op = "ADD" THEN added + 1 ELSE added
  /\ log' = [log EXCEPT ![s] = Append(@, [term |-> term[s], op |-> op, add |-> added'])]
  /\ match' = [match EXCEPT ![s][s] = Len(log'[s])]
  /\ waiting' = waiting \cup {[server |-> s, term |-> term[s], index |-> Len(log'[s]),
                               floor |-> Acknowledged]}
  /\ UNCHANGED <<persistent, role, votes, commit, replies, elected, restarts>>

\* Mutant: `get` is answered from the counter of the leader, like `local`.
Replicate_LocalGet(s, op) ==
  IF op = "ADD" THEN AppendCommand(s, op)
  ELSE /\ role[s] = "leader"
       /\ replies' = replies \cup {[floor |-> Acknowledged,
                                    value |-> Value(log[s], commit[s])]}
       /\ UNCHANGED <<persistent, volatile, waiting, added, elected, restarts>>
\* `add` and `get` both go through the log.
Replicate(s, op) == AppendCommand(s, op)

(* The leader brings a server up to its own log and commit index; the      *)
(* acknowledgement may be lost.                                            *)
AppendEntries(l, s) ==
  /\ role[l] = "leader" /\ s # l
  /\ term[l] >= term[s]
  /\ term' = [term EXCEPT ![s] = term[l]]
  /\ voted' = [voted EXCEPT ![s] = IF term[l] > term[s] THEN Nobody ELSE @]
  /\ role' = [role EXCEPT ![s] = "follower"]
  /\ log' = [log EXCEPT ![s] = log[l]]
  /\ commit' = [commit EXCEPT ![s] = IF commit[l] > @ THEN commit[l] ELSE @]
  /\ \/ match' = [match EXCEPT ![l][s] = Len(log[l])]
     \/ UNCHANGED match
  /\ UNCHANGED <<votes, clients, elected, restarts>>

\* Any answer from a server of a later term ends a leadership.
StepDown(l, s) ==
  /\ role[l] # "follower"
  /\ term[s] > term[l]
  /\ term' = [term EXCEPT ![l] = term[s]]
  /\ voted' = [voted EXCEPT ![l] = Nobody]
  /\ role' = [role EXCEPT ![l] = "follower"]
  /\ UNCHANGED <<votes, log, commit, match, clients, elected, restarts>>

Committable(l, n) == /\ n \in (commit[l] + 1)..Len(log[l])
                     /\ log[l][n].term = term[l]
                     /\ Majority({s \in Server : match[l][s] >= n})

(* The leader commits up to n and answers the commands among them whose    *)
(* callers are still waiting; commit() runs in log order.                  *)
Answered(l, n) == {w \in waiting : w.server = l /\ w.term = term[l] /\ w.index <= n}
Commit(l, n) ==
  /\ role[l] = "leader"
  /\ Committable(l, n)
  /\ commit' = [commit EXCEPT ![l] = n]
  /\ waiting' = waiting \ Answered(l, n)
  /\ replies' = replies \cup {[floor |-> w.floor, value |-> Value(log[l], w.index)] :
                                w \in Answered(l, n)}
  /\ UNCHANGED <<persistent, role, votes, log, match, added, elected, restarts>>

\* client_req_timeout_ passes: the caller gets an error, the entry stays.
Timeout(w) == /\ w \in waiting
              /\ waiting' = waiting \ {w}
              /\ UNCHANGED <<persistent, volatile, replies, added, elected, restarts>>

(* A server is killed and started again: load_log_store() gives it an      *)
(* empty log, read_state() the term and the vote it had.                   *)
LoseMemory(s) ==
  /\ \A r \in Server : Len(log[r]) + restarts < MaxLog
  /\ restarts' = restarts + 1
  /\ role' = [role EXCEPT ![s] = "follower"]
  /\ log' = [log EXCEPT ![s] = <<>>]
  /\ commit' = [commit EXCEPT ![s] = 0]
  /\ votes' = [votes EXCEPT ![s] = {}]
  /\ match' = [match EXCEPT ![s] = [r \in Server |-> 0]]
  /\ waiting' = {w \in waiting : w.server # s}
  /\ UNCHANGED <<replies, added, elected>>
\* Mutant: the state manager of NuRaft's example, which keeps no file.
Restart_NoStateFile(s) == /\ LoseMemory(s)
                          /\ term' = [term EXCEPT ![s] = 0]
                          /\ voted' = [voted EXCEPT ![s] = Nobody]
Restart(s) == LoseMemory(s) /\ UNCHANGED persistent

Next == \/ \E s \in Server : StartElection(s) \/ BecomeLeader(s) \/ Restart(s)
        \/ \E s, r \in Server : RequestVote(s, r) \/ AppendEntries(s, r) \/ StepDown(s, r)
        \/ \E s \in Server, op \in {"ADD", "GET"} : Replicate(s, op)
        \/ \E s \in Server, n \in 1..MaxLog : Commit(s, n)
        \/ \E w \in waiting : Timeout(w)

Spec == Init /\ [][Next]_vars

-----------------------------------------------------------------------------
(* No term has two leaders, whoever restarts between two votes.            *)
ElectionSafety == \A e, f \in elected : e[1] = f[1] => e[2] = f[2]

(* While no server has lost its log, two servers agree on every entry that *)
(* both have committed.                                                    *)
CommittedAgree == restarts = 0 =>
  \A s, r \in Server : \A i \in 1..commit[s] : i <= commit[r] =>
    i \in DOMAIN log[s] \cap DOMAIN log[r] /\ log[s][i] = log[r][i]

(* `get` never returns stale data, even right after a leader change: every *)
(* answer contains every add and every value acknowledged before the call. *)
NeverStale == \A r \in replies : r.floor \subseteq r.value

(* The same, as long as no server has lost its log.                        *)
NeverStaleWithLogs == restarts = 0 => NeverStale
=============================================================================
