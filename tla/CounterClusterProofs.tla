------------------------ MODULE CounterClusterProofs ------------------------
(***************************************************************************)
(* The elections and the logs of CounterCluster, for every set of servers  *)
(* and every bound.                                                        *)
(*                                                                         *)
(* First, no term has two leaders.                                         *)
(*                                                                         *)
(* A server keeps its vote only as long as it stays in the term, so what   *)
(* is on its disk now does not show whom it voted for in an earlier term.  *)
(* The induction therefore also says that no two candidates of a term      *)
(* share a voter, and that the voters of an elected leader are missing     *)
(* from the votes of every candidate of its term.  Every action is         *)
(* reduced to two facts about the vote it may cast (VoteStep); the         *)
(* invariant is carried over a VoteStep once, whatever the action.         *)
(***************************************************************************)
EXTENDS CounterCluster, FiniteSetTheorems, SequenceTheorems, TLAPS

ElectionTypeOK ==
  /\ term \in [Server -> Nat]
  /\ voted \in [Server -> Server \cup {Nobody}]
  /\ role \in [Server -> {"follower", "candidate", "leader"}]
  /\ votes \in [Server -> SUBSET Server]
  /\ elected \subseteq Nat \X Server

\* v can no longer vote in term t for anybody but c.
Pledged(v, t, c) == term[v] > t \/ (term[v] = t /\ voted[v] = c)

Runs(c, t) == role[c] = "candidate" /\ term[c] = t

VotesHeld == \A c \in Server : role[c] = "candidate" =>
               \A v \in votes[c] : Pledged(v, term[c], c)

NoSharedVoter == \A c, d \in Server :
  role[c] = "candidate" /\ Runs(d, term[c]) /\ c # d => votes[c] \cap votes[d] = {}

\* The majority Q made c the leader of term t, and nobody else can have it.
Chose(Q, t, c) ==
  /\ Q \in SUBSET Server /\ Majority(Q)
  /\ \A v \in Q : Pledged(v, t, c)
  /\ \A d \in Server : d # c /\ Runs(d, t) => Q \cap votes[d] = {}

ElectedByMajority == \A e \in elected : \E Q \in SUBSET Server : Chose(Q, e[1], e[2])

IndInv == /\ ElectionTypeOK /\ VotesHeld /\ NoSharedVoter
          /\ ElectedByMajority /\ ElectionSafety

-----------------------------------------------------------------------------
(* What a step may do to votes.                                            *)

\* A server gives up its vote only by going to a later term.
VoteKept == \A v \in Server :
  \/ term'[v] > term[v]
  \/ term'[v] = term[v] /\ (voted'[v] = voted[v] \/ voted[v] = Nobody)

\* v votes for c in this step, and was free to.
Casts(v, c) ==
  /\ term'[v] = term'[c] /\ voted'[v] = c
  /\ term[v] < term'[c] \/ (term[v] = term'[c] /\ voted[v] \in {Nobody, c})

\* The votes of a candidate are those it had, and those cast in this step.
VotesEarned == \A c \in Server : role'[c] = "candidate" =>
  \A v \in votes'[c] : \/ role[c] = "candidate" /\ term'[c] = term[c] /\ v \in votes[c]
                       \/ Casts(v, c)

VoteStep == ElectionTypeOK' /\ VoteKept /\ VotesEarned

LEMMA PledgeKept ==
  ASSUME ElectionTypeOK, VoteStep,
         NEW v \in Server, NEW t \in Nat, NEW c \in Server, Pledged(v, t, c)
  PROVE  Pledged(v, t, c)'
<1>1. c # Nobody
  BY ClusterConstants
<1>2. term[v] \in Nat /\ term'[v] \in Nat
  BY DEF VoteStep, ElectionTypeOK
<1> QED
  BY <1>1, <1>2 DEF VoteStep, VoteKept, Pledged

(* Whoever is pledged to c in a term does not turn up among the new votes  *)
(* of another candidate of that term.                                      *)
LEMMA PledgedCastsNoOther ==
  ASSUME ElectionTypeOK, VoteStep, NEW v \in Server, NEW c \in Server,
         NEW d \in Server, c # d, Pledged(v, term'[d], c)
  PROVE  ~Casts(v, d)
<1>1. c # Nobody
  BY ClusterConstants
<1>2. term[v] \in Nat /\ term'[d] \in Nat
  BY DEF VoteStep, ElectionTypeOK
<1> QED
  BY <1>1, <1>2 DEF Pledged, Casts

LEMMA VotesHeldNext == ElectionTypeOK /\ VotesHeld /\ VoteStep => VotesHeld'
<1> SUFFICES ASSUME ElectionTypeOK, VotesHeld, VoteStep,
                    NEW c \in Server, role'[c] = "candidate", NEW v \in votes'[c]
             PROVE  Pledged(v, term[c], c)'
  BY DEF VotesHeld
<1>1. v \in Server /\ term[c] \in Nat /\ term'[c] \in Nat
  BY DEF VoteStep, ElectionTypeOK
<1>2. CASE Casts(v, c)
  BY <1>2 DEF Casts, Pledged
<1>3. CASE role[c] = "candidate" /\ term'[c] = term[c] /\ v \in votes[c]
  <2>1. Pledged(v, term[c], c)
    BY <1>3 DEF VotesHeld
  <2>2. PICK t \in Nat : t = term[c]
    BY <1>1
  <2>3. Pledged(v, t, c)'
    BY <1>1, <2>1, <2>2, PledgeKept
  <2> QED
    BY <1>3, <2>2, <2>3 DEF Pledged
<1> QED
  BY <1>2, <1>3 DEF VoteStep, VotesEarned

LEMMA NoSharedVoterNext ==
  ElectionTypeOK /\ VotesHeld /\ NoSharedVoter /\ VoteStep => NoSharedVoter'
<1> SUFFICES ASSUME ElectionTypeOK, VotesHeld, NoSharedVoter, VoteStep,
                    NEW c \in Server, NEW d \in Server, c # d,
                    role'[c] = "candidate", role'[d] = "candidate", term'[d] = term'[c],
                    NEW v, v \in votes'[c], v \in votes'[d]
             PROVE  FALSE
  BY DEF NoSharedVoter, Runs
<1>1. v \in Server
  BY DEF VoteStep, ElectionTypeOK
<1>2. \/ role[c] = "candidate" /\ term'[c] = term[c] /\ v \in votes[c]
      \/ Casts(v, c)
  BY DEF VoteStep, VotesEarned
<1>3. \/ role[d] = "candidate" /\ term'[d] = term[d] /\ v \in votes[d]
      \/ Casts(v, d)
  BY DEF VoteStep, VotesEarned
<1>4. CASE Casts(v, c) /\ Casts(v, d)
  BY <1>4 DEF Casts
<1>5. CASE /\ role[c] = "candidate" /\ term'[c] = term[c] /\ v \in votes[c]
           /\ role[d] = "candidate" /\ term'[d] = term[d] /\ v \in votes[d]
  BY <1>5 DEF NoSharedVoter, Runs
<1>6. CASE role[c] = "candidate" /\ term'[c] = term[c] /\ v \in votes[c] /\ Casts(v, d)
  <2>1. Pledged(v, term'[d], c)
    BY <1>6 DEF VotesHeld
  <2> QED
    BY <1>1, <1>6, <2>1, PledgedCastsNoOther
<1>7. CASE role[d] = "candidate" /\ term'[d] = term[d] /\ v \in votes[d] /\ Casts(v, c)
  <2>1. Pledged(v, term'[c], d)
    BY <1>7 DEF VotesHeld
  <2> QED
    BY <1>1, <1>7, <2>1, PledgedCastsNoOther
<1> QED
  BY <1>2, <1>3, <1>4, <1>5, <1>6, <1>7

LEMMA ChoseNext ==
  ASSUME ElectionTypeOK, VoteStep,
         NEW Q, NEW t \in Nat, NEW c \in Server, Chose(Q, t, c)
  PROVE  Chose(Q, t, c)'
<1>1. Q \in SUBSET Server /\ Majority(Q) /\ \A v \in Q : Pledged(v, t, c)
  BY DEF Chose
<1>2. ASSUME NEW v \in Q PROVE Pledged(v, t, c)'
  BY <1>1, <1>2, PledgeKept
<1>3. ASSUME NEW d \in Server, d # c, role'[d] = "candidate", term'[d] = t,
             NEW v \in Q, v \in votes'[d]
      PROVE  FALSE
  <2>1. v \in Server /\ Pledged(v, term'[d], c)
    BY <1>1, <1>3
  <2>2. ~Casts(v, d)
    BY <1>3, <2>1, PledgedCastsNoOther
  <2>3. role[d] = "candidate" /\ term'[d] = term[d] /\ v \in votes[d]
    BY <1>3, <2>2 DEF VoteStep, VotesEarned
  <2> QED
    BY <1>3, <2>3 DEF Chose, Runs
<1> QED
  BY <1>1, <1>2, <1>3 DEF Chose, Runs, Majority

-----------------------------------------------------------------------------
(* Every action is a VoteStep.                                             *)

LEMMA StartElectionVotes ==
  ASSUME ElectionTypeOK, NEW s \in Server, StartElection(s)
  PROVE  VoteStep
<1>1. ElectionTypeOK'
  BY DEF ElectionTypeOK, StartElection
<1>2. VoteKept
  BY DEF VoteKept, ElectionTypeOK, StartElection
<1>3. VotesEarned
  BY DEF VotesEarned, Casts, ElectionTypeOK, StartElection
<1> QED
  BY <1>1, <1>2, <1>3 DEF VoteStep

LEMMA RequestVoteVotes ==
  ASSUME ElectionTypeOK, NEW c \in Server, NEW s \in Server, RequestVote(c, s)
  PROVE  VoteStep
<1> DEFINE grant == VoteNow(s, c) \in {Nobody, c} /\ UpToDate(c, s)
<1>1. /\ role[c] = "candidate" /\ s # c /\ term[c] >= term[s]
      /\ term' = [term EXCEPT ![s] = term[c]]
      /\ voted' = [voted EXCEPT ![s] = IF grant THEN c ELSE VoteNow(s, c)]
      /\ role' = [role EXCEPT ![s] = IF term[c] > term[s] THEN "follower" ELSE @]
      /\ grant \/ term[c] > term[s]
      /\ \/ votes' = [votes EXCEPT ![c] = IF grant THEN @ \cup {s} ELSE @]
         \/ votes' = votes
      /\ elected' = elected
  BY Zenon DEF RequestVote
<1>2. /\ VoteNow(s, c) = IF term[c] > term[s] THEN Nobody ELSE voted[s]
      /\ grant => VoteNow(s, c) \in {Nobody, c}
      /\ grant \in BOOLEAN
  BY DEF VoteNow, UpToDate
<1> HIDE DEF grant
<1>3. ElectionTypeOK'
  BY <1>1, <1>2 DEF ElectionTypeOK
<1>4. VoteKept
  BY <1>1, <1>2 DEF VoteKept, ElectionTypeOK
<1>5. VotesEarned
  BY <1>1, <1>2 DEF VotesEarned, Casts, ElectionTypeOK
<1> QED
  BY <1>3, <1>4, <1>5 DEF VoteStep

LEMMA BecomeLeaderVotes ==
  ASSUME ElectionTypeOK, NEW c \in Server, BecomeLeader(c)
  PROVE  VoteStep
<1>1. ElectionTypeOK'
  BY DEF ElectionTypeOK, BecomeLeader, persistent
<1>2. VoteKept
  BY DEF VoteKept, BecomeLeader, persistent
<1>3. VotesEarned
  BY DEF VotesEarned, ElectionTypeOK, BecomeLeader, persistent
<1> QED
  BY <1>1, <1>2, <1>3 DEF VoteStep

LEMMA AppendEntriesVotes ==
  ASSUME ElectionTypeOK, NEW l \in Server, NEW s \in Server, AppendEntries(l, s)
  PROVE  VoteStep
<1>1. ElectionTypeOK'
  BY DEF ElectionTypeOK, AppendEntries
<1>2. VoteKept
  BY DEF VoteKept, ElectionTypeOK, AppendEntries
<1>3. VotesEarned
  BY DEF VotesEarned, ElectionTypeOK, AppendEntries
<1> QED
  BY <1>1, <1>2, <1>3 DEF VoteStep

LEMMA StepDownVotes ==
  ASSUME ElectionTypeOK, NEW l \in Server, NEW s \in Server, StepDown(l, s)
  PROVE  VoteStep
<1>1. ElectionTypeOK'
  BY DEF ElectionTypeOK, StepDown
<1>2. VoteKept
  BY DEF VoteKept, ElectionTypeOK, StepDown
<1>3. VotesEarned
  BY DEF VotesEarned, ElectionTypeOK, StepDown
<1> QED
  BY <1>1, <1>2, <1>3 DEF VoteStep

\* The files survive: a restarted server is still bound by its vote.
LEMMA RestartVotes ==
  ASSUME ElectionTypeOK, NEW s \in Server, Restart(s)
  PROVE  VoteStep
<1>1. ElectionTypeOK'
  BY DEF ElectionTypeOK, Restart, LoseMemory, persistent
<1>2. VoteKept
  BY DEF VoteKept, Restart, persistent
<1>3. VotesEarned
  BY DEF VotesEarned, ElectionTypeOK, Restart, LoseMemory, persistent
<1> QED
  BY <1>1, <1>2, <1>3 DEF VoteStep

\* Commands and their answers have no part in an election.
LEMMA OtherVotes ==
  ASSUME ElectionTypeOK, UNCHANGED <<term, voted, role, votes, elected>>
  PROVE  VoteStep
<1>1. ElectionTypeOK'
  BY DEF ElectionTypeOK
<1>2. VoteKept /\ VotesEarned
  BY DEF VoteKept, VotesEarned
<1> QED
  BY <1>1, <1>2 DEF VoteStep

LEMMA NextIsVoteStep ==
  ASSUME ElectionTypeOK, [Next]_vars
  PROVE  /\ VoteStep
         /\ elected' = elected \/ \E c \in Server : BecomeLeader(c)
<1>1. ASSUME NEW s \in Server, StartElection(s) PROVE VoteStep /\ elected' = elected
  BY <1>1, StartElectionVotes DEF StartElection
<1>2. ASSUME NEW s \in Server, Restart(s) PROVE VoteStep /\ elected' = elected
  BY <1>2, RestartVotes DEF Restart, LoseMemory
<1>3. ASSUME NEW s \in Server, NEW r \in Server, RequestVote(s, r)
      PROVE  VoteStep /\ elected' = elected
  BY <1>3, RequestVoteVotes DEF RequestVote
<1>4. ASSUME NEW s \in Server, NEW r \in Server, AppendEntries(s, r)
      PROVE  VoteStep /\ elected' = elected
  BY <1>4, AppendEntriesVotes DEF AppendEntries
<1>5. ASSUME NEW s \in Server, NEW r \in Server, StepDown(s, r)
      PROVE  VoteStep /\ elected' = elected
  BY <1>5, StepDownVotes DEF StepDown
<1>6. ASSUME NEW s \in Server, NEW op, Replicate(s, op) PROVE VoteStep /\ elected' = elected
  BY <1>6, OtherVotes DEF Replicate, AppendCommand, persistent
<1>7. ASSUME NEW s \in Server, NEW n, Commit(s, n) PROVE VoteStep /\ elected' = elected
  BY <1>7, OtherVotes DEF Commit, persistent
<1>8. ASSUME NEW w, Timeout(w) PROVE VoteStep /\ elected' = elected
  BY <1>8, OtherVotes DEF Timeout, persistent, volatile
<1>9. CASE UNCHANGED vars
  BY <1>9, OtherVotes DEF vars, persistent, volatile
<1> QED
  BY <1>1, <1>2, <1>3, <1>4, <1>5, <1>6, <1>7, <1>8, <1>9, BecomeLeaderVotes DEF Next

-----------------------------------------------------------------------------
(* The invariant.                                                          *)

LEMMA InitElections == Init => IndInv
  BY DEF Init, IndInv, ElectionTypeOK, VotesHeld, NoSharedVoter, Runs,
         ElectedByMajority, ElectionSafety

(* A new leader is the first of its term: its majority and that of another *)
(* leader of the term would share a voter.                                 *)
LEMMA FirstOfItsTerm ==
  ASSUME IndInv, NEW c \in Server, BecomeLeader(c),
         NEW d \in Server, <<term[c], d>> \in elected
  PROVE  d = c
<1> SUFFICES ASSUME d # c PROVE FALSE
  OBVIOUS
<1>1. PICK Q \in SUBSET Server : Chose(Q, term[c], d)
  BY DEF IndInv, ElectedByMajority
<1>2. Majority(Q) /\ Majority(votes[c])
  BY <1>1 DEF Chose, BecomeLeader
<1>3. Q \cap votes[c] = {}
  BY <1>1 DEF Chose, Runs, BecomeLeader
<1>4. votes[c] \in SUBSET Server /\ IsFiniteSet(Server)
  BY ClusterConstants DEF IndInv, ElectionTypeOK
<1>5. Q \cap votes[c] # {}
  <2>1. /\ Cardinality(Q) \in Nat /\ Cardinality(votes[c]) \in Nat
        /\ Cardinality(Server) \in Nat
    BY <1>4, FS_Subset, FS_CardinalityType
  <2>2. Cardinality(Q) + Cardinality(votes[c]) > Cardinality(Server)
    BY <1>2, <2>1 DEF Majority
  <2> QED
    BY <1>4, <2>2, FS_MajoritiesIntersect
<1> QED
  BY <1>3, <1>5

LEMMA NextElections == IndInv /\ [Next]_vars => IndInv'
<1> SUFFICES ASSUME IndInv, [Next]_vars PROVE IndInv'
  OBVIOUS
<1>1. /\ ElectionTypeOK /\ VotesHeld /\ NoSharedVoter
      /\ ElectedByMajority /\ ElectionSafety
  BY DEF IndInv
<1>2. VoteStep
  BY <1>1, NextIsVoteStep
<1>3. ElectionTypeOK' /\ VotesHeld' /\ NoSharedVoter'
  BY <1>1, <1>2, VotesHeldNext, NoSharedVoterNext DEF VoteStep
<1>4. ASSUME NEW e \in elected PROVE \E Q \in SUBSET Server : Chose(Q, e[1], e[2])'
  <2>1. PICK Q \in SUBSET Server : Chose(Q, e[1], e[2])
    BY <1>1 DEF ElectedByMajority
  <2>2. e[1] \in Nat /\ e[2] \in Server
    BY <1>1 DEF ElectionTypeOK
  <2> QED
    BY <1>1, <1>2, <2>1, <2>2, ChoseNext
<1>5. CASE elected' = elected
  BY <1>1, <1>3, <1>4, <1>5 DEF IndInv, ElectedByMajority, ElectionSafety
<1>6. ASSUME NEW c \in Server, BecomeLeader(c) PROVE IndInv'
  <2>1. elected' = elected \cup {<<term[c], c>>}
    BY <1>6 DEF BecomeLeader
  <2>2. votes[c] \in SUBSET Server /\ term[c] \in Nat
    BY <1>1 DEF ElectionTypeOK
  <2>3. PICK Q \in SUBSET Server, t \in Nat : Q = votes[c] /\ t = term[c]
    BY <2>2
  <2>4. Chose(Q, t, c)
    <3>1. role[c] = "candidate" /\ Majority(Q)
      BY <1>6, <2>3 DEF BecomeLeader
    <3>2. \A v \in Q : Pledged(v, t, c)
      BY <1>1, <2>3, <3>1 DEF VotesHeld
    <3>3. ASSUME NEW d \in Server, d # c, Runs(d, t) PROVE Q \cap votes[d] = {}
      BY <1>1, <2>3, <3>1, <3>3 DEF NoSharedVoter
    <3> QED
      BY <3>1, <3>2, <3>3 DEF Chose
  <2>5. Chose(Q, t, c)'
    BY <1>1, <1>2, <2>4, ChoseNext
  <2>6. ElectedByMajority'
    <3>1. \A e \in elected : \E R \in SUBSET Server : Chose(R, e[1], e[2])'
      BY <1>4
    <3> QED
      BY <2>1, <2>3, <2>5, <3>1 DEF ElectedByMajority
  <2>7. ElectionSafety'
    BY <1>1, <1>6, <2>1, FirstOfItsTerm DEF ElectionSafety, ElectionTypeOK
  <2> QED
    BY <1>3, <2>6, <2>7 DEF IndInv
<1> QED
  BY <1>1, <1>5, <1>6, NextIsVoteStep

(* No term has two leaders, however many servers there are, whatever is    *)
(* lost, and whoever is killed and restarted between two votes: term and   *)
(* vote come back from the file.                                           *)
THEOREM OneLeaderPerTerm == Spec => []ElectionSafety
<1>1. IndInv => ElectionSafety
  BY DEF IndInv
<1> QED
  BY <1>1, InitElections, NextElections, PTL DEF Spec

-----------------------------------------------------------------------------
(***************************************************************************)
(* As long as no server has lost its log, the servers agree on what they   *)
(* have committed and no `get` is stale, for every set of servers and      *)
(* every bound.                                                            *)
(*                                                                         *)
(* The induction is about prefixes of logs.  A prefix p is Secured by a    *)
(* set of servers when each of them has it and has voted, in the terms     *)
(* after p, only for servers that have it, and when every entry and every  *)
(* leader of a later term comes after it.  No step but an election can     *)
(* undo that, and an election only when the winner has no vote from the    *)
(* set: never for a majority.  So a committed prefix stays secured, and    *)
(* the servers that have acknowledged an entry to its leader secure it     *)
(* until a majority that has not acknowledged it goes to a later term; the *)
(* leader is then Overtaken and commits nothing more.                      *)
(*                                                                         *)
(* A restart loses the log, and with it all of this: the invariant is      *)
(* claimed only up to the first one.                                       *)
(***************************************************************************)

Entry == [term : Nat, op : {"ADD", "GET"}, add : Nat]

LogTypeOK ==
  /\ log \in [Server -> Seq(Entry)]
  /\ commit \in [Server -> Nat]
  /\ match \in [Server -> [Server -> Nat]]
  /\ waiting \subseteq [server : Server, term : Nat, index : Nat, floor : SUBSET Nat]
  /\ replies \subseteq [floor : SUBSET Nat, value : SUBSET Nat]
  /\ added \in Nat

Leads(l, t) == role[l] = "leader" /\ term[l] = t

TermsOrdered == \A s \in Server :
  /\ \A i \in 1..Len(log[s]) : log[s][i].term <= term[s]
  /\ \A i, j \in 1..Len(log[s]) : i <= j => log[s][i].term <= log[s][j].term

\* A term begins with an election, and nobody stands in it again.
EntriesElected == \A s \in Server : \A i \in 1..Len(log[s]) :
  \E d \in Server : <<log[s][i].term, d>> \in elected
LeadersElected == \A l \in Server : role[l] = "leader" => <<term[l], l>> \in elected
RequestsElected == \A w \in waiting : <<w.term, w.server>> \in elected
NotAgain == \A e \in elected : e[1] <= term[e[2]] /\ ~Runs(e[2], e[1])

\* The first n entries of s are those of r.
Same(s, r, n) == n <= Len(log[r]) /\ \A k \in 1..n : log[r][k] = log[s][k]

\* What a log has of a term, it has as the leader of the term wrote it.
Matching == \A s, r \in Server : \A i \in 1..Len(log[s]), j \in 1..Len(log[r]) :
  i <= j /\ log[s][i].term = log[r][j].term => Same(s, r, i)
LeaderHas == \A l, r \in Server : \A i \in 1..Len(log[r]) :
  Leads(l, log[r][i].term) => Same(r, l, i)

AckedInLog == \A l, q \in Server : role[l] = "leader" => match[l][q] <= Len(log[l])

\* The entries p are the first ones of r.
Has(r, p) == Len(p) <= Len(log[r]) /\ \A k \in 1..Len(p) : log[r][k] = p[k]

\* Whatever is of a later term than p comes after p.
Future(p) ==
  /\ \A r \in Server : \A j \in 1..Len(log[r]) : log[r][j].term > LastTerm(p) => Has(r, p)
  /\ \A l \in Server : role[l] = "leader" /\ term[l] > LastTerm(p) => Has(l, p)
\* q has p, and has since then voted only for those who have it.
Backs(q, p) ==
  /\ Has(q, p)
  /\ \A c \in Server : role[c] = "candidate" /\ term[c] > LastTerm(p) /\ q \in votes[c] =>
       Has(c, p)
Secured(p, Q) == Future(p) /\ \A q \in Q : Backs(q, p)

\* A majority is in a later term, and will not acknowledge index n to l.
Overtaken(l, n) == \E Q \in SUBSET Server :
  Majority(Q) /\ \A v \in Q : term[v] > term[l] /\ match[l][v] < n
Acked(l, n) == {q \in Server : match[l][q] >= n}
First(s, n) == SubSeq(log[s], 1, n)

AckedSecured == \A l \in Server : \A n \in 1..Len(log[l]) :
  Leads(l, log[l][n].term) => Overtaken(l, n) \/ Secured(First(l, n), Acked(l, n))

CommitSecured == \A s \in Server : commit[s] > 0 =>
  /\ commit[s] <= Len(log[s])
  /\ \E Q \in SUBSET Server : Majority(Q) /\ Secured(First(s, commit[s]), Q)

RepliesCommitted == \A p \in replies : \E s \in Server : p.value \subseteq Value(log[s], commit[s])

RequestsFresh == \A w \in waiting : Leads(w.server, w.term) =>
  /\ w.index \in 1..Len(log[w.server])
  /\ Overtaken(w.server, w.index) \/ w.floor \subseteq Value(log[w.server], w.index)

LogOrder == /\ TermsOrdered /\ EntriesElected /\ LeadersElected /\ RequestsElected
            /\ NotAgain /\ Matching /\ LeaderHas /\ AckedInLog

LogInv == /\ LogTypeOK /\ LogOrder
          /\ AckedSecured /\ CommitSecured
          /\ RepliesCommitted /\ RequestsFresh /\ NeverStale

ClusterInv == /\ IndInv
              /\ restarts \in Nat
              /\ restarts = 0 => LogInv

-----------------------------------------------------------------------------
(* Prefixes of logs.                                                       *)

Prefix(p) == p \in Seq(Entry) /\ p # <<>>

LEMMA PrefixTyped ==
  ASSUME NEW p, Prefix(p)
  PROVE  /\ Len(p) \in Nat /\ Len(p) >= 1
         /\ LastTerm(p) = p[Len(p)].term /\ LastTerm(p) \in Nat
<1>1. p \in Seq(Entry) /\ p # <<>>
  BY DEF Prefix
<1>2. Len(p) \in Nat /\ Len(p) >= 1
  BY <1>1, EmptySeq
<1>3. p[Len(p)] \in Entry
  BY <1>1, <1>2, ElementOfSeq
<1> QED
  BY <1>1, <1>2, <1>3 DEF LastTerm, Entry

LEMMA PrefixIs ==
  ASSUME NEW l \in Seq(Entry), NEW n \in 1..Len(l)
  PROVE  /\ Prefix(SubSeq(l, 1, n)) /\ Len(SubSeq(l, 1, n)) = n
         /\ \A k \in 1..n : SubSeq(l, 1, n)[k] = l[k]
         /\ LastTerm(SubSeq(l, 1, n)) = l[n].term
<1>1. Len(l) \in Nat /\ n \in Nat /\ n \in Int /\ 1 \in Int /\ 1 <= n
  BY LenProperties
<1>2. \A i \in 1..n : l[i] \in Entry
  BY <1>1, ElementOfSeq
<1>3. /\ SubSeq(l, 1, n) \in Seq(Entry)
      /\ Len(SubSeq(l, 1, n)) = IF 1 <= n THEN n - 1 + 1 ELSE 0
      /\ \A i \in 1..n - 1 + 1 : SubSeq(l, 1, n)[i] = l[1 + i - 1]
  BY <1>1, <1>2, SubSeqProperties
<1>4. DEFINE p == SubSeq(l, 1, n)
<1> HIDE DEF p
<1>5. p \in Seq(Entry) /\ Len(p) = n /\ \A i \in 1..n : p[i] = l[i]
  BY <1>1, <1>3 DEF p
<1>6. p # <<>>
  BY <1>1, <1>5, EmptySeq
<1>7. LastTerm(p) = l[n].term
  BY <1>1, <1>5, <1>6 DEF LastTerm
<1> QED
  BY <1>5, <1>6, <1>7 DEF Prefix, p

LEMMA SamePrefix ==
  ASSUME NEW l \in Seq(Entry), NEW m \in Seq(Entry),
         NEW n \in 1..Len(l), n <= Len(m), \A k \in 1..n : m[k] = l[k]
  PROVE  SubSeq(m, 1, n) = SubSeq(l, 1, n)
<1>1. Len(l) \in Nat /\ Len(m) \in Nat /\ n \in 1..Len(m)
  BY LenProperties
<1>2. /\ SubSeq(l, 1, n) \in Seq(Entry) /\ Len(SubSeq(l, 1, n)) = n
      /\ \A k \in 1..n : SubSeq(l, 1, n)[k] = l[k]
  BY PrefixIs DEF Prefix
<1>3. /\ SubSeq(m, 1, n) \in Seq(Entry) /\ Len(SubSeq(m, 1, n)) = n
      /\ \A k \in 1..n : SubSeq(m, 1, n)[k] = m[k]
  BY <1>1, PrefixIs DEF Prefix
<1> QED
  BY <1>2, <1>3, SeqEqual

\* What a log counts, a longer one with the same entries counts as well.
LEMMA ValueGrows ==
  ASSUME NEW l \in Seq(Entry), NEW m \in Seq(Entry), NEW n \in Nat, NEW k \in Nat,
         n <= Len(l), n <= Len(m), n <= k, \A i \in 1..n : m[i] = l[i]
  PROVE  Value(l, n) \subseteq Value(m, k)
<1>1. /\ Len(l) \in Nat /\ Len(m) \in Nat
      /\ DOMAIN l = 1..Len(l) /\ DOMAIN m = 1..Len(m)
  BY LenProperties
<1>2. ASSUME NEW i \in DOMAIN l, i <= n, l[i].op = "ADD"
      PROVE  i \in DOMAIN m /\ i <= k /\ m[i].op = "ADD" /\ m[i].add = l[i].add
  BY <1>1, <1>2
<1> QED
  BY <1>2 DEF Value

LEMMA LogTyped ==
  ASSUME LogTypeOK, NEW s \in Server
  PROVE  /\ log[s] \in Seq(Entry) /\ Len(log[s]) \in Nat
         /\ \A i \in 1..Len(log[s]) : log[s][i] \in Entry /\ log[s][i].term \in Nat
<1>1. log[s] \in Seq(Entry)
  BY DEF LogTypeOK
<1>2. Len(log[s]) \in Nat
  BY <1>1, LenProperties
<1>3. \A i \in 1..Len(log[s]) : log[s][i] \in Entry
  BY <1>1, ElementOfSeq
<1> QED
  BY <1>1, <1>2, <1>3 DEF Entry

LEMMA FirstIs ==
  ASSUME LogTypeOK, NEW s \in Server, NEW n \in 1..Len(log[s])
  PROVE  /\ Prefix(First(s, n)) /\ Len(First(s, n)) = n
         /\ \A k \in 1..n : First(s, n)[k] = log[s][k]
         /\ LastTerm(First(s, n)) = log[s][n].term
         /\ Has(s, First(s, n))
<1>1. log[s] \in Seq(Entry) /\ Len(log[s]) \in Nat
  BY LogTyped
<1> QED
  BY <1>1, PrefixIs DEF First, Has

\* A server has the last entry of a prefix it has, and every one before.
LEMMA HasLast ==
  ASSUME LogTypeOK, NEW r \in Server, NEW p, Prefix(p), Has(r, p)
  PROVE  /\ Len(p) \in 1..Len(log[r])
         /\ log[r][Len(p)].term = LastTerm(p)
  BY PrefixTyped, LogTyped DEF Has

LEMMA HasBySame ==
  ASSUME LogTypeOK, NEW r \in Server, NEW q \in Server, NEW p, Prefix(p),
         Has(q, p), Same(q, r, Len(p))
  PROVE  Has(r, p)
  BY PrefixTyped DEF Has, Same

\* Terms only grow along a log.
LEMMA LastTermBounds ==
  ASSUME LogTypeOK, TermsOrdered, NEW r \in Server
  PROVE  /\ LastTerm(log[r]) \in Nat
         /\ log[r] # <<>> => /\ Len(log[r]) \in 1..Len(log[r])
                             /\ log[r][Len(log[r])].term = LastTerm(log[r])
         /\ \A i \in 1..Len(log[r]) : log[r][i].term <= LastTerm(log[r])
<1>1. /\ log[r] \in Seq(Entry) /\ Len(log[r]) \in Nat
      /\ \A i \in 1..Len(log[r]) : log[r][i].term \in Nat
  BY LogTyped
<1>2. CASE log[r] = <<>>
  BY <1>1, <1>2, EmptySeq DEF LastTerm
<1>3. CASE log[r] # <<>>
  <2>1. Len(log[r]) >= 1
    BY <1>1, <1>3, EmptySeq
  <2>2. LastTerm(log[r]) = log[r][Len(log[r])].term
    BY <1>3 DEF LastTerm
  <2>3. Len(log[r]) \in 1..Len(log[r])
    BY <1>1, <2>1
  <2>4. \A i \in 1..Len(log[r]) : log[r][i].term <= log[r][Len(log[r])].term
    BY <1>1, <2>3 DEF TermsOrdered
  <2> QED
    BY <1>1, <1>3, <2>2, <2>3, <2>4
<1> QED
  BY <1>2, <1>3

-----------------------------------------------------------------------------
(* What a step may do to roles and logs.                                   *)

LeadersKept == \A l \in Server :
  role'[l] = "leader" => role[l] = "leader" /\ term'[l] = term[l]
CandidatesKept == \A c \in Server :
  role'[c] = "candidate" => role[c] = "candidate" /\ term'[c] = term[c]

\* Whoever stands for election does so in a new term.
StandsAnew == \A c \in Server : role'[c] = "candidate" =>
  \/ role[c] = "candidate" /\ term'[c] = term[c]
  \/ term'[c] > term[c]

\* A voter has seen that the log of the candidate is no older than its own.
VotesInformed == \A c \in Server : role'[c] = "candidate" => \A v \in votes'[c] :
  \/ role[c] = "candidate" /\ term'[c] = term[c] /\ v \in votes[c]
  \/ v = c \/ UpToDate(c, v)

\* Logs and acknowledgements stay as they are.
Quiet == log' = log /\ match' = match /\ LeadersKept /\ VotesInformed

LEMMA SecuredQuiet ==
  ASSUME LogTypeOK, TermsOrdered, Matching, ElectionTypeOK, ElectionTypeOK',
         NEW p, Prefix(p), NEW Q \in SUBSET Server, Secured(p, Q), Quiet
  PROVE  Secured(p, Q)'
<1>1. log' = log /\ LeadersKept /\ VotesInformed
  BY DEF Quiet
<1>2. Future(p)
  BY DEF Secured
<1>3. \A r \in Server : Has(r, p) => Has(r, p)'
  BY <1>1 DEF Has
<1>4. Future(p)'
  <2>1. \A r \in Server : \A j \in 1..Len(log'[r]) : log'[r][j].term > LastTerm(p) => Has(r, p)'
    BY <1>1, <1>2, <1>3 DEF Future
  <2>2. \A l \in Server : role'[l] = "leader" /\ term'[l] > LastTerm(p) => Has(l, p)'
    BY <1>1, <1>2, <1>3 DEF Future, LeadersKept
  <2> QED
    BY <2>1, <2>2 DEF Future
<1>5. ASSUME NEW q \in Q PROVE Backs(q, p)'
  <2>1. Has(q, p) /\ Backs(q, p) /\ q \in Server
    BY DEF Secured, Backs
  <2>2. ASSUME NEW c \in Server, role'[c] = "candidate", term'[c] > LastTerm(p), q \in votes'[c]
        PROVE  Has(c, p)
    <3>1. CASE role[c] = "candidate" /\ term'[c] = term[c] /\ q \in votes[c]
      BY <2>1, <2>2, <3>1 DEF Backs
    <3>2. CASE q = c
      BY <2>1, <3>2
    <3>3. CASE UpToDate(c, q)
      <4>1. /\ Len(p) \in 1..Len(log[q]) /\ log[q][Len(p)].term = LastTerm(p)
            /\ LastTerm(p) \in Nat
        BY <2>1, HasLast, PrefixTyped
      <4>2. log[q] # <<>> /\ Len(log[q]) \in Nat /\ Len(log[c]) \in Nat
        BY <4>1, LogTyped, <2>1, EmptySeq
      <4>3. /\ LastTerm(p) <= LastTerm(log[q])
            /\ LastTerm(log[q]) \in Nat
        BY <2>1, <4>1, <4>2, LastTermBounds
      <4>4. log[c] # <<>> /\ LastTerm(log[c]) \in Nat
        <5>1. CASE log[c] = <<>>
          BY <3>3, <4>1, <4>2, <4>3, <5>1, EmptySeq DEF UpToDate, LastTerm
        <5> QED
          BY <5>1, LastTermBounds
      <4>5. /\ Len(log[c]) \in 1..Len(log[c])
            /\ log[c][Len(log[c])].term = LastTerm(log[c])
        BY <4>4, LastTermBounds
      <4>6. CASE LastTerm(log[c]) > LastTerm(p)
        BY <1>2, <4>5, <4>6 DEF Future
      <4>7. CASE ~(LastTerm(log[c]) > LastTerm(p))
        <5>1. /\ LastTerm(log[c]) = LastTerm(p)
              /\ Len(log[c]) >= Len(log[q])
          BY <3>3, <4>1, <4>3, <4>4, <4>7 DEF UpToDate
        <5>2. Len(p) <= Len(log[c])
          BY <4>1, <4>2, <5>1
        <5>3. Same(q, c, Len(p))
          BY <2>1, <4>1, <4>5, <5>1, <5>2 DEF Matching
        <5> QED
          BY <2>1, <5>3, HasBySame
      <4> QED
        BY <4>6, <4>7
    <3> QED
      BY <1>1, <2>2, <3>1, <3>2, <3>3 DEF VotesInformed
  <2> QED
    BY <1>3, <2>1, <2>2 DEF Backs
<1> QED
  BY <1>4, <1>5 DEF Secured

-----------------------------------------------------------------------------
(* A leader appends.                                                       *)

Appends(l) ==
  /\ role[l] = "leader"
  /\ \A r \in Server : r # l => log'[r] = log[r]
  /\ log'[l] \in Seq(Entry) /\ Len(log'[l]) = Len(log[l]) + 1
  /\ \A k \in 1..Len(log[l]) : log'[l][k] = log[l][k]
  /\ log'[l][Len(log[l]) + 1].term = term[l]
  /\ \A r, q \in Server : match'[r][q] = IF r = l /\ q = l THEN Len(log[l]) + 1 ELSE match[r][q]
  /\ UNCHANGED <<term, role, votes, commit, elected, replies, restarts>>

LEMMA AppendCommandAppends ==
  ASSUME LogTypeOK, ElectionTypeOK, NEW l \in Server, NEW op \in {"ADD", "GET"},
         AppendCommand(l, op)
  PROVE  /\ Appends(l) /\ LogTypeOK'
         /\ waiting' = waiting \cup {[server |-> l, term |-> term[l],
                                      index |-> Len(log[l]) + 1, floor |-> Acknowledged]}
<1> DEFINE e == [term |-> term[l], op |-> op, add |-> added']
<1>1. /\ role[l] = "leader"
      /\ added' = IF op = "ADD" THEN added + 1 ELSE added
      /\ log' = [log EXCEPT ![l] = Append(log[l], e)]
      /\ match' = [match EXCEPT ![l] = [match[l] EXCEPT ![l] = Len(log'[l])]]
      /\ waiting' = waiting \cup {[server |-> l, term |-> term[l],
                                   index |-> Len(log'[l]), floor |-> Acknowledged]}
      /\ UNCHANGED <<term, role, votes, commit, elected, replies, restarts>>
  BY Zenon DEF AppendCommand, persistent
<1>2. added' \in Nat /\ term[l] \in Nat
  BY <1>1 DEF LogTypeOK, ElectionTypeOK
<1>3. e \in Entry
  BY <1>2 DEF Entry
<1>4. e.term = term[l]
  OBVIOUS
<1> HIDE DEF e
<1>5. log \in [Server -> Seq(Entry)] /\ log[l] \in Seq(Entry) /\ Len(log[l]) \in Nat
  BY LogTyped DEF LogTypeOK
<1>6. /\ log'[l] = Append(log[l], e)
      /\ \A r \in Server : r # l => log'[r] = log[r]
  BY <1>1, <1>5
<1>7. /\ log'[l] \in Seq(Entry) /\ Len(log'[l]) = Len(log[l]) + 1
      /\ \A k \in 1..Len(log[l]) : log'[l][k] = log[l][k]
      /\ log'[l][Len(log[l]) + 1] = e
  BY <1>3, <1>5, <1>6, AppendProperties
<1>8. /\ \A r, q \in Server :
           match'[r][q] = IF r = l /\ q = l THEN Len(log[l]) + 1 ELSE match[r][q]
      /\ match' \in [Server -> [Server -> Nat]]
  BY <1>1, <1>5, <1>7, SMTT(60) DEF LogTypeOK
<1>9. Appends(l)
  BY <1>1, <1>4, <1>6, <1>7, <1>8 DEF Appends
<1>10. waiting' = waiting \cup {[server |-> l, term |-> term[l],
                                 index |-> Len(log[l]) + 1, floor |-> Acknowledged]}
  BY <1>1, <1>7
<1>11. log' \in [Server -> Seq(Entry)]
  BY <1>1, <1>3, <1>5, <1>6, <1>7
<1>12. Acknowledged \in SUBSET Nat
  BY DEF LogTypeOK, Acknowledged
<1>13. waiting' \subseteq [server : Server, term : Nat, index : Nat, floor : SUBSET Nat]
  <2>1. Len(log[l]) + 1 \in Nat
    BY <1>5
  <2>2. [server |-> l, term |-> term[l], index |-> Len(log[l]) + 1, floor |-> Acknowledged]
          \in [server : Server, term : Nat, index : Nat, floor : SUBSET Nat]
    BY <1>2, <2>1, <1>12
  <2> QED
    BY <2>2, <1>10 DEF LogTypeOK
<1>14. /\ commit' \in [Server -> Nat]
       /\ replies' \subseteq [floor : SUBSET Nat, value : SUBSET Nat]
  BY <1>1 DEF LogTypeOK
<1> QED
  BY <1>2, <1>8, <1>9, <1>10, <1>11, <1>13, <1>14 DEF LogTypeOK

LEMMA HasAfterAppend ==
  ASSUME LogTypeOK, NEW l \in Server, Appends(l), NEW r \in Server, NEW p, Has(r, p), Prefix(p)
  PROVE  Has(r, p)'
<1>1. Len(log[r]) \in Nat /\ Len(p) \in Nat /\ Len(p) <= Len(log[r])
  BY LogTyped, PrefixTyped DEF Has
<1>2. \A k \in 1..Len(p) : log'[r][k] = p[k]
  BY <1>1 DEF Has, Appends
<1>3. Len(p) <= Len(log'[r])
  BY <1>1 DEF Appends
<1> QED
  BY <1>2, <1>3 DEF Has

LEMMA SecuredAppend ==
  ASSUME LogTypeOK, ElectionTypeOK, NEW l \in Server, Appends(l),
         NEW p, Prefix(p), NEW Q \in SUBSET Server, Secured(p, Q)
  PROVE  Secured(p, Q)'
<1>1. \A r \in Server : Has(r, p) => Has(r, p)'
  BY HasAfterAppend
<1>2. Future(p) /\ term' = term /\ role' = role /\ votes' = votes
  BY DEF Secured, Appends
<1>3. ASSUME NEW r \in Server, NEW j \in 1..Len(log'[r]), log'[r][j].term > LastTerm(p)
      PROVE  Has(r, p)
  <2>1. CASE r # l
    BY <1>2, <1>3, <2>1 DEF Future, Appends
  <2>2. CASE r = l
    <3>1. Len(log[l]) \in Nat /\ Len(log'[l]) = Len(log[l]) + 1
      BY LogTyped DEF Appends
    <3>2. CASE j \in 1..Len(log[l])
      BY <1>2, <1>3, <2>2, <3>2 DEF Future, Appends
    <3>3. CASE j = Len(log[l]) + 1
      <4>1. role[l] = "leader" /\ term[l] > LastTerm(p)
        BY <1>3, <2>2, <3>3 DEF Appends
      <4> QED
        BY <1>2, <2>2, <4>1 DEF Future
    <3> QED
      BY <1>3, <2>2, <3>1, <3>2, <3>3
  <2> QED
    BY <2>1, <2>2
<1>4. Future(p)'
  BY <1>1, <1>2, <1>3 DEF Future
<1>5. \A q \in Q : Backs(q, p)'
  BY <1>1, <1>2 DEF Secured, Backs
<1> QED
  BY <1>4, <1>5 DEF Secured

-----------------------------------------------------------------------------
(* A leader brings another server up to its own log.                       *)

Copies(l, r) ==
  /\ role[l] = "leader" /\ r # l /\ term[l] >= term[r]
  /\ \A s \in Server : s # r =>
       log'[s] = log[s] /\ commit'[s] = commit[s] /\ role'[s] = role[s] /\ term'[s] = term[s]
  /\ log'[r] = log[l] /\ term'[r] = term[l] /\ role'[r] = "follower"
  /\ commit'[r] = IF commit[l] > commit[r] THEN commit[l] ELSE commit[r]
  /\ \A s, q \in Server : \/ match'[s][q] = match[s][q]
                          \/ s = l /\ q = r /\ match'[s][q] = Len(log[l])
  /\ UNCHANGED <<votes, waiting, replies, elected, restarts>>

LEMMA AppendEntriesCopies ==
  ASSUME LogTypeOK, ElectionTypeOK, NEW l \in Server, NEW r \in Server, AppendEntries(l, r)
  PROVE  Copies(l, r) /\ LogTypeOK'
<1>1. /\ role[l] = "leader" /\ r # l /\ term[l] >= term[r]
      /\ term' = [term EXCEPT ![r] = term[l]]
      /\ role' = [role EXCEPT ![r] = "follower"]
      /\ log' = [log EXCEPT ![r] = log[l]]
      /\ commit' = [commit EXCEPT ![r] = IF commit[l] > commit[r] THEN commit[l] ELSE commit[r]]
      /\ \/ match' = [match EXCEPT ![l] = [match[l] EXCEPT ![r] = Len(log[l])]]
         \/ match' = match
      /\ UNCHANGED <<votes, waiting, replies, added, elected, restarts>>
  BY Zenon DEF AppendEntries, clients
<1>2. log[l] \in Seq(Entry) /\ Len(log[l]) \in Nat
  BY LogTyped
<1>3. /\ \A s, q \in Server : \/ match'[s][q] = match[s][q]
                              \/ s = l /\ q = r /\ match'[s][q] = Len(log[l])
      /\ match' \in [Server -> [Server -> Nat]]
  <2>1. match \in [Server -> [Server -> Nat]]
    BY DEF LogTypeOK
  <2>2. CASE match' = [match EXCEPT ![l] = [match[l] EXCEPT ![r] = Len(log[l])]]
    <3>1. /\ match'[l] = [match[l] EXCEPT ![r] = Len(log[l])]
          /\ \A s \in Server : s # l => match'[s] = match[s]
      BY <2>1, <2>2
    <3>2. match[l] \in [Server -> Nat]
      BY <2>1
    <3> QED
      BY <1>2, <2>1, <2>2, <3>1, <3>2
  <2> QED
    BY <1>1, <2>1, <2>2
<1>4. log' \in [Server -> Seq(Entry)]
  BY <1>1, <1>2 DEF LogTypeOK
<1>5. commit' \in [Server -> Nat]
  BY <1>1 DEF LogTypeOK
<1>6. /\ log'[r] = log[l] /\ term'[r] = term[l] /\ role'[r] = "follower"
      /\ commit'[r] = IF commit[l] > commit[r] THEN commit[l] ELSE commit[r]
  BY <1>1 DEF LogTypeOK, ElectionTypeOK
<1>7. \A s \in Server : s # r =>
        log'[s] = log[s] /\ commit'[s] = commit[s] /\ role'[s] = role[s] /\ term'[s] = term[s]
  BY <1>1 DEF LogTypeOK, ElectionTypeOK
<1>8. Copies(l, r)
  BY <1>1, <1>3, <1>6, <1>7 DEF Copies
<1> QED
  BY <1>1, <1>3, <1>4, <1>5, <1>8 DEF LogTypeOK

(* A leader no earlier than the term of a server has what that server has  *)
(* of a prefix which all later entries follow.                             *)
LEMMA LeaderCaughtUp ==
  ASSUME LogTypeOK, ElectionTypeOK, TermsOrdered, LeaderHas, NEW p, Prefix(p), Future(p),
         NEW l \in Server, NEW r \in Server, role[l] = "leader",
         term[l] >= LastTerm(p), Has(r, p)
  PROVE  Has(l, p)
<1>1. /\ Len(p) \in 1..Len(log[r]) /\ log[r][Len(p)].term = LastTerm(p)
      /\ LastTerm(p) \in Nat /\ term[l] \in Nat
  BY HasLast, PrefixTyped DEF ElectionTypeOK
<1>2. CASE term[l] > LastTerm(p)
  BY <1>2 DEF Future
<1>3. CASE term[l] = LastTerm(p)
  <2>1. Same(r, l, Len(p))
    BY <1>1, <1>3 DEF LeaderHas, Leads
  <2> QED
    BY <2>1, HasBySame
<1> QED
  BY <1>1, <1>2, <1>3

LEMMA HasAfterCopy ==
  ASSUME LogTypeOK, ElectionTypeOK, TermsOrdered, LeaderHas, NEW p, Prefix(p), Future(p),
         NEW l \in Server, NEW r \in Server, Copies(l, r), NEW s \in Server, Has(s, p)
  PROVE  Has(s, p)'
<1>1. CASE s # r
  BY <1>1 DEF Copies, Has
<1>2. CASE s = r
  <2>1. Len(p) \in 1..Len(log[r]) /\ log[r][Len(p)].term = LastTerm(p)
    BY <1>2, HasLast
  <2>2. LastTerm(p) <= term[r] /\ term[l] >= term[r]
    BY <2>1 DEF TermsOrdered, Copies
  <2>3. term[l] \in Nat /\ term[r] \in Nat /\ LastTerm(p) \in Nat
    BY PrefixTyped DEF ElectionTypeOK
  <2>4. Has(l, p)
    BY <1>2, <2>2, <2>3, LeaderCaughtUp DEF Copies
  <2> QED
    BY <1>2, <2>4 DEF Copies, Has
<1> QED
  BY <1>1, <1>2

LEMMA SecuredCopy ==
  ASSUME LogTypeOK, ElectionTypeOK, TermsOrdered, LeaderHas,
         NEW l \in Server, NEW r \in Server, Copies(l, r),
         NEW p, Prefix(p), NEW Q \in SUBSET Server, Secured(p, Q)
  PROVE  Secured(p, Q)'
<1>1. Future(p)
  BY DEF Secured
<1>2. \A s \in Server : Has(s, p) => Has(s, p)'
  BY <1>1, HasAfterCopy
<1>3. Has(l, p) => Has(r, p)'
  BY DEF Copies, Has
<1>4. ASSUME NEW s \in Server, NEW j \in 1..Len(log'[s]), log'[s][j].term > LastTerm(p)
      PROVE  Has(s, p)'
  <2>1. CASE s # r
    BY <1>1, <1>2, <1>4, <2>1 DEF Copies, Future
  <2>2. CASE s = r
    BY <1>1, <1>3, <1>4, <2>2 DEF Copies, Future
  <2> QED
    BY <2>1, <2>2
<1>5. ASSUME NEW s \in Server, role'[s] = "leader", term'[s] > LastTerm(p)
      PROVE  Has(s, p)'
  <2>1. s # r
    BY <1>5 DEF Copies
  <2> QED
    BY <1>1, <1>2, <1>5, <2>1 DEF Copies, Future
<1>6. ASSUME NEW q \in Q PROVE Backs(q, p)'
  <2>1. Backs(q, p)
    BY DEF Secured
  <2>2. ASSUME NEW c \in Server, role'[c] = "candidate", term'[c] > LastTerm(p), q \in votes'[c]
        PROVE  Has(c, p)'
    <3>1. c # r
      BY <2>2 DEF Copies
    <3> QED
      BY <1>2, <2>1, <2>2, <3>1 DEF Copies, Backs
  <2> QED
    BY <1>2, <2>1, <2>2 DEF Backs
<1> QED
  BY <1>4, <1>5, <1>6 DEF Secured, Future

-----------------------------------------------------------------------------
(* A candidate wins.                                                       *)

Wins(c) ==
  /\ role[c] = "candidate" /\ Majority(votes[c])
  /\ \A s \in Server : s # c => role'[s] = role[s] /\ match'[s] = match[s]
  /\ role'[c] = "leader"
  /\ \A q \in Server : match'[c][q] <= Len(log[c])
  /\ elected' = elected \cup {<<term[c], c>>}
  /\ UNCHANGED <<term, votes, log, commit, waiting, replies, restarts>>

LEMMA BecomeLeaderWins ==
  ASSUME LogTypeOK, ElectionTypeOK, NEW c \in Server, BecomeLeader(c)
  PROVE  Wins(c) /\ LogTypeOK'
<1>1. /\ role[c] = "candidate" /\ Majority(votes[c])
      /\ role' = [role EXCEPT ![c] = "leader"]
      /\ match' = [match EXCEPT ![c] = [r \in Server |-> IF r = c THEN Len(log[c]) ELSE 0]]
      /\ elected' = elected \cup {<<term[c], c>>}
      /\ UNCHANGED <<term, votes, log, commit, waiting, replies, added, restarts>>
  BY Zenon DEF BecomeLeader, persistent, clients
<1>2. log[c] \in Seq(Entry) /\ Len(log[c]) \in Nat
  BY LogTyped
<1>3. /\ \A s \in Server : s # c => match'[s] = match[s]
      /\ \A q \in Server : match'[c][q] <= Len(log[c])
      /\ match' \in [Server -> [Server -> Nat]]
  BY <1>1, <1>2 DEF LogTypeOK
<1>4. Wins(c)
  BY <1>1, <1>3 DEF Wins, ElectionTypeOK
<1> QED
  BY <1>1, <1>3, <1>4 DEF LogTypeOK

\* The winner has p when one of its voters backs p.
LEMMA SecuredWin ==
  ASSUME LogTypeOK, ElectionTypeOK, NEW c \in Server, Wins(c),
         NEW p, Prefix(p), NEW Q \in SUBSET Server, Secured(p, Q),
         term[c] > LastTerm(p) => votes[c] \cap Q # {}
  PROVE  Secured(p, Q)'
<1>1. \A s \in Server : Has(s, p)' <=> Has(s, p)
  BY DEF Wins, Has
<1>2. Future(p) /\ \A q \in Q : Backs(q, p)
  BY DEF Secured
<1>3. term[c] > LastTerm(p) => Has(c, p)
  BY <1>2 DEF Backs, Wins
<1>4. Future(p)'
  <2>1. \A r \in Server : \A j \in 1..Len(log'[r]) : log'[r][j].term > LastTerm(p) => Has(r, p)'
    BY <1>1, <1>2 DEF Future, Wins
  <2>2. \A l \in Server : role'[l] = "leader" /\ term'[l] > LastTerm(p) => Has(l, p)'
    BY <1>1, <1>2, <1>3 DEF Future, Wins
  <2> QED
    BY <2>1, <2>2 DEF Future
<1>5. \A q \in Q : Backs(q, p)'
  BY <1>1, <1>2 DEF Backs, Wins
<1> QED
  BY <1>4, <1>5 DEF Secured

-----------------------------------------------------------------------------
(* Majorities.                                                             *)

LEMMA MajoritiesMeet ==
  ASSUME NEW Q \in SUBSET Server, NEW R \in SUBSET Server, Majority(Q), Majority(R)
  PROVE  Q \cap R # {}
<1>1. /\ Cardinality(Q) \in Nat /\ Cardinality(R) \in Nat /\ Cardinality(Server) \in Nat
      /\ IsFiniteSet(Server)
  BY FS_Subset, FS_CardinalityType, ClusterConstants
<1>2. Cardinality(Q) + Cardinality(R) > Cardinality(Server)
  BY <1>1 DEF Majority
<1> QED
  BY <1>1, <1>2, FS_MajoritiesIntersect

LEMMA OvertakenCannotCommit ==
  ASSUME LogTypeOK, NEW l \in Server, NEW n \in Nat, NEW m \in Nat, n <= m,
         Overtaken(l, n), Majority(Acked(l, m))
  PROVE  FALSE
<1>1. PICK Q \in SUBSET Server :
        Majority(Q) /\ \A v \in Q : term[v] > term[l] /\ match[l][v] < n
  BY DEF Overtaken
<1>2. Acked(l, m) \in SUBSET Server
  BY DEF Acked
<1>3. PICK v \in Server : v \in Q /\ v \in Acked(l, m)
  BY <1>1, <1>2, MajoritiesMeet
<1>4. match[l][v] \in Nat
  BY DEF LogTypeOK
<1> QED
  BY <1>1, <1>3, <1>4 DEF Acked

LEMMA OvertakenKept ==
  ASSUME ElectionTypeOK, ElectionTypeOK', NEW l \in Server, NEW n, Overtaken(l, n),
         term'[l] = term[l],
         \A v \in Server : term'[v] >= term[v],
         \A v \in Server : term[v] > term[l] => match'[l][v] = match[l][v]
  PROVE  Overtaken(l, n)'
<1>1. PICK Q \in SUBSET Server :
        Majority(Q) /\ \A v \in Q : term[v] > term[l] /\ match[l][v] < n
  BY DEF Overtaken
<1>2. ASSUME NEW v \in Q PROVE term'[v] > term'[l] /\ match'[l][v] < n
  BY <1>1 DEF ElectionTypeOK
<1> QED
  BY <1>1, <1>2 DEF Overtaken, Majority

\* An election in a later term has taken a majority away from l.
LEMMA OvertakenByElection ==
  ASSUME IndInv, NEW l \in Server, NEW n, NEW e \in elected, e[1] > term[l],
         \A v \in Server : term[v] > term[l] => match[l][v] < n
  PROVE  Overtaken(l, n)
<1>1. PICK Q \in SUBSET Server : Chose(Q, e[1], e[2])
  BY DEF IndInv, ElectedByMajority
<1>2. Majority(Q) /\ \A v \in Q : Pledged(v, e[1], e[2])
  BY <1>1 DEF Chose
<1>3. term[l] \in Nat /\ e[1] \in Nat /\ \A v \in Server : term[v] \in Nat
  BY DEF IndInv, ElectionTypeOK
<1>4. ASSUME NEW v \in Q PROVE term[v] > term[l]
  BY <1>2, <1>3 DEF Pledged
<1> QED
  BY <1>1, <1>2, <1>4 DEF Overtaken

-----------------------------------------------------------------------------
(* Terms, elections and the shape of the logs, step by step.               *)

TermsGrow == \A s \in Server : term'[s] >= term[s]

LEMMA NotAgainKept ==
  ASSUME ElectionTypeOK, ElectionTypeOK', NotAgain, StandsAnew, TermsGrow, elected' = elected
  PROVE  NotAgain'
<1> SUFFICES ASSUME NEW e \in elected
             PROVE  /\ e[1] <= term'[e[2]]
                    /\ ~(role'[e[2]] = "candidate" /\ term'[e[2]] = e[1])
  BY DEF NotAgain, Runs
<1>1. e[1] \in Nat /\ e[2] \in Server
  BY DEF ElectionTypeOK
<1>2. /\ e[1] <= term[e[2]] /\ ~(role[e[2]] = "candidate" /\ term[e[2]] = e[1])
      /\ term[e[2]] \in Nat /\ term'[e[2]] \in Nat /\ term'[e[2]] >= term[e[2]]
  BY <1>1 DEF NotAgain, Runs, ElectionTypeOK, TermsGrow
<1>3. role'[e[2]] = "candidate" =>
        (role[e[2]] = "candidate" /\ term'[e[2]] = term[e[2]]) \/ term'[e[2]] > term[e[2]]
  BY <1>1 DEF StandsAnew
<1> QED
  BY <1>1, <1>2, <1>3

LEMMA QuietOrder ==
  ASSUME LogTypeOK, ElectionTypeOK, ElectionTypeOK', LogOrder, StandsAnew, TermsGrow,
         Quiet, elected' = elected, waiting' \subseteq waiting
  PROVE  LogOrder'
<1> USE DEF LogOrder
<1>1. log' = log /\ match' = match /\ LeadersKept
  BY DEF Quiet
<1>2. TermsOrdered'
  <2>1. ASSUME NEW s \in Server, NEW i \in 1..Len(log[s]) PROVE log[s][i].term <= term'[s]
    <3>1. log[s][i].term \in Nat /\ term[s] \in Nat /\ term'[s] \in Nat
      BY LogTyped DEF ElectionTypeOK
    <3> QED
      BY <3>1 DEF TermsOrdered, TermsGrow
  <2> QED
    BY <1>1, <2>1 DEF TermsOrdered
<1>3. EntriesElected' /\ RequestsElected'
  BY <1>1 DEF EntriesElected, RequestsElected
<1>4. LeadersElected'
  BY <1>1 DEF LeadersElected, LeadersKept
<1>5. NotAgain'
  BY NotAgainKept
<1>6. Matching'
  BY <1>1 DEF Matching, Same
<1>7. LeaderHas'
  BY <1>1 DEF LeaderHas, LeadersKept, Leads, Same
<1>8. AckedInLog'
  BY <1>1 DEF AckedInLog, LeadersKept
<1> QED
  BY <1>2, <1>3, <1>4, <1>5, <1>6, <1>7, <1>8

\* No entry and no request is of the term of a candidate.
LEMMA NothingOfItsTerm ==
  ASSUME IndInv, LogOrder, NEW c \in Server, BecomeLeader(c)
  PROVE  /\ \A d \in Server : <<term[c], d>> \notin elected
         /\ \A s \in Server : \A i \in 1..Len(log[s]) : log[s][i].term # term[c]
<1>1. role[c] = "candidate"
  BY DEF BecomeLeader
<1>2. ASSUME NEW d \in Server, <<term[c], d>> \in elected PROVE FALSE
  <2>1. <<term[c], c>> \in elected
    BY <1>2, FirstOfItsTerm
  <2> QED
    BY <1>1, <2>1 DEF LogOrder, NotAgain, Runs
<1> QED
  BY <1>2 DEF LogOrder, EntriesElected

LEMMA WinOrder ==
  ASSUME LogTypeOK, IndInv, LogOrder, NEW c \in Server, BecomeLeader(c), Wins(c)
  PROVE  LogOrder'
<1> USE DEF LogOrder
<1>1. /\ log' = log /\ term' = term /\ waiting' = waiting
      /\ elected' = elected \cup {<<term[c], c>>}
      /\ \A s \in Server : s # c => role'[s] = role[s] /\ match'[s] = match[s]
      /\ role'[c] = "leader"
      /\ \A q \in Server : match'[c][q] <= Len(log[c])
  BY DEF Wins
<1>2. ElectionTypeOK
  BY DEF IndInv
<1>3. \A s \in Server : \A i \in 1..Len(log[s]) : log[s][i].term # term[c]
  BY NothingOfItsTerm
<1>4. TermsOrdered' /\ EntriesElected' /\ RequestsElected'
  BY <1>1 DEF TermsOrdered, EntriesElected, RequestsElected
<1>5. LeadersElected'
  BY <1>1 DEF LeadersElected
<1>6. NotAgain'
  <2>1. \A e \in elected : e[2] \in Server
    BY <1>2 DEF ElectionTypeOK
  <2>2. \A e \in elected : e[1] <= term'[e[2]] /\ ~(role'[e[2]] = "candidate" /\ term'[e[2]] = e[1])
    BY <1>1, <2>1 DEF NotAgain, Runs
  <2>3. term[c] \in Nat
    BY <1>2 DEF ElectionTypeOK
  <2>4. term[c] <= term'[c] /\ role'[c] # "candidate"
    BY <1>1, <2>3
  <2> QED
    BY <1>1, <2>2, <2>4 DEF NotAgain, Runs
<1>7. Matching'
  BY <1>1 DEF Matching, Same
<1>8. LeaderHas'
  BY <1>1, <1>3 DEF LeaderHas, Leads, Same
<1>9. AckedInLog'
  BY <1>1 DEF AckedInLog
<1> QED
  BY <1>4, <1>5, <1>6, <1>7, <1>8, <1>9

\* Two leaders of a term are one.
LEMMA OneLeads ==
  ASSUME IndInv, LeadersElected, NEW l \in Server, NEW m \in Server,
         role[l] = "leader", role[m] = "leader", term[m] = term[l]
  PROVE  m = l
  BY DEF IndInv, LeadersElected, ElectionSafety

LEMMA AppendOrder ==
  ASSUME LogTypeOK, IndInv, ElectionTypeOK', LogOrder, StandsAnew, TermsGrow,
         NEW l \in Server, Appends(l),
         \A w \in waiting' : w \in waiting \/ (w.server = l /\ w.term = term[l])
  PROVE  LogOrder'
<1> USE DEF LogOrder
<1>1. /\ role[l] = "leader" /\ term' = term /\ role' = role /\ elected' = elected
      /\ \A r \in Server : r # l => log'[r] = log[r]
      /\ \A k \in 1..Len(log[l]) : log'[l][k] = log[l][k]
      /\ log'[l][Len(log[l]) + 1].term = term[l]
      /\ \A r, q \in Server : match'[r][q] = IF r = l /\ q = l THEN Len(log[l]) + 1 ELSE match[r][q]
  BY DEF Appends
<1>2. Len(log'[l]) = Len(log[l]) + 1 /\ Len(log[l]) \in Nat
  BY LogTyped DEF Appends
<1>3. ElectionTypeOK
  BY DEF IndInv
<1>4. \A i \in 1..Len(log'[l]) : i \in 1..Len(log[l]) \/ i = Len(log[l]) + 1
  BY <1>2
<1>5. \A i \in 1..Len(log[l]) : log[l][i].term \in Nat /\ log[l][i].term <= term[l]
  BY LogTyped DEF TermsOrdered
<1>6. TermsOrdered'
  <2>1. ASSUME NEW i \in 1..Len(log'[l]) PROVE log'[l][i].term <= term[l]
    BY <1>1, <1>3, <1>4, <1>5, SMTT(60) DEF ElectionTypeOK
  <2>2. ASSUME NEW i \in 1..Len(log'[l]), NEW j \in 1..Len(log'[l]), i <= j
        PROVE  log'[l][i].term <= log'[l][j].term
    <3>1. CASE j = Len(log[l]) + 1
      BY <1>1, <2>1, <3>1
    <3>2. CASE j \in 1..Len(log[l])
      <4>1. i \in 1..Len(log[l])
        BY <1>2, <2>2, <3>2
      <4>2. log[l][i].term <= log[l][j].term
        BY <2>2, <3>2, <4>1 DEF TermsOrdered
      <4> QED
        BY <1>1, <3>2, <4>1, <4>2
    <3> QED
      BY <1>4, <3>1, <3>2
  <2> QED
    BY <1>1, <2>1, <2>2 DEF TermsOrdered
<1>7. EntriesElected'
  <2>1. <<term[l], l>> \in elected
    BY <1>1 DEF LeadersElected
  <2>2. ASSUME NEW s \in Server, NEW i \in 1..Len(log'[s])
        PROVE  \E d \in Server : <<log'[s][i].term, d>> \in elected
    BY <1>1, <1>4, <2>1, SMTT(60) DEF EntriesElected
  <2> QED
    BY <1>1, <2>2 DEF EntriesElected
<1>8. LeadersElected'
  BY <1>1 DEF LeadersElected
<1>9. RequestsElected'
  BY <1>1 DEF RequestsElected, LeadersElected
<1>10. NotAgain'
  BY <1>1, <1>3, NotAgainKept
<1>11. \A r \in Server : \A i \in 1..Len(log[r]) : log[r][i].term = term[l] => Same(r, l, i)
  BY <1>1 DEF LeaderHas, Leads
<1>12. Matching'
  <2>1. ASSUME NEW s \in Server, NEW r \in Server,
               NEW i \in 1..Len(log'[s]), NEW j \in 1..Len(log'[r]),
               i <= j, log'[s][i].term = log'[r][j].term
        PROVE  i <= Len(log'[r]) /\ \A k \in 1..i : log'[r][k] = log'[s][k]
    <3>1. i <= Len(log'[r])
      <4>1. Len(log'[r]) \in Nat
        BY <1>1, <1>2, LogTyped
      <4> QED
        BY <2>1, <4>1
    <3>2. CASE s = r
      BY <3>1, <3>2
    <3>3. CASE s # l /\ r # l
      <4>1. log'[s] = log[s] /\ log'[r] = log[r]
        BY <1>1, <3>3
      <4>2. Same(s, r, i)
        BY <1>1, <2>1, <4>1 DEF Matching
      <4> QED
        BY <3>1, <4>1, <4>2 DEF Same
    <3>4. CASE s = l /\ r # l
      <4>1. j \in 1..Len(log[r]) /\ log'[r] = log[r]
        BY <1>1, <3>4
      <4>2. CASE i \in 1..Len(log[l])
        <5>1. Same(l, r, i)
          BY <1>1, <2>1, <3>4, <4>1, <4>2 DEF Matching
        <5>2. \A k \in 1..i : k \in 1..Len(log[l])
          BY <1>2, <4>2
        <5> QED
          BY <1>1, <3>1, <3>4, <4>1, <5>1, <5>2 DEF Same
      <4>3. CASE i = Len(log[l]) + 1
        <5>1. Same(r, l, j)
          BY <1>1, <1>11, <2>1, <3>4, <4>1, <4>3
        <5>2. j <= Len(log[l]) /\ j \in Nat
          BY <4>1, <5>1 DEF Same
        <5> QED
          BY <1>2, <2>1, <4>3, <5>2
      <4> QED
        BY <1>4, <3>4, <4>2, <4>3
    <3>5. CASE s # l /\ r = l
      <4>1. i \in 1..Len(log[s]) /\ log'[s] = log[s]
        BY <1>1, <3>5
      <4>2. Same(s, l, i)
        <5>1. CASE j \in 1..Len(log[l])
          BY <1>1, <2>1, <3>5, <4>1, <5>1 DEF Matching
        <5>2. CASE j = Len(log[l]) + 1
          BY <1>1, <1>11, <2>1, <3>5, <4>1, <5>2
        <5> QED
          BY <1>4, <3>5, <5>1, <5>2
      <4>3. \A k \in 1..i : k \in 1..Len(log[l])
        BY <1>2, <4>1, <4>2 DEF Same
      <4> QED
        BY <1>1, <3>1, <3>5, <4>1, <4>2, <4>3 DEF Same
    <3> QED
      BY <3>2, <3>3, <3>4, <3>5
  <2> QED
    BY <2>1 DEF Matching, Same
<1>13. LeaderHas'
  <2>1. ASSUME NEW m \in Server, NEW r \in Server, NEW i \in 1..Len(log'[r]),
               role'[m] = "leader", term'[m] = log'[r][i].term
        PROVE  i <= Len(log'[m]) /\ \A k \in 1..i : log'[m][k] = log'[r][k]
    <3>1. CASE m = r
      <4>1. Len(log'[m]) \in Nat
        BY <1>1, <1>2, LogTyped
      <4> QED
        BY <3>1, <4>1
    <3>2. CASE m # r /\ m # l
      <4>1. log'[m] = log[m]
        BY <1>1, <3>2
      <4>2. CASE i \in 1..Len(log[r])
        <5>1. log'[r][i] = log[r][i] /\ Same(r, m, i)
          BY <1>1, <2>1, <4>2 DEF LeaderHas, Leads
        <5>2. \A k \in 1..i : k \in 1..Len(log[r])
          BY <4>2, LogTyped
        <5> QED
          BY <1>1, <4>1, <5>1, <5>2 DEF Same
      <4>3. CASE r = l /\ i = Len(log[l]) + 1
        <5>1. m = l
          BY <1>1, <2>1, <4>3, OneLeads
        <5> QED
          BY <3>2, <5>1
      <4> QED
        BY <1>1, <1>4, <4>2, <4>3
    <3>3. CASE m = l /\ r # l
      <4>1. log'[r] = log[r] /\ i \in 1..Len(log[r])
        BY <1>1, <3>3
      <4>2. Same(r, l, i)
        BY <1>1, <1>11, <2>1, <3>3, <4>1
      <4>3. i \in Nat /\ \A k \in 1..i : k \in 1..Len(log[l])
        BY <1>2, <4>1, <4>2 DEF Same
      <4> QED
        BY <1>1, <1>2, <3>3, <4>1, <4>2, <4>3 DEF Same
    <3> QED
      BY <3>1, <3>2, <3>3
  <2> QED
    BY <2>1 DEF LeaderHas, Leads, Same
<1>14. AckedInLog'
  <2>1. ASSUME NEW m \in Server, NEW q \in Server, role[m] = "leader"
        PROVE  match'[m][q] <= Len(log'[m])
    <3>1. match[m][q] <= Len(log[m]) /\ match[m][q] \in Nat
      BY <2>1 DEF AckedInLog, LogTypeOK
    <3> QED
      BY <1>1, <1>2, <3>1
  <2> QED
    BY <1>1, <2>1 DEF AckedInLog
<1> QED
  BY <1>6, <1>7, <1>8, <1>9, <1>10, <1>12, <1>13, <1>14

LEMMA CopyOrder ==
  ASSUME LogTypeOK, IndInv, ElectionTypeOK', LogOrder, StandsAnew, TermsGrow,
         NEW l \in Server, NEW r \in Server, Copies(l, r)
  PROVE  LogOrder'
<1> USE DEF LogOrder
<1>1. /\ role[l] = "leader" /\ r # l
      /\ \A s \in Server : s # r => log'[s] = log[s] /\ role'[s] = role[s] /\ term'[s] = term[s]
      /\ log'[r] = log[l] /\ term'[r] = term[l] /\ role'[r] = "follower"
      /\ elected' = elected /\ waiting' = waiting
  BY DEF Copies
<1>2. ElectionTypeOK
  BY DEF IndInv
\* Every log of the next state is a log of this one.
<1>3. \A s \in Server : \E o \in Server : log'[s] = log[o] /\ (role'[s] = "leader" => o = s)
  BY <1>1
<1>4. TermsOrdered'
  <2>1. ASSUME NEW s \in Server
        PROVE  /\ \A i \in 1..Len(log'[s]) : log'[s][i].term <= term'[s]
               /\ \A i, j \in 1..Len(log'[s]) : i <= j => log'[s][i].term <= log'[s][j].term
    BY <1>1 DEF TermsOrdered
  <2> QED
    BY <2>1 DEF TermsOrdered
<1>5. EntriesElected' /\ RequestsElected'
  <2>1. ASSUME NEW s \in Server, NEW i \in 1..Len(log'[s])
        PROVE  \E d \in Server : <<log'[s][i].term, d>> \in elected
    BY <1>3 DEF EntriesElected
  <2> QED
    BY <1>1, <2>1 DEF EntriesElected, RequestsElected
<1>6. LeadersElected'
  BY <1>1 DEF LeadersElected
<1>7. NotAgain'
  BY <1>1, <1>2, NotAgainKept
<1>8. Matching'
  <2>1. ASSUME NEW s \in Server, NEW q \in Server,
               NEW i \in 1..Len(log'[s]), NEW j \in 1..Len(log'[q]),
               i <= j, log'[s][i].term = log'[q][j].term
        PROVE  i <= Len(log'[q]) /\ \A k \in 1..i : log'[q][k] = log'[s][k]
    <3>1. PICK o \in Server, p \in Server : log'[s] = log[o] /\ log'[q] = log[p]
      BY <1>3
    <3>2. Same(o, p, i)
      BY <2>1, <3>1 DEF Matching
    <3> QED
      BY <3>1, <3>2 DEF Same
  <2> QED
    BY <2>1 DEF Matching, Same
<1>9. LeaderHas'
  <2>1. ASSUME NEW m \in Server, NEW s \in Server, NEW i \in 1..Len(log'[s]),
               role'[m] = "leader", term'[m] = log'[s][i].term
        PROVE  i <= Len(log'[m]) /\ \A k \in 1..i : log'[m][k] = log'[s][k]
    <3>1. m # r /\ log'[m] = log[m] /\ role[m] = "leader" /\ term'[m] = term[m]
      BY <1>1, <2>1
    <3>2. PICK o \in Server : log'[s] = log[o]
      BY <1>3
    <3>3. Same(o, m, i)
      BY <2>1, <3>1, <3>2 DEF LeaderHas, Leads
    <3> QED
      BY <3>1, <3>2, <3>3 DEF Same
  <2> QED
    BY <2>1 DEF LeaderHas, Leads, Same
<1>10. AckedInLog'
  <2>1. ASSUME NEW m \in Server, NEW q \in Server, role'[m] = "leader"
        PROVE  match'[m][q] <= Len(log'[m])
    <3>1. m # r /\ log'[m] = log[m] /\ role[m] = "leader" /\ Len(log[m]) \in Nat
      BY <1>1, <2>1, LogTyped
    <3>2. match[m][q] <= Len(log[m])
      BY <3>1 DEF AckedInLog
    <3> QED
      BY <3>1, <3>2 DEF Copies
  <2> QED
    BY <2>1 DEF AckedInLog
<1> QED
  BY <1>4, <1>5, <1>6, <1>7, <1>8, <1>9, <1>10

-----------------------------------------------------------------------------
(* What a leader's followers have acknowledged.                            *)

\* Nobody a leader may count as a follower votes in a later term.
LEMMA NoLaterVote ==
  ASSUME ElectionTypeOK, VotesHeld, NEW v \in Server, NEW c \in Server, NEW t \in Nat,
         term[v] <= t, role[c] = "candidate", term[c] > t
  PROVE  v \notin votes[c]
<1>1. term[v] \in Nat /\ term[c] \in Nat
  BY DEF ElectionTypeOK
<1> SUFFICES ASSUME v \in votes[c] PROVE FALSE
  OBVIOUS
<1>2. Pledged(v, term[c], c)
  BY DEF VotesHeld
<1> QED
  BY <1>1, <1>2 DEF Pledged

LEMMA FirstKept ==
  ASSUME LogTypeOK, LogTypeOK', NEW s \in Server, NEW n \in 1..Len(log[s]),
         n <= Len(log'[s]), \A k \in 1..n : log'[s][k] = log[s][k]
  PROVE  First(s, n)' = First(s, n)
<1>1. log[s] \in Seq(Entry) /\ log'[s] \in Seq(Entry)
  BY DEF LogTypeOK
<1> QED
  BY <1>1, SamePrefix DEF First

LEMMA AckedQuiet ==
  ASSUME LogTypeOK, ElectionTypeOK, ElectionTypeOK', LogOrder, AckedSecured, TermsGrow, Quiet
  PROVE  AckedSecured'
<1>1. log' = log /\ match' = match /\ LeadersKept
  BY DEF Quiet
<1> SUFFICES ASSUME NEW l \in Server, NEW n \in 1..Len(log[l]),
                    role'[l] = "leader", term'[l] = log[l][n].term
             PROVE  Overtaken(l, n)' \/ Secured(First(l, n), Acked(l, n))'
  BY <1>1 DEF AckedSecured, Leads
<1>2. role[l] = "leader" /\ term'[l] = term[l]
  BY <1>1 DEF LeadersKept
<1>3. CASE Overtaken(l, n)
  BY <1>1, <1>2, <1>3, OvertakenKept DEF TermsGrow
<1>4. CASE Secured(First(l, n), Acked(l, n))
  <2>1. PICK p, Q : p = First(l, n) /\ Q = Acked(l, n)
    OBVIOUS
  <2>2. Prefix(p) /\ Q \in SUBSET Server /\ Secured(p, Q)
    BY <1>4, <2>1, FirstIs DEF Acked
  <2>3. Secured(p, Q)'
    BY <2>2, SecuredQuiet DEF LogOrder
  <2>4. p = First(l, n)' /\ Q = Acked(l, n)'
    BY <1>1, <2>1 DEF First, Acked
  <2> QED
    BY <2>3, <2>4
<1> QED
  BY <1>2, <1>3, <1>4 DEF AckedSecured, Leads

LEMMA AckedWin ==
  ASSUME LogTypeOK, IndInv, IndInv', LogOrder, AckedSecured,
         NEW c \in Server, BecomeLeader(c), Wins(c)
  PROVE  AckedSecured'
<1>1. /\ log' = log /\ term' = term /\ Majority(votes[c]) /\ role[c] = "candidate"
      /\ \A s \in Server : s # c => role'[s] = role[s] /\ match'[s] = match[s]
  BY DEF Wins
<1>2. ElectionTypeOK /\ VotesHeld /\ ElectionTypeOK'
  BY DEF IndInv
<1> SUFFICES ASSUME NEW l \in Server, NEW n \in 1..Len(log[l]),
                    role'[l] = "leader", term[l] = log[l][n].term
             PROVE  Overtaken(l, n)' \/ Secured(First(l, n), Acked(l, n))'
  BY <1>1 DEF AckedSecured, Leads
<1>3. l # c
  BY NothingOfItsTerm
<1>4. role[l] = "leader" /\ match'[l] = match[l]
  BY <1>1, <1>3
<1>5. term[l] \in Nat /\ term[c] \in Nat /\ \A v \in Server : term[v] \in Nat /\ match[l][v] \in Nat
  BY <1>2 DEF ElectionTypeOK, LogTypeOK
<1>6. CASE Overtaken(l, n)
  <2>1. \A v \in Server : term'[v] >= term[v]
    BY <1>1, <1>5
  <2> QED
    BY <1>1, <1>2, <1>4, <1>6, <2>1, OvertakenKept
<1>7. CASE Secured(First(l, n), Acked(l, n))
  <2>1. PICK p, Q : p = First(l, n) /\ Q = Acked(l, n)
    OBVIOUS
  <2>2. Prefix(p) /\ LastTerm(p) = term[l] /\ Q \in SUBSET Server /\ Secured(p, Q)
    BY <1>7, <2>1, FirstIs DEF Acked
  <2>3. p = First(l, n)' /\ Q = Acked(l, n)'
    BY <1>1, <1>4, <2>1 DEF First, Acked
  <2>4. CASE term[c] > LastTerm(p) /\ votes[c] \cap Q = {}
    <3>1. votes[c] \in SUBSET Server
      BY <1>2 DEF ElectionTypeOK
    <3>2. ASSUME NEW v \in votes[c] PROVE term[v] > term[l] /\ match[l][v] < n
      <4>1. v \in Server /\ Pledged(v, term[c], c)
        BY <1>1, <1>2, <3>1 DEF VotesHeld
      <4>2. v \notin Acked(l, n)
        BY <2>1, <2>4
      <4>3. n \in Nat
        BY LogTyped
      <4> QED
        BY <1>5, <2>2, <2>4, <4>1, <4>2, <4>3 DEF Pledged, Acked
    <3> QED
      BY <1>1, <1>4, <3>1, <3>2 DEF Overtaken, Majority
  <2>5. CASE term[c] > LastTerm(p) => votes[c] \cap Q # {}
    <3>1. Secured(p, Q)'
      BY <1>2, <2>2, <2>5, SecuredWin
    <3> QED
      BY <2>3, <3>1
  <2> QED
    BY <2>4, <2>5
<1> QED
  BY <1>4, <1>6, <1>7 DEF AckedSecured, Leads

LEMMA AckedAppend ==
  ASSUME LogTypeOK, LogTypeOK', IndInv, IndInv', LogOrder, LogOrder', AckedSecured,
         NEW l \in Server, Appends(l)
  PROVE  AckedSecured'
<1>1. /\ role[l] = "leader" /\ term' = term /\ role' = role /\ elected' = elected /\ votes' = votes
      /\ \A r \in Server : r # l => log'[r] = log[r]
      /\ \A k \in 1..Len(log[l]) : log'[l][k] = log[l][k]
      /\ Len(log'[l]) = Len(log[l]) + 1 /\ log'[l][Len(log[l]) + 1].term = term[l]
      /\ \A r, q \in Server : match'[r][q] = IF r = l /\ q = l THEN Len(log[l]) + 1 ELSE match[r][q]
  BY DEF Appends
<1>2. /\ ElectionTypeOK /\ VotesHeld /\ ElectionTypeOK' /\ VotesHeld'
      /\ \A s \in Server : term[s] \in Nat
  BY DEF IndInv, ElectionTypeOK
<1>3. \A s \in Server : Len(log[s]) \in Nat
  BY LogTyped
<1>4. \A s, q \in Server : match[s][q] \in Nat
  BY DEF LogTypeOK
<1> SUFFICES ASSUME NEW m \in Server, NEW n \in 1..Len(log'[m]),
                    role[m] = "leader", term[m] = log'[m][n].term
             PROVE  Overtaken(m, n)' \/ Secured(First(m, n), Acked(m, n))'
  BY <1>1 DEF AckedSecured, Leads
\* An old entry: at most the leader itself is new among those who have it.
<1>5. CASE n \in 1..Len(log[m])
  <2>1. log'[m][n] = log[m][n] /\ \A k \in 1..n : log'[m][k] = log[m][k]
    BY <1>1, <1>3, <1>5
  <2>2. CASE Overtaken(m, n)
    <3>1. \A v \in Server : term'[v] >= term[v]
      BY <1>1, <1>2
    <3>2. \A v \in Server : term[v] > term[m] => match'[m][v] = match[m][v]
      BY <1>1, <1>2
    <3> QED
      BY <1>1, <1>2, <2>2, <3>1, <3>2, OvertakenKept
  <2>3. CASE Secured(First(m, n), Acked(m, n))
    <3>1. PICK p, Q : p = First(m, n) /\ Q = Acked(m, n)
      OBVIOUS
    <3>2. /\ Prefix(p) /\ LastTerm(p) = term[m] /\ Has(m, p)
          /\ Q \in SUBSET Server /\ Secured(p, Q)
      BY <1>5, <2>1, <2>3, <3>1, FirstIs DEF Acked
    <3>3. Secured(p, Q)'
      BY <1>2, <3>2, SecuredAppend
    <3>4. p = First(m, n)'
      BY <1>1, <1>3, <1>5, <2>1, <3>1, FirstKept
    <3>5. Acked(m, n)' \subseteq Q \cup {m}
      BY <1>1, <3>1 DEF Acked
    <3>6. Backs(m, p)'
      <4>1. Has(m, p)'
        BY <3>2, HasAfterAppend
      <4>2. \A c \in Server : role[c] = "candidate" /\ term[c] > LastTerm(p) => m \notin votes[c]
        BY <1>2, <3>2, NoLaterVote
      <4> QED
        BY <1>1, <4>1, <4>2 DEF Backs
    <3> QED
      BY <3>3, <3>4, <3>5, <3>6 DEF Secured
  <2> QED
    BY <1>5, <2>1, <2>2, <2>3 DEF AckedSecured, Leads
\* The new entry, which nobody else has acknowledged.
<1>6. CASE m = l /\ n = Len(log[l]) + 1
  <2>1. \A q \in Server : q # l => match'[l][q] < n
    <3>1. ASSUME NEW q \in Server PROVE match[l][q] <= Len(log[l])
      BY <1>1 DEF LogOrder, AckedInLog
    <3> QED
      BY <1>1, <1>3, <1>4, <1>6, <3>1
  <2>2. CASE \E e \in elected : e[1] > term[l]
    <3>1. PICK e \in elected : e[1] > term[l]
      BY <2>2
    <3>2. \A v \in Server : term[v] > term[l] => v # l /\ match[l][v] < n /\ match'[l][v] = match[l][v]
      BY <1>1, <1>2, <2>1
    <3>3. Overtaken(l, n)
      BY <3>1, <3>2, OvertakenByElection
    <3>4. \A v \in Server : term'[v] >= term[v]
      BY <1>1, <1>2
    <3> QED
      BY <1>1, <1>2, <1>6, <3>2, <3>3, <3>4, OvertakenKept
  <2>3. CASE ~\E e \in elected : e[1] > term[l]
    <3>1. PICK p : p = First(l, n)'
      OBVIOUS
    <3>2. Prefix(p) /\ LastTerm(p) = term[l] /\ Has(l, p)'
      <4>1. log'[l] \in Seq(Entry) /\ n \in 1..Len(log'[l]) /\ n \in Nat
        BY <1>1, <1>3, <1>6 DEF LogTypeOK
      <4>2. /\ Prefix(p) /\ Len(p) = n /\ LastTerm(p) = log'[l][n].term
            /\ \A k \in 1..n : p[k] = log'[l][k]
        BY <3>1, <4>1, PrefixIs DEF First
      <4> QED
        BY <1>1, <1>6, <4>1, <4>2 DEF Has
    <3>3. \A r \in Server : \A j \in 1..Len(log'[r]) : ~(log'[r][j].term > LastTerm(p))
      BY <1>1, <2>3, <3>2, ZenonT(60) DEF LogOrder, EntriesElected
    <3>4. \A s \in Server : role[s] = "leader" => ~(term[s] > LastTerm(p))
      BY <2>3, <3>2 DEF LogOrder, LeadersElected
    <3>5. Future(p)'
      BY <1>1, <3>3, <3>4 DEF Future
    <3>6. \A c \in Server : role[c] = "candidate" /\ term[c] > LastTerm(p) => l \notin votes[c]
      BY <1>2, <3>2, NoLaterVote
    <3>7. Backs(l, p)'
      BY <1>1, <3>2, <3>6 DEF Backs
    <3>8. Acked(l, n)' \subseteq {l}
      <4>1. ASSUME NEW q \in Server, match'[l][q] >= n PROVE q = l
        <5>1. match'[l][q] \in Nat /\ n \in Nat
          BY <1>3, <1>6 DEF LogTypeOK
        <5> QED
          BY <2>1, <4>1, <5>1
      <4> QED
        BY <4>1 DEF Acked
    <3> QED
      BY <1>6, <3>1, <3>5, <3>7, <3>8 DEF Secured
  <2> QED
    BY <2>2, <2>3
<1> QED
  BY <1>1, <1>3, <1>5, <1>6

LEMMA AckedCopy ==
  ASSUME LogTypeOK, LogTypeOK', IndInv, IndInv', LogOrder, AckedSecured, TermsGrow,
         NEW l \in Server, NEW r \in Server, Copies(l, r)
  PROVE  AckedSecured'
<1>1. /\ role[l] = "leader" /\ r # l
      /\ \A s \in Server : s # r => log'[s] = log[s] /\ role'[s] = role[s] /\ term'[s] = term[s]
      /\ log'[r] = log[l] /\ term'[r] = term[l] /\ term[l] >= term[r] /\ role'[r] = "follower"
      /\ \A s, q \in Server : match'[s][q] = match[s][q] \/ (s = l /\ q = r)
  BY DEF Copies
<1>2. /\ ElectionTypeOK /\ VotesHeld /\ ElectionTypeOK' /\ VotesHeld'
      /\ \A s \in Server : term[s] \in Nat /\ term'[s] \in Nat
  BY DEF IndInv, ElectionTypeOK
<1> SUFFICES ASSUME NEW m \in Server, NEW n \in 1..Len(log'[m]),
                    role'[m] = "leader", term'[m] = log'[m][n].term
             PROVE  Overtaken(m, n)' \/ Secured(First(m, n), Acked(m, n))'
  BY DEF AckedSecured, Leads
<1>3. /\ m # r /\ log'[m] = log[m] /\ role[m] = "leader" /\ term'[m] = term[m]
      /\ n \in 1..Len(log[m]) /\ log[m][n].term = term[m]
  BY <1>1
<1>4. CASE Overtaken(m, n)
  <2>1. \A v \in Server : term[v] > term[m] => match'[m][v] = match[m][v]
    BY <1>1, <1>2
  <2>2. \A v \in Server : term'[v] >= term[v]
    BY DEF TermsGrow
  <2> QED
    BY <1>2, <1>3, <1>4, <2>1, <2>2, OvertakenKept
<1>5. CASE Secured(First(m, n), Acked(m, n))
  <2>1. PICK p, Q : p = First(m, n) /\ Q = Acked(m, n)
    OBVIOUS
  <2>2. /\ Prefix(p) /\ LastTerm(p) = term[m] /\ Has(m, p)
        /\ Q \in SUBSET Server /\ Secured(p, Q)
    BY <1>3, <1>5, <2>1, FirstIs DEF Acked
  <2>3. Secured(p, Q)'
    BY <1>2, <2>2, SecuredCopy DEF LogOrder
  <2>4. p = First(m, n)'
    BY <1>3, <2>1 DEF First
  <2>5. Acked(m, n)' \subseteq Q \cup (IF m = l THEN {r} ELSE {})
    BY <1>1, <2>1 DEF Acked
  <2>6. m = l => Backs(r, p)'
    <3>1. SUFFICES ASSUME m = l PROVE Backs(r, p)'
      OBVIOUS
    <3>2. Has(r, p)'
      BY <1>1, <2>2, <3>1 DEF Has
    <3>3. \A c \in Server : role'[c] = "candidate" /\ term'[c] > LastTerm(p) => r \notin votes'[c]
      <4>1. term'[r] <= LastTerm(p) /\ LastTerm(p) \in Nat
        BY <1>1, <1>2, <2>2, <3>1
      <4>2. ASSUME NEW c \in Server, role'[c] = "candidate", term'[c] > LastTerm(p), r \in votes'[c]
            PROVE  FALSE
        <5>1. Pledged(r, term[c], c)'
          BY <1>2, <4>2 DEF VotesHeld
        <5> QED
          BY <1>2, <4>1, <4>2, <5>1 DEF Pledged
      <4> QED
        BY <4>2
    <3> QED
      BY <3>2, <3>3 DEF Backs
  <2> QED
    BY <2>3, <2>4, <2>5, <2>6 DEF Secured
<1> QED
  BY <1>3, <1>4, <1>5 DEF AckedSecured, Leads

-----------------------------------------------------------------------------
(* What is committed.                                                      *)

\* A secured prefix stays secured.
SecurityKept == \A p : \A Q \in SUBSET Server :
  Prefix(p) /\ Majority(Q) /\ Secured(p, Q) => Secured(p, Q)'

\* No server loses or changes an entry it has committed.
CommittedStays == \A s \in Server :
  /\ commit[s] <= commit'[s] /\ commit[s] <= Len(log'[s])
  /\ \A k \in 1..commit[s] : log'[s][k] = log[s][k]

LEMMA CommitTyped ==
  ASSUME LogTypeOK, CommitSecured, NEW s \in Server
  PROVE  commit[s] \in Nat /\ commit[s] <= Len(log[s])
<1>1. commit[s] \in Nat /\ Len(log[s]) \in Nat
  BY LogTyped DEF LogTypeOK
<1>2. CASE commit[s] = 0
  BY <1>1, <1>2
<1>3. CASE commit[s] > 0
  BY <1>1, <1>3 DEF CommitSecured
<1> QED
  BY <1>1, <1>2, <1>3

(* A commit index of the next state is one of this state over the same     *)
(* entries, or has just been acknowledged by a majority.                   *)
LEMMA CommitSecuredNext ==
  ASSUME LogTypeOK, LogTypeOK', CommitSecured, SecurityKept,
         \A s \in Server :
           \/ \E o \in Server : /\ commit'[s] = commit[o] /\ commit[o] <= Len(log'[s])
                                /\ \A k \in 1..commit[o] : log'[s][k] = log[o][k]
           \/ /\ log'[s] = log[s] /\ commit'[s] \in 1..Len(log[s])
              /\ \E Q \in SUBSET Server : Majority(Q) /\ Secured(SubSeq(log[s], 1, commit'[s]), Q)
  PROVE  CommitSecured'
<1> SUFFICES ASSUME NEW s \in Server, commit'[s] > 0
             PROVE  /\ commit'[s] <= Len(log'[s])
                    /\ \E Q \in SUBSET Server : Majority(Q) /\ Secured(First(s, commit[s]), Q)'
  BY DEF CommitSecured, Majority
<1>1. CASE \E o \in Server : /\ commit'[s] = commit[o] /\ commit[o] <= Len(log'[s])
                             /\ \A k \in 1..commit[o] : log'[s][k] = log[o][k]
  <2>1. PICK o \in Server : /\ commit'[s] = commit[o] /\ commit[o] <= Len(log'[s])
                            /\ \A k \in 1..commit[o] : log'[s][k] = log[o][k]
    BY <1>1
  <2>2. /\ commit[o] \in 1..Len(log[o]) /\ log[o] \in Seq(Entry) /\ log'[s] \in Seq(Entry)
    BY <2>1, CommitTyped, SMTT(60) DEF LogTypeOK
  <2>3. PICK p : p = SubSeq(log[o], 1, commit[o])
    OBVIOUS
  <2>4. PICK Q \in SUBSET Server : Majority(Q) /\ Secured(p, Q)
    BY <2>1, <2>3 DEF CommitSecured, First
  <2>5. Prefix(p)
    BY <2>2, <2>3, PrefixIs
  <2>6. First(s, commit[s])' = p
    BY <2>1, <2>2, <2>3, SamePrefix DEF First
  <2>7. Secured(p, Q)'
    BY <2>4, <2>5 DEF SecurityKept
  <2> QED
    BY <2>1, <2>4, <2>6, <2>7
<1>2. CASE /\ log'[s] = log[s] /\ commit'[s] \in 1..Len(log[s])
           /\ \E Q \in SUBSET Server : Majority(Q) /\ Secured(SubSeq(log[s], 1, commit'[s]), Q)
  <2>1. PICK p : p = SubSeq(log[s], 1, commit'[s])
    OBVIOUS
  <2>2. PICK Q \in SUBSET Server : Majority(Q) /\ Secured(p, Q)
    BY <1>2, <2>1
  <2>3. log[s] \in Seq(Entry) /\ Len(log[s]) \in Nat
    BY LogTyped
  <2>4. Prefix(p)
    BY <1>2, <2>1, <2>3, PrefixIs
  <2>5. Secured(p, Q)'
    BY <2>2, <2>4 DEF SecurityKept
  <2>6. First(s, commit[s])' = p
    BY <1>2, <2>1 DEF First
  <2> QED
    BY <1>2, <2>2, <2>3, <2>5, <2>6
<1> QED
  BY <1>1, <1>2

LEMMA SecurityQuiet ==
  ASSUME LogTypeOK, ElectionTypeOK, ElectionTypeOK', LogOrder, Quiet
  PROVE  SecurityKept
  BY SecuredQuiet DEF SecurityKept, LogOrder

LEMMA SecurityAppend ==
  ASSUME LogTypeOK, ElectionTypeOK, NEW l \in Server, Appends(l)
  PROVE  SecurityKept
  BY SecuredAppend DEF SecurityKept

LEMMA SecurityCopy ==
  ASSUME LogTypeOK, ElectionTypeOK, LogOrder, NEW l \in Server, NEW r \in Server, Copies(l, r)
  PROVE  SecurityKept
  BY SecuredCopy DEF SecurityKept, LogOrder

LEMMA SecurityWin ==
  ASSUME LogTypeOK, ElectionTypeOK, NEW c \in Server, Wins(c)
  PROVE  SecurityKept
<1>1. votes[c] \in SUBSET Server /\ Majority(votes[c])
  BY DEF ElectionTypeOK, Wins
<1> QED
  BY <1>1, MajoritiesMeet, SecuredWin DEF SecurityKept

LEMMA StaysCopy ==
  ASSUME LogTypeOK, ElectionTypeOK, LogOrder, CommitSecured,
         NEW l \in Server, NEW r \in Server, Copies(l, r)
  PROVE  CommittedStays
<1> SUFFICES ASSUME NEW s \in Server
             PROVE  /\ commit[s] <= commit'[s] /\ commit[s] <= Len(log'[s])
                    /\ \A k \in 1..commit[s] : log'[s][k] = log[s][k]
  BY DEF CommittedStays
<1>1. /\ commit[s] \in Nat /\ commit[s] <= Len(log[s]) /\ Len(log[s]) \in Nat
      /\ commit[l] \in Nat /\ Len(log[l]) \in Nat
  BY CommitTyped, LogTyped DEF LogTypeOK
<1>2. CASE s # r
  BY <1>1, <1>2 DEF Copies
<1>3. CASE s = r
  <2>1. commit[s] <= commit'[s] /\ log'[s] = log[l]
    BY <1>1, <1>3 DEF Copies
  <2>2. CASE commit[s] = 0
    BY <1>1, <2>1, <2>2
  <2>3. CASE commit[s] > 0
    <3>1. commit[s] \in 1..Len(log[s])
      BY <1>1, <2>3
    <3>2. PICK p : p = First(s, commit[s])
      OBVIOUS
    <3>3. /\ Prefix(p) /\ Len(p) = commit[s] /\ Has(s, p)
          /\ \A k \in 1..commit[s] : p[k] = log[s][k]
      BY <3>1, <3>2, FirstIs
    <3>4. Future(p)
      BY <2>3, <3>2 DEF CommitSecured, Secured
    <3>5. Has(s, p)'
      BY <3>3, <3>4, HasAfterCopy DEF LogOrder
    <3> QED
      BY <2>1, <3>3, <3>5 DEF Has
  <2> QED
    BY <1>1, <2>2, <2>3
<1> QED
  BY <1>2, <1>3

LEMMA CommitCopy ==
  ASSUME LogTypeOK, LogTypeOK', ElectionTypeOK, LogOrder, CommitSecured,
         NEW l \in Server, NEW r \in Server, Copies(l, r)
  PROVE  CommitSecured' /\ CommittedStays
<1>1. CommittedStays
  BY StaysCopy
<1>2. ASSUME NEW s \in Server
      PROVE  \E o \in Server : /\ commit'[s] = commit[o] /\ commit[o] <= Len(log'[s])
                               /\ \A k \in 1..commit[o] : log'[s][k] = log[o][k]
  <2>1. CASE commit'[s] = commit[s]
    BY <1>1, <2>1 DEF CommittedStays
  <2>2. CASE commit'[s] # commit[s]
    <3>1. commit'[s] = commit[l] /\ log'[s] = log[l]
      BY <2>2 DEF Copies
    <3> QED
      BY <3>1, CommitTyped
  <2> QED
    BY <2>1, <2>2
<1>3. SecurityKept
  BY SecurityCopy
<1> QED
  BY <1>1, <1>2, <1>3, CommitSecuredNext

\* Nothing is committed, and every log keeps what it has committed.
LEMMA CommitStill ==
  ASSUME LogTypeOK, LogTypeOK', CommitSecured, SecurityKept, commit' = commit,
         \A s \in Server : /\ Len(log[s]) <= Len(log'[s])
                           /\ \A k \in 1..Len(log[s]) : log'[s][k] = log[s][k]
  PROVE  CommitSecured' /\ CommittedStays
<1>1. ASSUME NEW s \in Server
      PROVE  /\ commit'[s] = commit[s] /\ commit[s] <= commit'[s] /\ commit[s] <= Len(log'[s])
             /\ \A k \in 1..commit[s] : log'[s][k] = log[s][k]
  <2>1. /\ commit[s] \in Nat /\ commit[s] <= Len(log[s])
        /\ Len(log[s]) \in Nat /\ Len(log'[s]) \in Nat
    BY CommitTyped, LogTyped, LenProperties DEF LogTypeOK
  <2>2. commit[s] <= Len(log'[s]) /\ \A k \in 1..commit[s] : k \in 1..Len(log[s])
    BY <2>1
  <2> QED
    BY <2>1, <2>2
<1>2. CommittedStays
  BY <1>1 DEF CommittedStays
<1> QED
  BY <1>1, <1>2, CommitSecuredNext

Commits(l, n) ==
  /\ role[l] = "leader" /\ n \in 1..Len(log[l]) /\ n > commit[l] /\ log[l][n].term = term[l]
  /\ Majority(Acked(l, n))
  /\ \A s \in Server : commit'[s] = IF s = l THEN n ELSE commit[s]
  /\ replies' = replies \cup {[floor |-> w.floor, value |-> Value(log[l], w.index)] :
                                w \in Answered(l, n)}
  /\ waiting' \subseteq waiting
  /\ UNCHANGED <<term, role, votes, log, match, elected, restarts>>

LEMMA CommitCommits ==
  ASSUME LogTypeOK, ElectionTypeOK, NEW l \in Server, NEW n, Commit(l, n)
  PROVE  Commits(l, n) /\ LogTypeOK' /\ Quiet
<1>1. /\ role[l] = "leader"
      /\ n \in (commit[l] + 1)..Len(log[l]) /\ log[l][n].term = term[l]
      /\ Majority({s \in Server : match[l][s] >= n})
      /\ commit' = [commit EXCEPT ![l] = n]
      /\ waiting' = waiting \ Answered(l, n)
      /\ replies' = replies \cup {[floor |-> w.floor, value |-> Value(log[l], w.index)] :
                                    w \in Answered(l, n)}
      /\ UNCHANGED <<term, role, votes, log, match, added, elected, restarts>>
  BY Zenon DEF Commit, Committable, persistent
<1>2. commit[l] \in Nat /\ Len(log[l]) \in Nat /\ log[l] \in Seq(Entry)
  BY LogTyped DEF LogTypeOK
<1>3. n \in 1..Len(log[l]) /\ n > commit[l] /\ n \in Nat
  BY <1>1, <1>2
<1>4. commit' \in [Server -> Nat] /\ \A s \in Server : commit'[s] = IF s = l THEN n ELSE commit[s]
  BY <1>1, <1>3 DEF LogTypeOK
<1>5. Commits(l, n)
  BY <1>1, <1>3, <1>4 DEF Commits, Acked
<1>6. replies' \subseteq [floor : SUBSET Nat, value : SUBSET Nat]
  <2>1. ASSUME NEW w \in Answered(l, n)
        PROVE  [floor |-> w.floor, value |-> Value(log[l], w.index)]
                 \in [floor : SUBSET Nat, value : SUBSET Nat]
    <3>1. w.floor \in SUBSET Nat
      BY DEF Answered, LogTypeOK
    <3>2. \A i \in DOMAIN log[l] : log[l][i].add \in Nat
      BY <1>2, LenProperties, LogTyped DEF Entry
    <3>3. Value(log[l], w.index) \in SUBSET Nat
      BY <3>2 DEF Value
    <3> QED
      BY <3>1, <3>3
  <2> QED
    BY <1>1, <2>1 DEF LogTypeOK
<1>7. Quiet
  BY <1>1 DEF Quiet, LeadersKept, VotesInformed
<1> QED
  BY <1>1, <1>4, <1>5, <1>6, <1>7 DEF LogTypeOK

LEMMA CommitCommitted ==
  ASSUME LogTypeOK, LogTypeOK', ElectionTypeOK, ElectionTypeOK', LogOrder, AckedSecured,
         CommitSecured, NEW l \in Server, NEW n, Commits(l, n), Quiet
  PROVE  CommitSecured' /\ CommittedStays
<1>1. /\ n \in 1..Len(log[l]) /\ n > commit[l] /\ log' = log
      /\ \A s \in Server : commit'[s] = IF s = l THEN n ELSE commit[s]
      /\ role[l] = "leader" /\ log[l][n].term = term[l] /\ Majority(Acked(l, n))
  BY DEF Commits
<1>2. \A s \in Server : commit[s] \in Nat /\ commit[s] <= Len(log[s]) /\ Len(log[s]) \in Nat
  BY CommitTyped, LogTyped
<1>3. CommittedStays
  BY <1>1, <1>2 DEF CommittedStays
<1>4. Secured(First(l, n), Acked(l, n))
  <2>1. n \in Nat
    BY <1>1, <1>2
  <2>2. ~Overtaken(l, n)
    BY <1>1, <2>1, OvertakenCannotCommit
  <2> QED
    BY <1>1, <2>2 DEF AckedSecured, Leads
<1>5. Acked(l, n) \in SUBSET Server
  BY DEF Acked
<1>6. SecurityKept
  BY SecurityQuiet
<1>7. ASSUME NEW s \in Server
      PROVE  \/ \E o \in Server : /\ commit'[s] = commit[o] /\ commit[o] <= Len(log'[s])
                                  /\ \A k \in 1..commit[o] : log'[s][k] = log[o][k]
             \/ /\ log'[s] = log[s] /\ commit'[s] \in 1..Len(log[s])
                /\ \E Q \in SUBSET Server : Majority(Q) /\ Secured(SubSeq(log[s], 1, commit'[s]), Q)
  <2>1. CASE s = l
    <3>1. Secured(SubSeq(log[s], 1, commit'[s]), Acked(l, n))
      BY <1>1, <1>4, <2>1 DEF First
    <3> QED
      BY <1>1, <1>5, <2>1, <3>1
  <2>2. CASE s # l
    BY <1>1, <1>2, <2>2
  <2> QED
    BY <2>1, <2>2
<1> QED
  BY <1>3, <1>6, <1>7, CommitSecuredNext

-----------------------------------------------------------------------------
(* What clients are told.                                                  *)

LEMMA RepliesKept ==
  ASSUME LogTypeOK, LogTypeOK', CommitSecured, CommittedStays,
         NEW v, NEW s \in Server, v \subseteq Value(log[s], commit[s])
  PROVE  v \subseteq Value(log'[s], commit'[s])
<1>1. /\ log[s] \in Seq(Entry) /\ log'[s] \in Seq(Entry)
      /\ commit[s] \in Nat /\ commit'[s] \in Nat /\ commit[s] <= Len(log[s])
  BY CommitTyped DEF LogTypeOK
<1>2. Value(log[s], commit[s]) \subseteq Value(log'[s], commit'[s])
  BY <1>1, ValueGrows DEF CommittedStays
<1> QED
  BY <1>2

LEMMA RepliesStill ==
  ASSUME LogTypeOK, LogTypeOK', CommitSecured, CommittedStays, RepliesCommitted,
         replies' = replies
  PROVE  RepliesCommitted'
  BY RepliesKept DEF RepliesCommitted

\* A request a leader still has keeps its place, as long as it leads.
LEMMA RequestKept ==
  ASSUME LogTypeOK, LogTypeOK', ElectionTypeOK, ElectionTypeOK', RequestsFresh, TermsGrow,
         NEW w \in waiting, Leads(w.server, w.term), term'[w.server] = term[w.server],
         Len(log[w.server]) <= Len(log'[w.server]),
         \A k \in 1..Len(log[w.server]) : log'[w.server][k] = log[w.server][k],
         \A v \in Server : term[v] > term[w.server] => match'[w.server][v] = match[w.server][v]
  PROVE  /\ w.index \in 1..Len(log'[w.server])
         /\ Overtaken(w.server, w.index)' \/ w.floor \subseteq Value(log'[w.server], w.index)
<1>1. w.server \in Server /\ w.index \in 1..Len(log[w.server])
  BY DEF RequestsFresh, LogTypeOK
<1>2. PICK l, n : l = w.server /\ n = w.index /\ l \in Server /\ n \in 1..Len(log[l])
  BY <1>1
<1>3. /\ log[l] \in Seq(Entry) /\ log'[l] \in Seq(Entry)
      /\ Len(log[l]) \in Nat /\ Len(log'[l]) \in Nat
  BY <1>2, LenProperties DEF LogTypeOK
<1>4. n \in 1..Len(log'[l]) /\ n \in Nat /\ n <= Len(log[l]) /\ n <= Len(log'[l])
  BY <1>2, <1>3
<1>5. CASE Overtaken(l, n)
  <2>1. Overtaken(l, n)'
    BY <1>2, <1>5, OvertakenKept DEF TermsGrow
  <2> QED
    BY <1>2, <1>4, <2>1
<1>6. CASE w.floor \subseteq Value(log[l], n)
  <2>1. \A k \in 1..n : log'[l][k] = log[l][k]
    BY <1>2, <1>3, <1>4
  <2>2. Value(log[l], n) \subseteq Value(log'[l], n)
    BY <1>3, <1>4, <2>1, ValueGrows
  <2> QED
    BY <1>2, <1>4, <1>6, <2>2
<1> QED
  BY <1>2, <1>5, <1>6 DEF RequestsFresh

\* A quiet step accepts no request.
LEMMA RequestsQuiet ==
  ASSUME LogTypeOK, LogTypeOK', ElectionTypeOK, ElectionTypeOK', RequestsFresh, TermsGrow,
         Quiet, waiting' \subseteq waiting
  PROVE  RequestsFresh'
<1> SUFFICES ASSUME NEW w \in waiting, Leads(w.server, w.term)'
             PROVE  /\ w.index \in 1..Len(log'[w.server])
                    /\ \/ Overtaken(w.server, w.index)'
                       \/ w.floor \subseteq Value(log'[w.server], w.index)
  BY DEF RequestsFresh
<1>1. log' = log /\ match' = match /\ LeadersKept
  BY DEF Quiet
<1>2. w.server \in Server
  BY DEF LogTypeOK
<1>3. Leads(w.server, w.term) /\ term'[w.server] = term[w.server]
  BY <1>1, <1>2 DEF LeadersKept, Leads
<1>4. Len(log[w.server]) \in Nat
  BY <1>2, LogTyped
<1> QED
  BY <1>1, <1>3, <1>4, RequestKept

LEMMA RequestsWin ==
  ASSUME LogTypeOK, LogTypeOK', IndInv, IndInv', LogOrder, RequestsFresh, TermsGrow,
         NEW c \in Server, BecomeLeader(c), Wins(c)
  PROVE  RequestsFresh'
<1>1. ElectionTypeOK /\ ElectionTypeOK'
  BY DEF IndInv
<1> SUFFICES ASSUME NEW w \in waiting, Leads(w.server, w.term)'
             PROVE  /\ w.index \in 1..Len(log'[w.server])
                    /\ \/ Overtaken(w.server, w.index)'
                       \/ w.floor \subseteq Value(log'[w.server], w.index)
  BY DEF RequestsFresh, Wins
<1>2. w.server \in Server /\ Len(log[w.server]) \in Nat
  BY LogTyped DEF LogTypeOK
<1>3. w.server # c
  <2>1. <<w.term, w.server>> \in elected
    BY DEF LogOrder, RequestsElected
  <2>2. <<term[c], c>> \notin elected
    BY NothingOfItsTerm
  <2> QED
    BY <2>1, <2>2 DEF Leads, Wins
<1>4. /\ Leads(w.server, w.term) /\ term'[w.server] = term[w.server] /\ log' = log
      /\ match'[w.server] = match[w.server]
  BY <1>2, <1>3 DEF Leads, Wins
<1> QED
  BY <1>1, <1>2, <1>4, RequestKept

LEMMA RequestsCopy ==
  ASSUME LogTypeOK, LogTypeOK', ElectionTypeOK, ElectionTypeOK', RequestsFresh, TermsGrow,
         NEW l \in Server, NEW r \in Server, Copies(l, r)
  PROVE  RequestsFresh'
<1> SUFFICES ASSUME NEW w \in waiting, Leads(w.server, w.term)'
             PROVE  /\ w.index \in 1..Len(log'[w.server])
                    /\ \/ Overtaken(w.server, w.index)'
                       \/ w.floor \subseteq Value(log'[w.server], w.index)
  BY DEF RequestsFresh, Copies
<1>1. w.server \in Server /\ Len(log[w.server]) \in Nat
  BY LogTyped DEF LogTypeOK
<1>2. w.server # r
  BY DEF Leads, Copies
<1>3. /\ Leads(w.server, w.term) /\ term'[w.server] = term[w.server]
      /\ log'[w.server] = log[w.server]
  BY <1>1, <1>2 DEF Leads, Copies
<1>4. ASSUME NEW v \in Server, term[v] > term[w.server]
      PROVE  match'[w.server][v] = match[w.server][v]
  <2>1. term[l] \in Nat /\ term[r] \in Nat /\ term[l] >= term[r]
    BY DEF ElectionTypeOK, Copies
  <2>2. ~(w.server = l /\ v = r)
    BY <1>4, <2>1
  <2> QED
    BY <1>1, <2>2 DEF Copies
<1> QED
  BY <1>1, <1>3, <1>4, RequestKept

(* What was answered before a request is accepted is in the log of the     *)
(* leader, or that leader has already lost a majority.                     *)
LEMMA FloorInLog ==
  ASSUME LogTypeOK, IndInv, LogOrder, CommitSecured, RepliesCommitted,
         NEW l \in Server, role[l] = "leader",
         ~\E e \in elected : e[1] > term[l]
  PROVE  Acknowledged \subseteq Value(log[l], Len(log[l]))
<1>1. ElectionTypeOK /\ Len(log[l]) \in Nat /\ log[l] \in Seq(Entry)
  BY LogTyped DEF IndInv
<1>2. ASSUME NEW x \in replies PROVE x.value \subseteq Value(log[l], Len(log[l]))
  <2>1. PICK s \in Server : x.value \subseteq Value(log[s], commit[s])
    BY DEF RepliesCommitted
  <2>2. log[s] \in Seq(Entry) /\ commit[s] \in Nat /\ commit[s] <= Len(log[s]) /\ Len(log[s]) \in Nat
    BY CommitTyped, LogTyped
  <2>3. CASE commit[s] = 0
    <3>1. Value(log[s], 0) \subseteq Value(log[l], Len(log[l]))
      BY <1>1, <2>2, ValueGrows
    <3> QED
      BY <2>1, <2>3, <3>1
  <2>4. CASE commit[s] > 0
    <3>1. commit[s] \in 1..Len(log[s])
      BY <2>2, <2>4
    <3>2. PICK p : p = First(s, commit[s])
      OBVIOUS
    <3>3. /\ Prefix(p) /\ Len(p) = commit[s] /\ Has(s, p)
          /\ LastTerm(p) = log[s][commit[s]].term
          /\ \A k \in 1..commit[s] : p[k] = log[s][k]
      BY <3>1, <3>2, FirstIs
    <3>4. Future(p)
      BY <2>4, <3>2 DEF CommitSecured, Secured
    <3>5. term[l] >= LastTerm(p)
      <4>1. PICK d \in Server : <<log[s][commit[s]].term, d>> \in elected
        BY <3>1 DEF LogOrder, EntriesElected
      <4>2. ~(LastTerm(p) > term[l])
        BY <3>3, <4>1
      <4>3. LastTerm(p) \in Nat /\ term[l] \in Nat
        BY <1>1, <3>3, PrefixTyped DEF ElectionTypeOK
      <4> QED
        BY <4>2, <4>3
    <3>6. Has(l, p)
      BY <1>1, <3>3, <3>4, <3>5, LeaderCaughtUp DEF LogOrder
    <3>7. commit[s] <= Len(log[l]) /\ \A k \in 1..commit[s] : log[l][k] = log[s][k]
      BY <3>3, <3>6 DEF Has
    <3>8. Value(log[s], commit[s]) \subseteq Value(log[l], Len(log[l]))
      BY <1>1, <2>2, <3>7, ValueGrows
    <3> QED
      BY <2>1, <3>8
  <2> QED
    BY <2>2, <2>3, <2>4
<1> QED
  BY <1>2 DEF Acknowledged

LEMMA RequestsAppend ==
  ASSUME LogTypeOK, LogTypeOK', IndInv, IndInv', LogOrder, CommitSecured, RepliesCommitted,
         RequestsFresh, TermsGrow, NEW l \in Server, Appends(l),
         waiting' = waiting \cup {[server |-> l, term |-> term[l],
                                   index |-> Len(log[l]) + 1, floor |-> Acknowledged]}
  PROVE  RequestsFresh'
<1>1. /\ role[l] = "leader" /\ term' = term /\ role' = role
      /\ \A r \in Server : r # l => log'[r] = log[r]
      /\ \A k \in 1..Len(log[l]) : log'[l][k] = log[l][k]
      /\ Len(log'[l]) = Len(log[l]) + 1
      /\ \A r, q \in Server : match'[r][q] = IF r = l /\ q = l THEN Len(log[l]) + 1 ELSE match[r][q]
  BY DEF Appends
<1>2. ElectionTypeOK /\ ElectionTypeOK' /\ \A s \in Server : term[s] \in Nat
  BY DEF IndInv, ElectionTypeOK
<1>3. \A s \in Server : Len(log[s]) \in Nat /\ Len(log[s]) <= Len(log'[s])
  BY <1>1, LogTyped
<1>4. ASSUME NEW w \in waiting, Leads(w.server, w.term)'
      PROVE  /\ w.index \in 1..Len(log'[w.server])
             /\ Overtaken(w.server, w.index)' \/ w.floor \subseteq Value(log'[w.server], w.index)
  <2>1. w.server \in Server
    BY DEF LogTypeOK
  <2>2. Leads(w.server, w.term) /\ term'[w.server] = term[w.server]
    BY <1>1, <1>4 DEF Leads
  <2>3. \A k \in 1..Len(log[w.server]) : log'[w.server][k] = log[w.server][k]
    BY <1>1, <2>1
  <2>4. \A v \in Server : term[v] > term[w.server] => match'[w.server][v] = match[w.server][v]
    BY <1>1, <1>2, <2>1
  <2> QED
    BY <1>2, <1>3, <2>1, <2>2, <2>3, <2>4, RequestKept
<1>5. PICK n : n = Len(log[l]) + 1
  OBVIOUS
<1>6. n \in 1..Len(log'[l]) /\ (Overtaken(l, n)' \/ Acknowledged \subseteq Value(log'[l], n))
  <2>1. n \in 1..Len(log'[l])
    BY <1>1, <1>3, <1>5
  <2>2. CASE \E e \in elected : e[1] > term[l]
    <3>1. PICK e \in elected : e[1] > term[l]
      BY <2>2
    <3>2. \A v \in Server : term[v] > term[l] =>
            v # l /\ match[l][v] < n /\ match'[l][v] = match[l][v]
      <4>1. \A v \in Server : match[l][v] <= Len(log[l]) /\ match[l][v] \in Nat
        BY <1>1 DEF LogOrder, AckedInLog, LogTypeOK
      <4> QED
        BY <1>1, <1>2, <1>3, <1>5, <4>1
    <3>3. Overtaken(l, n)
      BY <3>1, <3>2, OvertakenByElection
    <3> QED
      BY <1>1, <1>2, <2>1, <3>2, <3>3, OvertakenKept DEF TermsGrow
  <2>3. CASE ~\E e \in elected : e[1] > term[l]
    <3>1. Acknowledged \subseteq Value(log[l], Len(log[l]))
      BY <1>1, <2>3, FloorInLog
    <3>2. log[l] \in Seq(Entry) /\ log'[l] \in Seq(Entry)
      BY DEF LogTypeOK
    <3>3. Value(log[l], Len(log[l])) \subseteq Value(log'[l], n)
      <4>1. /\ Len(log[l]) \in Nat /\ n \in Nat /\ Len(log[l]) <= n
            /\ Len(log[l]) <= Len(log'[l]) /\ Len(log[l]) <= Len(log[l])
        BY <1>3, <1>5
      <4>2. \A k \in 1..Len(log[l]) : log'[l][k] = log[l][k]
        BY <1>1
      <4> QED
        BY <3>2, <4>1, <4>2, ValueGrows
    <3>4. Acknowledged \subseteq Value(log'[l], n)
      BY <3>1, <3>3
    <3> QED
      BY <2>1, <3>4
  <2> QED
    BY <2>2, <2>3
<1>7. ASSUME NEW w \in waiting', Leads(w.server, w.term)'
      PROVE  /\ w.index \in 1..Len(log'[w.server])
             /\ Overtaken(w.server, w.index)' \/ w.floor \subseteq Value(log'[w.server], w.index)
  <2>1. CASE w \in waiting
    BY <1>4, <1>7, <2>1
  <2>2. CASE w = [server |-> l, term |-> term[l], index |-> n, floor |-> Acknowledged]
    <3>1. w.server = l /\ w.index = n /\ w.floor = Acknowledged
      BY <2>2
    <3> QED
      BY <1>6, <3>1
  <2> QED
    BY <1>5, <2>1, <2>2
<1> QED
  BY <1>7 DEF RequestsFresh

\* An answer counts what was acknowledged before the request was accepted.
LEMMA CommitAnswers ==
  ASSUME LogTypeOK, LogTypeOK', CommitSecured, CommittedStays, RepliesCommitted, RequestsFresh,
         NeverStale, NEW l \in Server, NEW n, Commits(l, n)
  PROVE  RepliesCommitted' /\ NeverStale'
<1>1. /\ role[l] = "leader" /\ n \in 1..Len(log[l]) /\ log' = log /\ commit'[l] = n
      /\ Majority(Acked(l, n))
      /\ replies' = replies \cup {[floor |-> w.floor, value |-> Value(log[l], w.index)] :
                                    w \in Answered(l, n)}
  BY DEF Commits
<1>2. log[l] \in Seq(Entry) /\ Len(log[l]) \in Nat /\ n \in Nat /\ n <= Len(log[l])
  BY <1>1, LogTyped
<1>3. ASSUME NEW w \in Answered(l, n)
      PROVE  /\ Value(log[l], w.index) \subseteq Value(log'[l], commit'[l])
             /\ w.floor \subseteq Value(log[l], w.index)
  <2>1. w \in waiting /\ w.server = l /\ w.term = term[l] /\ w.index <= n
    BY DEF Answered
  <2>2. /\ w.index \in 1..Len(log[l])
        /\ Overtaken(l, w.index) \/ w.floor \subseteq Value(log[l], w.index)
    BY <1>1, <2>1 DEF RequestsFresh, Leads
  <2>3. w.index \in Nat /\ w.index <= Len(log[l])
    BY <1>2, <2>2
  <2>4. Value(log[l], w.index) \subseteq Value(log[l], n)
    BY <1>2, <2>1, <2>3, ValueGrows
  <2>5. ~Overtaken(l, w.index)
    BY <1>1, <1>2, <2>1, <2>3, OvertakenCannotCommit
  <2> QED
    BY <1>1, <2>2, <2>4, <2>5
<1>4. RepliesCommitted'
  <2>1. ASSUME NEW x \in replies PROVE \E s \in Server : x.value \subseteq Value(log'[s], commit'[s])
    BY RepliesKept DEF RepliesCommitted
  <2>2. ASSUME NEW w \in Answered(l, n)
        PROVE  \E s \in Server : Value(log[l], w.index) \subseteq Value(log'[s], commit'[s])
    BY <1>3
  <2> QED
    BY <1>1, <2>1, <2>2 DEF RepliesCommitted
<1>5. NeverStale'
  BY <1>1, <1>3 DEF NeverStale
<1> QED
  BY <1>4, <1>5

-----------------------------------------------------------------------------
(* The invariant of the whole cluster.                                     *)

LEMMA InitCluster == Init => ClusterInv
<1> SUFFICES ASSUME Init PROVE ClusterInv
  OBVIOUS
<1>1. IndInv
  BY InitElections
<1>2. /\ term = [s \in Server |-> 0] /\ role = [s \in Server |-> "follower"]
      /\ log = [s \in Server |-> <<>>] /\ commit = [s \in Server |-> 0]
      /\ match = [s \in Server |-> [r \in Server |-> 0]]
      /\ waiting = {} /\ replies = {} /\ added = 0 /\ elected = {} /\ restarts = 0
  BY DEF Init
<1>3. \A s \in Server : log[s] = <<>> /\ log[s] \in Seq(Entry) /\ 1..Len(log[s]) = {}
  BY <1>2, EmptySeq
<1>4. LogTypeOK
  BY <1>2, <1>3 DEF LogTypeOK
<1>5. LogOrder
  <2>1. TermsOrdered /\ EntriesElected /\ LeadersElected /\ RequestsElected /\ NotAgain
    BY <1>2, <1>3 DEF TermsOrdered, EntriesElected, LeadersElected, RequestsElected, NotAgain
  <2>2. Matching /\ LeaderHas /\ AckedInLog
    BY <1>2, <1>3 DEF Matching, LeaderHas, AckedInLog
  <2> QED
    BY <2>1, <2>2 DEF LogOrder
<1>6. AckedSecured /\ CommitSecured
  BY <1>2, <1>3 DEF AckedSecured, CommitSecured
<1>7. RepliesCommitted /\ RequestsFresh /\ NeverStale
  BY <1>2 DEF RepliesCommitted, RequestsFresh, NeverStale
<1> QED
  BY <1>1, <1>2, <1>4, <1>5, <1>6, <1>7 DEF ClusterInv, LogInv

LEMMA GrowingTerms ==
  ASSUME ElectionTypeOK, VoteStep
  PROVE  TermsGrow
  BY DEF ElectionTypeOK, VoteStep, VoteKept, TermsGrow

\* Steps that concern votes, or nothing, leave logs alone.
QuietStep ==
  /\ Quiet /\ StandsAnew /\ LogTypeOK'
  /\ waiting' \subseteq waiting
  /\ UNCHANGED <<commit, replies, elected, restarts>>

LEMMA StartElectionQuiet ==
  ASSUME LogTypeOK, ElectionTypeOK, NEW s \in Server, StartElection(s)
  PROVE  QuietStep
<1>1. /\ term' = [term EXCEPT ![s] = term[s] + 1]
      /\ role' = [role EXCEPT ![s] = "candidate"]
      /\ votes' = [votes EXCEPT ![s] = {s}]
      /\ UNCHANGED <<log, commit, match, waiting, replies, added, elected, restarts>>
  BY Zenon DEF StartElection, clients
<1>2. LeadersKept
  BY <1>1 DEF LeadersKept, ElectionTypeOK
<1>3. VotesInformed
  BY <1>1 DEF VotesInformed, ElectionTypeOK
<1>4. StandsAnew
  BY <1>1 DEF StandsAnew, ElectionTypeOK
<1> QED
  BY <1>1, <1>2, <1>3, <1>4 DEF QuietStep, Quiet, LogTypeOK

LEMMA RequestVoteQuiet ==
  ASSUME LogTypeOK, ElectionTypeOK, NEW c \in Server, NEW s \in Server, RequestVote(c, s)
  PROVE  QuietStep
<1> DEFINE grant == VoteNow(s, c) \in {Nobody, c} /\ UpToDate(c, s)
<1>1. /\ role[c] = "candidate" /\ s # c /\ term[c] >= term[s]
      /\ term' = [term EXCEPT ![s] = term[c]]
      /\ role' = [role EXCEPT ![s] = IF term[c] > term[s] THEN "follower" ELSE role[s]]
      /\ \/ votes' = [votes EXCEPT ![c] = IF grant THEN votes[c] \cup {s} ELSE votes[c]]
         \/ votes' = votes
      /\ UNCHANGED <<log, commit, match, waiting, replies, added, elected, restarts>>
  BY Zenon DEF RequestVote, clients
<1>2. grant => UpToDate(c, s)
  OBVIOUS
<1> HIDE DEF grant
<1>3. \A d \in Server : role'[d] # "follower" => role'[d] = role[d] /\ term'[d] = term[d]
  BY <1>1 DEF ElectionTypeOK
<1>4. \A d \in Server : \A v \in votes'[d] :
        v \in votes[d] \/ (d = c /\ v = s /\ UpToDate(c, s))
  BY <1>1, <1>2 DEF ElectionTypeOK
<1>5. LeadersKept /\ StandsAnew
  BY <1>3 DEF LeadersKept, StandsAnew
<1>6. VotesInformed
  BY <1>3, <1>4 DEF VotesInformed
<1> QED
  BY <1>1, <1>5, <1>6 DEF QuietStep, Quiet, LogTypeOK

LEMMA StepDownQuiet ==
  ASSUME LogTypeOK, ElectionTypeOK, NEW l \in Server, NEW s \in Server, StepDown(l, s)
  PROVE  QuietStep
<1>1. /\ term' = [term EXCEPT ![l] = term[s]]
      /\ role' = [role EXCEPT ![l] = "follower"]
      /\ UNCHANGED <<votes, log, commit, match, waiting, replies, added, elected, restarts>>
  BY Zenon DEF StepDown, clients
<1>2. \A d \in Server : role'[d] # "follower" => role'[d] = role[d] /\ term'[d] = term[d]
  BY <1>1 DEF ElectionTypeOK
<1>3. LeadersKept /\ StandsAnew /\ VotesInformed
  BY <1>1, <1>2 DEF LeadersKept, StandsAnew, VotesInformed
<1> QED
  BY <1>1, <1>3 DEF QuietStep, Quiet, LogTypeOK

LEMMA OtherQuiet ==
  ASSUME LogTypeOK, waiting' \subseteq waiting,
         UNCHANGED <<term, role, votes, log, commit, match, replies, added, elected, restarts>>
  PROVE  QuietStep
<1>1. LeadersKept /\ StandsAnew /\ VotesInformed
  BY DEF LeadersKept, StandsAnew, VotesInformed
<1> QED
  BY <1>1 DEF QuietStep, Quiet, LogTypeOK

\* The invariant is kept by a quiet step.
LEMMA QuietInv ==
  ASSUME IndInv, IndInv', LogInv, TermsGrow, QuietStep
  PROVE  LogInv' /\ CommittedStays
<1>1. /\ ElectionTypeOK /\ ElectionTypeOK'
      /\ LogTypeOK /\ LogOrder /\ AckedSecured /\ CommitSecured /\ RepliesCommitted
      /\ RequestsFresh /\ NeverStale
      /\ Quiet /\ StandsAnew /\ LogTypeOK' /\ waiting' \subseteq waiting
      /\ commit' = commit /\ replies' = replies /\ elected' = elected
  BY DEF IndInv, LogInv, QuietStep
<1>2. LogOrder'
  BY <1>1, QuietOrder
<1>3. AckedSecured'
  BY <1>1, AckedQuiet
<1>4. SecurityKept
  BY <1>1, SecurityQuiet
<1>5. log' = log /\ \A s \in Server : Len(log[s]) <= Len(log'[s])
  BY <1>1, LogTyped DEF Quiet
<1>6. CommitSecured' /\ CommittedStays
  BY <1>1, <1>4, <1>5, CommitStill
<1>7. RepliesCommitted'
  BY <1>1, <1>6, RepliesStill
<1>8. RequestsFresh'
  BY <1>1, RequestsQuiet
<1>9. NeverStale'
  BY <1>1 DEF NeverStale
<1> QED
  BY <1>1, <1>2, <1>3, <1>6, <1>7, <1>8, <1>9 DEF LogInv

LEMMA WinInv ==
  ASSUME IndInv, IndInv', LogInv, TermsGrow, NEW c \in Server, BecomeLeader(c)
  PROVE  LogInv' /\ CommittedStays
<1>1. /\ ElectionTypeOK /\ ElectionTypeOK'
      /\ LogTypeOK /\ LogOrder /\ AckedSecured /\ CommitSecured /\ RepliesCommitted
      /\ RequestsFresh /\ NeverStale
  BY DEF IndInv, LogInv
<1>2. Wins(c) /\ LogTypeOK'
  BY <1>1, BecomeLeaderWins
<1>3. log' = log /\ commit' = commit /\ replies' = replies
  BY <1>2 DEF Wins
<1>4. LogOrder' /\ AckedSecured'
  BY <1>1, <1>2, WinOrder, AckedWin
<1>5. SecurityKept
  BY <1>1, <1>2, SecurityWin
<1>6. \A s \in Server : Len(log[s]) <= Len(log'[s])
  BY <1>1, <1>3, LogTyped
<1>7. CommitSecured' /\ CommittedStays
  BY <1>1, <1>2, <1>3, <1>5, <1>6, CommitStill
<1>8. RepliesCommitted'
  BY <1>1, <1>2, <1>3, <1>7, RepliesStill
<1>9. RequestsFresh'
  BY <1>1, <1>2, RequestsWin
<1>10. NeverStale'
  BY <1>1, <1>3 DEF NeverStale
<1> QED
  BY <1>2, <1>4, <1>7, <1>8, <1>9, <1>10 DEF LogInv

LEMMA AppendInv ==
  ASSUME IndInv, IndInv', LogInv, TermsGrow,
         NEW l \in Server, NEW op \in {"ADD", "GET"}, AppendCommand(l, op)
  PROVE  LogInv' /\ CommittedStays
<1>1. /\ ElectionTypeOK /\ ElectionTypeOK'
      /\ LogTypeOK /\ LogOrder /\ AckedSecured /\ CommitSecured /\ RepliesCommitted
      /\ RequestsFresh /\ NeverStale
  BY DEF IndInv, LogInv
<1>2. /\ Appends(l) /\ LogTypeOK'
      /\ waiting' = waiting \cup {[server |-> l, term |-> term[l],
                                   index |-> Len(log[l]) + 1, floor |-> Acknowledged]}
  BY <1>1, AppendCommandAppends
<1>3. commit' = commit /\ replies' = replies /\ StandsAnew
  BY <1>2 DEF Appends, StandsAnew
<1>4. \A w \in waiting' : w \in waiting \/ (w.server = l /\ w.term = term[l])
  BY <1>2
<1>5. LogOrder'
  BY <1>1, <1>2, <1>3, <1>4, AppendOrder
<1>6. AckedSecured'
  BY <1>1, <1>2, <1>5, AckedAppend
<1>7. SecurityKept
  BY <1>1, <1>2, SecurityAppend
<1>8. \A s \in Server : /\ Len(log[s]) <= Len(log'[s])
                        /\ \A k \in 1..Len(log[s]) : log'[s][k] = log[s][k]
  BY <1>1, <1>2, LogTyped DEF Appends
<1>9. CommitSecured' /\ CommittedStays
  BY <1>1, <1>2, <1>3, <1>7, <1>8, CommitStill
<1>10. RepliesCommitted'
  BY <1>1, <1>2, <1>3, <1>9, RepliesStill
<1>11. RequestsFresh'
  BY <1>1, <1>2, RequestsAppend
<1>12. NeverStale'
  BY <1>1, <1>3 DEF NeverStale
<1> QED
  BY <1>2, <1>5, <1>6, <1>9, <1>10, <1>11, <1>12 DEF LogInv

LEMMA CopyInv ==
  ASSUME IndInv, IndInv', LogInv, TermsGrow,
         NEW l \in Server, NEW r \in Server, AppendEntries(l, r)
  PROVE  LogInv' /\ CommittedStays
<1>1. /\ ElectionTypeOK /\ ElectionTypeOK'
      /\ LogTypeOK /\ LogOrder /\ AckedSecured /\ CommitSecured /\ RepliesCommitted
      /\ RequestsFresh /\ NeverStale
  BY DEF IndInv, LogInv
<1>2. Copies(l, r) /\ LogTypeOK'
  BY <1>1, AppendEntriesCopies
<1>3. replies' = replies
  BY <1>2 DEF Copies
<1>4. StandsAnew
  BY <1>2 DEF Copies, StandsAnew
<1>5. LogOrder'
  BY <1>1, <1>2, <1>4, CopyOrder
<1>6. AckedSecured'
  BY <1>1, <1>2, AckedCopy
<1>7. CommitSecured' /\ CommittedStays
  BY <1>1, <1>2, CommitCopy
<1>8. RepliesCommitted'
  BY <1>1, <1>2, <1>3, <1>7, RepliesStill
<1>9. RequestsFresh'
  BY <1>1, <1>2, RequestsCopy
<1>10. NeverStale'
  BY <1>1, <1>3 DEF NeverStale
<1> QED
  BY <1>2, <1>5, <1>6, <1>7, <1>8, <1>9, <1>10 DEF LogInv

LEMMA CommitInv ==
  ASSUME IndInv, IndInv', LogInv, TermsGrow, NEW l \in Server, NEW n, Commit(l, n)
  PROVE  LogInv' /\ CommittedStays
<1>1. /\ ElectionTypeOK /\ ElectionTypeOK'
      /\ LogTypeOK /\ LogOrder /\ AckedSecured /\ CommitSecured /\ RepliesCommitted
      /\ RequestsFresh /\ NeverStale
  BY DEF IndInv, LogInv
<1>2. Commits(l, n) /\ LogTypeOK' /\ Quiet
  BY <1>1, CommitCommits
<1>3. waiting' \subseteq waiting /\ elected' = elected /\ StandsAnew
  BY <1>2 DEF Commits, StandsAnew
<1>4. LogOrder'
  BY <1>1, <1>2, <1>3, QuietOrder
<1>5. AckedSecured'
  BY <1>1, <1>2, AckedQuiet
<1>6. CommitSecured' /\ CommittedStays
  BY <1>1, <1>2, CommitCommitted
<1>7. RepliesCommitted' /\ NeverStale'
  BY <1>1, <1>2, <1>6, CommitAnswers
<1>8. RequestsFresh'
  BY <1>1, <1>2, <1>3, RequestsQuiet
<1> QED
  BY <1>2, <1>4, <1>5, <1>6, <1>7, <1>8 DEF LogInv

LEMMA NextKeepsLogs ==
  ASSUME IndInv, IndInv', LogInv, [Next]_vars, ~\E s \in Server : Restart(s)
  PROVE  LogInv' /\ CommittedStays
<1>1. TermsGrow
  BY NextIsVoteStep, GrowingTerms DEF IndInv
<1>2. ElectionTypeOK /\ LogTypeOK
  BY DEF IndInv, LogInv
<1>3. ASSUME QuietStep PROVE LogInv' /\ CommittedStays
  BY <1>1, <1>3, QuietInv
<1>4. ASSUME NEW s \in Server, StartElection(s) PROVE QuietStep
  BY <1>2, <1>4, StartElectionQuiet
<1>5. ASSUME NEW s \in Server, NEW r \in Server, RequestVote(s, r) PROVE QuietStep
  BY <1>2, <1>5, RequestVoteQuiet
<1>6. ASSUME NEW s \in Server, NEW r \in Server, StepDown(s, r) PROVE QuietStep
  BY <1>2, <1>6, StepDownQuiet
<1>7. ASSUME NEW w \in waiting, Timeout(w) PROVE QuietStep
  BY <1>2, <1>7, OtherQuiet DEF Timeout, persistent, volatile
<1>8. CASE UNCHANGED vars
  <2>1. QuietStep
    BY <1>2, <1>8, OtherQuiet DEF vars, persistent, volatile, clients
  <2> QED
    BY <1>3, <2>1
<1>9. ASSUME NEW s \in Server, BecomeLeader(s) PROVE LogInv' /\ CommittedStays
  BY <1>1, <1>9, WinInv
<1>10. ASSUME NEW s \in Server, NEW r \in Server, AppendEntries(s, r)
       PROVE  LogInv' /\ CommittedStays
  BY <1>1, <1>10, CopyInv
<1>11. ASSUME NEW s \in Server, NEW op \in {"ADD", "GET"}, Replicate(s, op)
       PROVE  LogInv' /\ CommittedStays
  BY <1>1, <1>11, AppendInv DEF Replicate
<1>12. ASSUME NEW s \in Server, NEW n \in 1..MaxLog, Commit(s, n)
       PROVE  LogInv' /\ CommittedStays
  BY <1>1, <1>12, CommitInv
<1> QED
  BY <1>3, <1>4, <1>5, <1>6, <1>7, <1>8, <1>9, <1>10, <1>11, <1>12 DEF Next

\* A restart is remembered; every other step leaves the count alone.
LEMMA RestartsCount ==
  ASSUME [Next]_vars
  PROVE  \/ restarts' = restarts + 1
         \/ restarts' = restarts /\ ~\E s \in Server : Restart(s)
<1>1. ASSUME NEW s \in Server, Restart(s) PROVE restarts' = restarts + 1
  BY <1>1 DEF Restart, LoseMemory
<1>2. CASE ~\E s \in Server : Restart(s)
  <2>1. ASSUME NEW s \in Server, StartElection(s) \/ BecomeLeader(s) PROVE restarts' = restarts
    BY <2>1 DEF StartElection, BecomeLeader
  <2>2. ASSUME NEW s \in Server, NEW r \in Server,
               RequestVote(s, r) \/ AppendEntries(s, r) \/ StepDown(s, r)
        PROVE  restarts' = restarts
    BY <2>2 DEF RequestVote, AppendEntries, StepDown
  <2>3. ASSUME NEW s \in Server, NEW op, Replicate(s, op) PROVE restarts' = restarts
    BY <2>3 DEF Replicate, AppendCommand
  <2>4. ASSUME NEW s \in Server, NEW n, Commit(s, n) PROVE restarts' = restarts
    BY <2>4 DEF Commit
  <2>5. ASSUME NEW w, Timeout(w) PROVE restarts' = restarts
    BY <2>5 DEF Timeout
  <2>6. CASE UNCHANGED vars
    BY <1>2, <2>6 DEF vars
  <2> QED
    BY <1>2, <2>1, <2>2, <2>3, <2>4, <2>5, <2>6 DEF Next
<1> QED
  BY <1>1, <1>2

LEMMA NextCluster ==
  ClusterInv /\ [Next]_vars => ClusterInv' /\ (restarts' = 0 => CommittedStays)
<1> SUFFICES ASSUME ClusterInv, [Next]_vars
             PROVE  ClusterInv' /\ (restarts' = 0 => CommittedStays)
  OBVIOUS
<1>1. IndInv /\ restarts \in Nat /\ (restarts = 0 => LogInv)
  BY DEF ClusterInv
<1>2. IndInv'
  BY <1>1, NextElections
<1>3. CASE restarts' = restarts + 1
  BY <1>1, <1>2, <1>3 DEF ClusterInv
<1>4. CASE restarts' = restarts /\ ~\E s \in Server : Restart(s)
  <2>1. restarts = 0 => LogInv' /\ CommittedStays
    BY <1>1, <1>2, <1>4, NextKeepsLogs
  <2> QED
    BY <1>1, <1>2, <1>4, <2>1 DEF ClusterInv
<1> QED
  BY <1>3, <1>4, RestartsCount

-----------------------------------------------------------------------------
LEMMA ClusterInvAgrees == ClusterInv => CommittedAgree
<1> SUFFICES ASSUME LogTypeOK, CommitSecured,
                    NEW s \in Server, NEW r \in Server, NEW i \in 1..commit[s], i <= commit[r]
             PROVE  i \in DOMAIN log[s] \cap DOMAIN log[r] /\ log[s][i] = log[r][i]
  BY DEF ClusterInv, LogInv, CommittedAgree
<1>1. \A x \in {s, r} : /\ commit[x] \in Nat /\ commit[x] <= Len(log[x]) /\ Len(log[x]) \in Nat
                        /\ DOMAIN log[x] = 1..Len(log[x])
  BY CommitTyped, LogTyped, LenProperties DEF LogTypeOK
<1>2. i \in 1..commit[r] /\ commit[s] > 0 /\ commit[r] > 0
  BY <1>1
<1>3. PICK Q \in SUBSET Server : Majority(Q) /\ Secured(First(s, commit[s]), Q)
  BY <1>2 DEF CommitSecured
<1>4. PICK R \in SUBSET Server : Majority(R) /\ Secured(First(r, commit[r]), R)
  BY <1>2 DEF CommitSecured
<1>5. PICK q \in Server : q \in Q /\ q \in R
  BY <1>3, <1>4, MajoritiesMeet
<1>6. ASSUME NEW x \in {s, r}, Has(q, First(x, commit[x])), i \in 1..commit[x]
      PROVE  log[q][i] = log[x][i]
  <2>1. x \in Server /\ commit[x] \in 1..Len(log[x])
    BY <1>1, <1>6
  <2>2. /\ Len(First(x, commit[x])) = commit[x]
        /\ First(x, commit[x])[i] = log[x][i]
    BY <1>6, <2>1, FirstIs
  <2> QED
    BY <1>6, <2>2 DEF Has
<1>7. Has(q, First(s, commit[s])) /\ Has(q, First(r, commit[r]))
  BY <1>3, <1>4, <1>5 DEF Secured, Backs
<1>8. log[q][i] = log[s][i] /\ log[q][i] = log[r][i]
  BY <1>2, <1>6, <1>7
<1> QED
  BY <1>1, <1>2, <1>8

(* While nobody has lost its log, two servers agree on every entry that    *)
(* both have committed, whatever the order of elections, crashes of a      *)
(* leader's term and lost acknowledgements: mem_log_store behind NuRaft    *)
(* applies one sequence of commands everywhere.                            *)
THEOREM CommittedAgreeHolds == Spec => []CommittedAgree
  BY InitCluster, NextCluster, ClusterInvAgrees, PTL DEF Spec

(* While nobody has lost its log, a `get` that goes through the log        *)
(* contains whatever any client was told before the call was made: no      *)
(* deposed leader answers from an old counter.                             *)
THEOREM NeverStaleHolds == Spec => []NeverStaleWithLogs
<1>1. ClusterInv => NeverStaleWithLogs
  BY DEF ClusterInv, LogInv, NeverStaleWithLogs
<1> QED
  BY <1>1, InitCluster, NextCluster, PTL DEF Spec

(* Until somebody restarts, no server ever loses or replaces an entry it   *)
(* has committed, and so given to counter_state_machine: commit_index      *)
(* never points at other entries than those already applied.               *)
THEOREM CommittedForever == Spec => [][restarts' = 0 => CommittedStays]_vars
<1>1. ClusterInv /\ [Next]_vars => [restarts' = 0 => CommittedStays]_vars
  BY NextCluster
<1> QED
  BY <1>1, InitCluster, NextCluster, PTL DEF Spec
=============================================================================
