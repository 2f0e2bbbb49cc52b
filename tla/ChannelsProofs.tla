--------------------------- MODULE ChannelsProofs ---------------------------
(***************************************************************************)
(* What channels keep to, the order in which values come out of them, and  *)
(* that nobody meets a closed one, in each of the forty-four programs, for *)
(* every number of items and workers and every interleaving.               *)
(*                                                                         *)
(* A program is tidy when each process can be given a role: the channels   *)
(* it reads from, writes to and closes, and whether it sends on what it    *)
(* receives, such that no process reads two channels that one other        *)
(* process writes to, and a process that sends on has one source only.     *)
(* It is orderly when who closes a channel does so after all that write to *)
(* it or count on it.  The first part shows that every step of a tidy      *)
(* program keeps the invariant, the second that in an orderly one closing  *)
(* hurts nobody, the third that all programs are tidy and orderly.         *)
(***************************************************************************)
EXTENDS Channels, FiniteSetTheorems, SequenceTheorems, TLAPS

FitsLoop(ph, R, W, relays) ==
  /\ ph.pattern \in Seq({"s", "r", "t"}) /\ ph.pattern # <<>>
  /\ ph.in \in SUBSET R
  /\ \A k \in DOMAIN ph.chain : ph.chain[k] \in R
  /\ (\E k \in DOMAIN ph.pattern : ph.pattern[k] = "s") => ph.out \in W /\ (ph.relay <=> relays)
  /\ ph.relay => ph.pattern = <<"r", "s">>
  /\ ph.prime > 0 => ph.relay /\ ph.n = Forever
  /\ ph.lossy => ph.pattern = <<"r">> /\ ph.until = {}
FitsPhase(ph, R, W, C, relays) ==
  \/ ph.op = "loop" /\ FitsLoop(ph, R, W, relays)
  \/ ph.op = "close" /\ ph.chan \in C
  \/ ph.op = "stop" /\ ph.chan \in W
  \/ ph.op \in {"join", "spawned", "atomic", "load", "store"}
Fits(code, R, W, C, relays) ==
  /\ Len(code) \in Nat /\ DOMAIN code = 1..Len(code)
  /\ \A k \in DOMAIN code : FitsPhase(code[k], R, W, C, relays)
\* Waits in one channel at a time.
Solo(code) == \A k \in DOMAIN code :
                code[k].op = "loop" => ~code[k].lossy /\ \A a, b \in code[k].in : a = b

Linked(P, C, role) ==
  /\ \A p \in P : /\ role.reads[p] \in SUBSET C /\ role.writes[p] \in SUBSET C
                  /\ role.closes[p] \in SUBSET C
  /\ \A p, q \in P : \A c, d \in role.writes[p] \cap role.reads[q] : c = d
  /\ \A p, v, w \in P :
       role.relays[p] /\ role.writes[v] \cap role.reads[p] # {}
               /\ role.writes[w] \cap role.reads[p] # {}
         => v = w

Tidy(pr, role) ==
  /\ \A c \in DOMAIN pr.cap : pr.cap[c] \in Nat
  /\ Linked(DOMAIN pr.code, DOMAIN pr.cap, role)
  /\ \A p \in DOMAIN pr.code :
       Fits(pr.code[p], role.reads[p], role.writes[p], role.closes[p], role.relays[p])
  /\ \A p, q \in DOMAIN pr.code :
       p # q /\ role.closes[p] \cap role.reads[q] # {} => Solo(pr.code[q])

-----------------------------------------------------------------------------
Turn(code, x, op) == /\ x.at <= Len(code) /\ code[x.at].op = "loop"
                     /\ code[x.at].pattern[(x.k % Len(code[x.at].pattern)) + 1] = op
InputsOf(code, x) ==
  IF code[x.at].chain = <<>> THEN code[x.at].in
  ELSE {code[x.at].chain[k] : k \in DOMAIN code[x.at].chain \cap {Len(x.got) + 1}}

Item(P) == [from : P, seq : Nat, by : P]
Less(i, j) == i.from = j.from /\ i.by = j.by /\ j.seq # 0 => i.seq < j.seq
Sorted(s) == \A j, k \in DOMAIN s : j < k => Less(s[j], s[k])
NoDup(s) == \A j, k \in DOMAIN s : s[j] = s[k] => j = k
In(s, e) == \E k \in DOMAIN s : s[k] = e
Has(x, i) == i \in x.arrived \/ In(x.got, i)

ProcType(P, x) == x \in [at : Nat \ {0}, k : Nat, status : {"run", "send", "receive", "won"},
                         hand : {x.hand}, sent : Nat, got : Seq(Item(P)),
                         arrived : SUBSET Item(P), lost : SUBSET Item(P), reg : {x.reg}]
ProcOK(p, code, x, role) ==
  /\ x.at <= Len(code) + 1
  /\ x.status = "won" => Turn(code, x, "r") /\ code[x.at].lossy
  /\ x.arrived # {} => x.status = "won"
  /\ Sorted(x.got)
  /\ \A j \in DOMAIN x.got : x.got[j].seq # 0
  /\ \A j \in DOMAIN x.got : \A i \in x.arrived : Less(x.got[j], i)
  /\ \A i, j \in x.arrived : i.by = j.by => i = j
  /\ role.relays[p] /\ Turn(code, x, "s") => x.got # <<>> /\ x.hand = x.got[Len(x.got)]
  /\ \A i : Has(x, i) => role.writes[i.by] \cap role.reads[p] # {}

ChanType(P, y) == y \in [buf : Seq(Item(P)), senders : Seq(P), receivers : Seq(P), closed : BOOLEAN]
ChanOK(c, y, cap, role) ==
  /\ Len(y.buf) <= cap
  /\ y.receivers # <<>> => y.buf = <<>> /\ y.senders = <<>>
  /\ y.senders # <<>> => Len(y.buf) = cap
  /\ Sorted(y.buf)
  /\ \A k \in DOMAIN y.buf : c \in role.writes[y.buf[k].by]
  /\ NoDup(y.receivers)
  /\ NoDup(y.senders)

Waits(c, p, code, x, role) ==
  /\ Turn(code, x, "r") /\ c \in InputsOf(code, x)
  /\ x.status = "receive" \/ (code[x.at].lossy /\ x.status = "won")
  /\ \A i \in x.arrived : c \notin role.writes[i.by]
Suspended(c, p, code, x) == Turn(code, x, "s") /\ code[x.at].out = c /\ x.status = "send"

Accounted(i, relays, code, x) ==
  i.seq # 0 =>
    IF relays
    THEN \E j \in DOMAIN x.got : /\ x.got[j].from = i.from /\ x.got[j].seq = i.seq
                                 /\ Turn(code, x, "s") => j < Len(x.got)
    ELSE i.from = i.by /\ i.seq <= x.sent

\* The parts of the invariant, of channels ch and coroutines pr.
Holding(ch, pr, i) == \/ \E c \in DOMAIN ch : In(ch[c].buf, i)
                      \/ \E p \in DOMAIN pr : Has(pr[p], i)
Shape(ch, pr) == /\ program.name \in Programs
                 /\ DOMAIN ch = DOMAIN program.cap /\ DOMAIN pr = DOMAIN program.code
Procs(role, pr) ==
  \A p \in DOMAIN pr : ProcType(DOMAIN pr, pr[p]) /\ ProcOK(p, Code(p), pr[p], role)
Chans(role, ch, pr) ==
  \A c \in DOMAIN ch : ChanType(DOMAIN pr, ch[c]) /\ ChanOK(c, ch[c], Cap(c), role)
Waiting(role, ch, pr) ==
  \A c \in DOMAIN ch, p \in DOMAIN pr :
    In(ch[c].receivers, p) => Waits(c, p, Code(p), pr[p], role)
Suspending(ch, pr) ==
  \A c \in DOMAIN ch, p \in DOMAIN pr :
    In(ch[c].senders, p) => Suspended(c, p, Code(p), pr[p])
Ahead(role, ch, pr) ==
  \A p \in DOMAIN pr : \A c \in role.reads[p] : \A i : \A k \in DOMAIN ch[c].buf :
    Has(pr[p], i) => Less(i, ch[c].buf[k])
Accounts(role, ch, pr) ==
  \A i : Holding(ch, pr, i) => Accounted(i, role.relays[i.by], Code(i.by), pr[i.by])

InvAt(role, ch, pr) ==
  /\ Shape(ch, pr) /\ Tidy(program, role)
  /\ Procs(role, pr) /\ Chans(role, ch, pr) /\ Waiting(role, ch, pr) /\ Suspending(ch, pr)
  /\ Ahead(role, ch, pr) /\ Accounts(role, ch, pr)
Inv(role) == InvAt(role, chan, proc)
Held(i) == Holding(chan, proc, i)

-----------------------------------------------------------------------------
LEMMA RemovedFacts ==
  ASSUME NEW P, NEW s \in Seq(P), NoDup(s), NEW p
  PROVE  /\ Removed(p, s) \in Seq(P) /\ NoDup(Removed(p, s))
         /\ \A q : In(Removed(p, s), q) <=> In(s, q) /\ q # p
         /\ Removed(p, s) # <<>> => s # <<>>
<1>1. CASE ~In(s, p)
  BY <1>1 DEF In, Removed
<1>2. CASE In(s, p)
  <2> DEFINE k == CHOOSE k \in DOMAIN s : s[k] = p
             t == [j \in 1..(Len(s) - 1) |-> IF j < k THEN s[j] ELSE s[j + 1]]
  <2>1. k \in 1..Len(s) /\ s[k] = p
    BY <1>2 DEF In
  <2>2. Removed(p, s) = SubSeq(s, 1, k - 1) \o SubSeq(s, k + 1, Len(s))
    BY <1>2 DEF In, Removed, SE!RemoveAt
  <2> HIDE DEF k
  <2>3. Removed(p, s) = t
    <3> DEFINE u == SubSeq(s, 1, k - 1)
               v == SubSeq(s, k + 1, Len(s))
    <3>1. u \in Seq(P) /\ Len(u) = k - 1 /\ \A j \in 1..(k - 1) : u[j] = s[j]
      BY <2>1
    <3>2. v \in Seq(P) /\ Len(v) = Len(s) - k /\ \A j \in 1..(Len(s) - k) : v[j] = s[j + k]
      BY <2>1
    <3> HIDE DEF u, v
    <3>3. /\ u \o v \in Seq(P) /\ Len(u \o v) = Len(u) + Len(v)
          /\ \A j \in 1..(Len(u) + Len(v)) : (u \o v)[j] = IF j <= Len(u) THEN u[j] ELSE v[j - Len(u)]
      BY <3>1, <3>2, ConcatProperties
    <3>4. /\ t \in Seq(P) /\ Len(u \o v) = Len(t)
          /\ \A j \in 1..Len(u \o v) : (u \o v)[j] = t[j]
      BY <3>1, <3>2, <3>3, <2>1
    <3>5. u \o v = t
      BY <3>3, <3>4, SeqEqual
    <3>6. Removed(p, s) = u \o v
      BY <2>2 DEF u, v
    <3> QED BY <3>5, <3>6
  <2>4. t \in Seq(P) /\ Len(t) = Len(s) - 1
    BY <2>1
  <2>5. NoDup(t)
    BY <2>1, <2>4 DEF NoDup
  <2>6. ASSUME NEW q, In(t, q) PROVE In(s, q) /\ q # p
    BY <2>1, <2>4, <2>6 DEF In, NoDup
  <2>7. ASSUME NEW q, In(s, q), q # p PROVE In(t, q)
    <3>1. PICK j \in 1..Len(s) : s[j] = q
      BY <2>7 DEF In
    <3>2. CASE j < k
      <4>1. j \in DOMAIN t /\ t[j] = q
        BY <3>1, <3>2, <2>1
      <4> QED BY <4>1 DEF In
    <3>3. CASE j > k
      <4>1. j - 1 \in DOMAIN t /\ t[j - 1] = q
        BY <3>1, <3>3, <2>1
      <4> QED BY <4>1 DEF In
    <3> QED BY <3>1, <3>2, <3>3, <2>1, <2>7
  <2>8. s # <<>>
    BY <2>1
  <2> QED BY <2>3, <2>4, <2>5, <2>6, <2>7, <2>8
<1> QED BY <1>1, <1>2

-----------------------------------------------------------------------------
Fields(x) == /\ x.at \in Nat \ {0} /\ x.k \in Nat /\ x.sent \in Nat
             /\ x.status \in {"run", "send", "receive", "won"}
             /\ x.got \in Seq(Item(Proc)) /\ x.arrived \in SUBSET Item(Proc)
             /\ x.lost \in SUBSET Item(Proc)

LEMMA TypeFields == ASSUME NEW x, ProcType(Proc, x) PROVE Fields(x)
  BY DEF ProcType, Fields

LEMMA LoopFits ==
  ASSUME NEW role, Inv(role), NEW p \in Proc, NEW op, Turn(Code(p), proc[p], op)
  PROVE  /\ ~Returned(p) /\ Phase(p).op = "loop" /\ proc[p].at \in DOMAIN Code(p)
         /\ FitsLoop(Phase(p), role.reads[p], role.writes[p], role.relays[p])
         /\ Len(Phase(p).pattern) \in Nat \ {0}
         /\ (proc[p].k % Len(Phase(p).pattern)) + 1 \in DOMAIN Phase(p).pattern
         /\ Inputs(p) = InputsOf(Code(p), proc[p])
         /\ \A c \in Inputs(p) : c \in role.reads[p]
<1>1. proc[p].at \in Nat \ {0} /\ proc[p].k \in Nat
  BY TypeFields DEF Inv, InvAt, Proc, Chan, Procs, Fields
<1>2. Fits(Code(p), role.reads[p], role.writes[p], role.closes[p], role.relays[p])
  BY DEF Inv, InvAt, Proc, Chan, Tidy, Code, Shape
<1>3. proc[p].at \in DOMAIN Code(p) /\ Phase(p).op = "loop" /\ ~Returned(p)
  BY <1>1, <1>2 DEF Turn, Fits, Returned, Phase
<1>4. FitsLoop(Phase(p), role.reads[p], role.writes[p], role.relays[p])
  BY <1>2, <1>3 DEF Fits, FitsPhase, Phase
<1>5. Len(Phase(p).pattern) \in Nat \ {0}
  BY <1>4, EmptySeq DEF FitsLoop
<1>8. (proc[p].k % Len(Phase(p).pattern)) + 1 \in DOMAIN Phase(p).pattern
  <2>1. Phase(p).pattern \in Seq({"s", "r", "t"})
    BY <1>4 DEF FitsLoop
  <2> QED BY <2>1, <1>1, <1>5
<1>6. Inputs(p) = InputsOf(Code(p), proc[p])
  BY DEF Inputs, InputsOf, Phase
<1>7. \A c \in Inputs(p) : c \in role.reads[p]
  BY <1>4 DEF Inputs, FitsLoop
<1> QED BY <1>3, <1>4, <1>5, <1>6, <1>7, <1>8

LEMMA LeftFacts ==
  ASSUME NEW x, ProcType(Proc, x)
  PROVE  /\ ProcType(Proc, Left(x))
         /\ Left(x).at = x.at + 1 /\ Left(x).k = 0 /\ Left(x).status = "run"
         /\ Left(x).got = x.got /\ Left(x).arrived = x.arrived /\ Left(x).sent = x.sent
         /\ Left(x).hand = x.hand /\ Left(x).lost = x.lost
<1> DEFINE a == x.at + 1
<1>1. a \in Nat \ {0} /\ Left(x) = [x EXCEPT !.at = a, !.k = 0, !.status = "run"]
  BY DEF ProcType, Left
<1> HIDE DEF a
<1>2. LET y == [x EXCEPT !.at = a, !.k = 0, !.status = "run"]
      IN  /\ ProcType(Proc, y) /\ y.at = a /\ y.k = 0 /\ y.status = "run"
          /\ y.got = x.got /\ y.arrived = x.arrived /\ y.sent = x.sent
          /\ y.hand = x.hand /\ y.lost = x.lost
  BY <1>1 DEF ProcType
<1> QED BY <1>1, <1>2 DEF a

LEMMA SteppedFacts ==
  ASSUME NEW p, NEW x, ProcType(Proc, x), Len(Phase(p).pattern) \in Nat \ {0}
  PROVE  LET y == Stepped(p, x)
         IN  /\ ProcType(Proc, y)
             /\ \/ y.at = x.at + 1 /\ y.k = 0 /\ Phase(p).n # Forever
                \/ y.at = x.at /\ y.k = IF Phase(p).n = Forever THEN (x.k + 1) % Len(Phase(p).pattern)
                                        ELSE x.k + 1
             /\ y.status = "run"
             /\ y.got = x.got /\ y.arrived = x.arrived /\ y.sent = x.sent
             /\ y.hand = x.hand /\ y.lost = x.lost
<1>1. CASE Phase(p).n # Forever /\ x.k + 1 = Phase(p).n * Len(Phase(p).pattern)
  BY <1>1, LeftFacts DEF Stepped
<1>2. CASE ~(Phase(p).n # Forever /\ x.k + 1 = Phase(p).n * Len(Phase(p).pattern))
  <2> DEFINE k == IF Phase(p).n = Forever THEN (x.k + 1) % Len(Phase(p).pattern) ELSE x.k + 1
  <2>1. k \in Nat
    BY DEF ProcType
  <2>2. Stepped(p, x) = [x EXCEPT !.k = k, !.status = "run"]
    BY <1>2 DEF Stepped
  <2> HIDE DEF k
  <2>3. LET y == [x EXCEPT !.k = k, !.status = "run"]
        IN  /\ ProcType(Proc, y) /\ y.at = x.at /\ y.k = k /\ y.status = "run"
            /\ y.got = x.got /\ y.arrived = x.arrived /\ y.sent = x.sent
            /\ y.hand = x.hand /\ y.lost = x.lost
    BY <2>1 DEF ProcType
  <2> QED BY <2>2, <2>3 DEF k
<1> QED BY <1>1, <1>2

\* A relay sends at every second step of its pattern only.
LEMMA RelayTurn ==
  ASSUME NEW role, Inv(role), NEW p \in Proc, role.relays[p],
         NEW x, ProcType(Proc, x), Turn(Code(p), x, "s")
  PROVE  /\ x.at \in DOMAIN Code(p) /\ Code(p)[x.at].relay
         /\ Code(p)[x.at].pattern = <<"r", "s">> /\ x.k % 2 = 1
<1>1. x.at \in Nat \ {0} /\ x.k \in Nat
  BY TypeFields DEF Fields
<1>2. Fits(Code(p), role.reads[p], role.writes[p], role.closes[p], role.relays[p])
  BY DEF Inv, InvAt, Proc, Chan, Tidy, Code, Shape
<1>3. x.at \in DOMAIN Code(p) /\ Code(p)[x.at].op = "loop"
  BY <1>1, <1>2 DEF Turn, Fits
<1> DEFINE ph == Code(p)[x.at]
<1>4. FitsLoop(ph, role.reads[p], role.writes[p], role.relays[p])
  BY <1>2, <1>3 DEF Fits, FitsPhase
<1>5. Len(ph.pattern) \in Nat \ {0} /\ ph.pattern \in Seq({"s", "r", "t"})
  BY <1>4, EmptySeq DEF FitsLoop
<1>6. (x.k % Len(ph.pattern)) + 1 \in DOMAIN ph.pattern
  BY <1>1, <1>5
<1>7. ph.relay
  BY <1>4, <1>6 DEF Turn, FitsLoop
<1>8. ph.pattern = <<"r", "s">>
  BY <1>4, <1>7 DEF FitsLoop
<1>9. x.k % 2 = 1
  BY <1>1, <1>8 DEF Turn
<1> QED BY <1>3, <1>7, <1>8, <1>9

Quiet(p, y, role) ==
  /\ ProcType(Proc, y) /\ ProcOK(p, Code(p), y, role)
  /\ y.got = proc[p].got /\ y.arrived = {} /\ y.status = "run"
  /\ \A h \in Item(Proc) : Accounted(h, role.relays[p], Code(p), proc[p])
              => Accounted(h, role.relays[p], Code(p), y)

LEMMA QuietMove ==
  ASSUME NEW role, Inv(role), NEW p \in Proc, NEW y, ProcType(Proc, y),
         y.got = proc[p].got, y.arrived = {}, proc[p].arrived = {},
         y.sent >= proc[p].sent, y.at <= Len(Code(p)) + 1, y.status = "run",
         role.relays[p] => ~Turn(Code(p), y, "s")
  PROVE  Quiet(p, y, role)
<1>1. ProcOK(p, Code(p), proc[p], role) /\ ProcType(Proc, proc[p])
  BY DEF Inv, InvAt, Proc, Chan, Procs
<1>2. ProcOK(p, Code(p), y, role)
  <2>1. \A i : Has(y, i) => Has(proc[p], i)
    BY DEF Has
  <2> QED BY <1>1, <2>1 DEF ProcOK
<1>3. Fields(proc[p]) /\ Fields(y)
  BY <1>1, TypeFields
<1>4. ASSUME NEW h \in Item(Proc), Accounted(h, role.relays[p], Code(p), proc[p])
      PROVE  Accounted(h, role.relays[p], Code(p), y)
  <2>1. CASE h.seq = 0
    BY <2>1 DEF Accounted
  <2>2. CASE h.seq # 0 /\ role.relays[p]
    BY <2>2, <1>4 DEF Accounted
  <2>3. CASE h.seq # 0 /\ ~role.relays[p]
    <3>1. h.from = h.by /\ h.seq <= proc[p].sent
      BY <2>3, <1>4 DEF Accounted
    <3> SUFFICES h.seq <= y.sent
      BY <2>3, <3>1 DEF Accounted
    <3> QED BY <3>1, <1>3 DEF Fields, Item
  <2> QED BY <2>1, <2>2, <2>3
<1> QED BY <1>2, <1>4 DEF Quiet

Emission(p, c, i, y, role) ==
  /\ Quiet(p, y, role)
  /\ i \in Item(Proc) /\ i.by = p /\ c \in Chan /\ c \in role.writes[p]
  /\ \A h : Held(h) => Less(h, i)
  /\ Accounted(i, role.relays[p], Code(p), y)

LEMMA HeldTypes ==
  ASSUME NEW role, Inv(role), NEW i, Held(i)
  PROVE  i \in Item(Proc) /\ Accounted(i, role.relays[i.by], Code(i.by), proc[i.by])
<1>1. ASSUME NEW c \in Chan, In(chan[c].buf, i) PROVE i \in Item(Proc)
  BY <1>1, ElementOfSeq, LenProperties DEF Inv, InvAt, Proc, Chan, Chans, ChanType, In
<1>2. ASSUME NEW p \in Proc, Has(proc[p], i) PROVE i \in Item(Proc)
  BY <1>2, ElementOfSeq, LenProperties DEF Inv, InvAt, Proc, Chan, Procs, ProcType, Has, In
<1>3. i \in Item(Proc)
  BY <1>1, <1>2 DEF Held, Holding, Proc, Chan
<1> QED BY <1>3 DEF Inv, InvAt, Proc, Chan, Accounts, Held

\* A relay reads from one writer only: what it got from one maker is in order.
LEMMA OneWriter ==
  ASSUME NEW role, Inv(role), NEW p \in Proc, role.relays[p],
         NEW j \in DOMAIN proc[p].got, NEW k \in DOMAIN proc[p].got
  PROVE  proc[p].got[j].by = proc[p].got[k].by
<1>1. proc[p].got \in Seq(Item(Proc))
  BY TypeFields DEF Inv, InvAt, Proc, Chan, Procs, Fields
<1> DEFINE a == proc[p].got[j]
           b == proc[p].got[k]
<1>2. a \in Item(Proc) /\ b \in Item(Proc)
  BY <1>1, ElementOfSeq, LenProperties
<1>3. Has(proc[p], a) /\ Has(proc[p], b)
  BY DEF Has, In
<1>4. role.writes[a.by] \cap role.reads[p] # {} /\ role.writes[b.by] \cap role.reads[p] # {}
  BY <1>3 DEF Inv, InvAt, Proc, Chan, Procs, ProcOK
<1>5. a.by \in Proc /\ b.by \in Proc
  BY <1>2 DEF Item
<1> HIDE DEF a, b
<1>6. a.by = b.by
  BY <1>4, <1>5 DEF Inv, InvAt, Proc, Chan, Tidy, Linked, Shape
<1> QED BY <1>6 DEF a, b

LEMMA OutgoingFacts ==
  ASSUME NEW role, Inv(role), NEW p \in Proc, Turn(Code(p), proc[p], "s")
  PROVE  LET i == Outgoing(p)
         IN  /\ i \in Item(Proc) /\ i.by = p /\ i.seq # 0
             /\ (Phase(p).relay <=> role.relays[p])
             /\ role.relays[p] => LET g == proc[p].got
                                  IN  /\ g # <<>> /\ Len(g) \in DOMAIN g
                                      /\ i.from = g[Len(g)].from /\ i.seq = g[Len(g)].seq
             /\ ~role.relays[p] => i.from = p /\ i.seq = proc[p].sent + 1
<1>1. Fields(proc[p])
  BY TypeFields DEF Inv, InvAt, Proc, Chan, Procs
<1>2. (Phase(p).relay <=> role.relays[p])
  <2>1. /\ FitsLoop(Phase(p), role.reads[p], role.writes[p], role.relays[p])
        /\ Len(Phase(p).pattern) \in Nat \ {0}
    BY LoopFits
  <2>2. (proc[p].k % Len(Phase(p).pattern)) + 1 \in DOMAIN Phase(p).pattern
    BY LoopFits
  <2> QED BY <2>1, <2>2 DEF Turn, FitsLoop, Phase
<1>4. CASE ~role.relays[p]
  <2>1. Outgoing(p) = [from |-> p, seq |-> proc[p].sent + 1, by |-> p]
    BY <1>2, <1>4 DEF Outgoing
  <2> QED BY <2>1, <1>1, <1>2, <1>4 DEF Fields, Item
<1>5. CASE role.relays[p]
  <2> DEFINE g == proc[p].got
             a == g[Len(g)]
  <2>1. g # <<>> /\ proc[p].hand = a
    BY <1>5 DEF Inv, InvAt, Proc, Chan, Procs, ProcOK
  <2>2. Len(g) \in DOMAIN g /\ a \in Item(Proc) /\ a.seq # 0
    <3>1. g \in Seq(Item(Proc)) /\ Len(g) \in Nat \ {0}
      BY <1>1, <2>1, EmptySeq DEF Fields
    <3>2. Len(g) \in DOMAIN g /\ a \in Item(Proc)
      BY <3>1, ElementOfSeq, LenProperties
    <3> QED BY <3>2 DEF Inv, InvAt, Proc, Chan, Procs, ProcOK
  <2>3. Outgoing(p) = [a EXCEPT !.by = p]
    BY <1>2, <1>5, <2>1 DEF Outgoing
  <2> HIDE DEF a
  <2>4. LET i == [a EXCEPT !.by = p]
        IN  i \in Item(Proc) /\ i.by = p /\ i.seq = a.seq /\ i.from = a.from
    BY <2>2 DEF Item
  <2> QED BY <1>2, <1>5, <2>1, <2>2, <2>3, <2>4 DEF a
<1> QED BY <1>4, <1>5

\* What p is about to send comes after all it has sent.
LEMMA OutgoingIsNew ==
  ASSUME NEW role, Inv(role), NEW p \in Proc, Turn(Code(p), proc[p], "s"),
         NEW h, Held(h)
  PROVE  Less(h, Outgoing(p))
<1> DEFINE i == Outgoing(p)
<1> SUFFICES ASSUME h.from = i.from, h.by = i.by, h.seq # 0 PROVE h.seq < i.seq
  <2>1. h \in Item(Proc) /\ i \in Item(Proc)
    BY HeldTypes, OutgoingFacts
  <2>2. h.seq \in Nat /\ i.seq \in Nat /\ i.seq # 0
    BY <2>1, OutgoingFacts DEF Item
  <2>3. h.seq = 0 => h.seq < i.seq
    BY <2>2
  <2> HIDE DEF i
  <2> QED BY <2>3 DEF Less, i
<1>1. /\ h \in Item(Proc) /\ h.by = p /\ Accounted(h, role.relays[p], Code(p), proc[p])
  BY HeldTypes, OutgoingFacts
<1>2. Fields(proc[p])
  BY TypeFields DEF Inv, InvAt, Proc, Chan, Procs
<1>3. CASE ~role.relays[p]
  <2>1. h.seq <= proc[p].sent /\ i.seq = proc[p].sent + 1
    BY <1>1, <1>3, OutgoingFacts DEF Accounted
  <2> QED BY <2>1, <1>1, <1>2 DEF Fields, Item
<1>4. CASE role.relays[p]
  <2> DEFINE g == proc[p].got
  <2>1. PICK j \in DOMAIN g : g[j].from = h.from /\ g[j].seq = h.seq /\ j < Len(g)
    BY <1>1, <1>4 DEF Accounted
  <2>2. /\ Len(g) \in DOMAIN g /\ i.from = g[Len(g)].from /\ i.seq = g[Len(g)].seq /\ i.seq # 0
    BY <1>4, OutgoingFacts
  <2>3. g[j].by = g[Len(g)].by
    BY <1>4, <2>2, OneWriter
  <2>4. Less(g[j], g[Len(g)])
    BY <2>1, <2>2 DEF Inv, InvAt, Proc, Chan, Procs, ProcOK, Sorted
  <2> HIDE DEF i, g
  <2> QED BY <2>1, <2>2, <2>3, <2>4 DEF Less
<1> QED BY <1>3, <1>4

LEMMA SendEmission ==
  ASSUME NEW role, Inv(role), NEW p \in Proc, Turn(Code(p), proc[p], "s"),
         proc[p].status \in {"run", "send"}, Phase(p).out \in Chan
  PROVE  Emission(p, Phase(p).out, Outgoing(p), HasSent(p), role)
<1> DEFINE x == proc[p]
           y == HasSent(p)
           i == Outgoing(p)
<1>1. /\ FitsLoop(Phase(p), role.reads[p], role.writes[p], role.relays[p])
      /\ Len(Phase(p).pattern) \in Nat \ {0}
  BY LoopFits
<1>2. ProcType(Proc, x) /\ ProcOK(p, Code(p), x, role) /\ Fields(x)
  BY TypeFields DEF Inv, InvAt, Proc, Chan, Procs
<1>3. x.arrived = {}
  BY <1>2 DEF ProcOK
<1>4. /\ i \in Item(Proc) /\ i.by = p /\ i.seq # 0 /\ (Phase(p).relay <=> role.relays[p])
      /\ \A h : Held(h) => Less(h, i)
  BY OutgoingFacts, OutgoingIsNew
<1>5. Phase(p).out \in role.writes[p]
  <2>1. (x.k % Len(Phase(p).pattern)) + 1 \in DOMAIN Phase(p).pattern
    BY LoopFits
  <2> QED BY <1>1, <2>1 DEF Turn, FitsLoop, Phase
<1> DEFINE z == Stepped(p, x)
<1>6. /\ ProcType(Proc, z) /\ z.status = "run"
      /\ z.got = x.got /\ z.arrived = x.arrived /\ z.sent = x.sent /\ z.hand = x.hand
      /\ \/ z.at = x.at + 1 /\ z.k = 0
         \/ z.at = x.at /\ z.k = IF Phase(p).n = Forever THEN (x.k + 1) % Len(Phase(p).pattern)
                                 ELSE x.k + 1
  BY <1>1, <1>2, SteppedFacts
<1>7. /\ ProcType(Proc, y) /\ y.status = "run" /\ y.at = z.at /\ y.k = z.k
      /\ y.got = x.got /\ y.arrived = {} /\ y.hand = x.hand
      /\ y.sent = IF role.relays[p] THEN x.sent ELSE x.sent + 1
  <2>1. CASE role.relays[p]
    <3>1. y = z
      BY <1>4, <2>1 DEF HasSent
    <3> HIDE DEF z, y
    <3> QED BY <3>1, <1>3, <1>6, <2>1
  <2>2. CASE ~role.relays[p]
    <3> DEFINE m == z.sent + 1
    <3>1. y = [z EXCEPT !.sent = m]
      BY <1>4, <2>2 DEF HasSent
    <3>2. m \in Nat /\ m = x.sent + 1
      BY <1>6, <1>2 DEF Fields
    <3> HIDE DEF z, y, m
    <3>3. LET u == [z EXCEPT !.sent = m]
          IN  /\ ProcType(Proc, u) /\ u.status = z.status /\ u.at = z.at /\ u.k = z.k
              /\ u.got = z.got /\ u.arrived = z.arrived /\ u.hand = z.hand /\ u.sent = m
      BY <1>6, <3>2 DEF ProcType
    <3> QED BY <3>1, <3>2, <3>3, <1>3, <1>6, <2>2
  <2> QED BY <2>1, <2>2
<1> HIDE DEF y, z
<1>8. ~(role.relays[p] /\ Turn(Code(p), y, "s"))
  <2> SUFFICES ASSUME role.relays[p], Turn(Code(p), y, "s") PROVE FALSE
    OBVIOUS
  <2>1. x.k % 2 = 1 /\ Phase(p).pattern = <<"r", "s">>
    BY <1>2, RelayTurn DEF Phase
  <2>2. y.k % 2 = 1
    BY <1>7, RelayTurn
  <2>3. Len(Phase(p).pattern) = 2
    BY <2>1
  <2>4. y.k = 0 \/ y.k = (x.k + 1) % 2 \/ y.k = x.k + 1
    BY <1>6, <1>7, <2>3
  <2>5. x.k \in Nat
    BY <1>2 DEF Fields
  <2> HIDE DEF x
  <2> QED BY <2>1, <2>2, <2>4, <2>5
<1>9. Quiet(p, y, role)
  <2>1. x.at <= Len(Code(p)) /\ Len(Code(p)) \in Nat
    BY DEF Inv, InvAt, Proc, Chan, Turn, Tidy, Fits, Code, Shape
  <2>2. y.at <= Len(Code(p)) + 1
    BY <2>1, <1>6, <1>7, <1>2 DEF Fields
  <2>3. y.sent >= x.sent
    BY <1>7, <1>2 DEF Fields
  <2> QED BY <1>3, <1>7, <1>8, <2>2, <2>3, QuietMove
<1>10. Accounted(i, role.relays[p], Code(p), y)
  <2>1. CASE role.relays[p]
    BY <1>7, <1>8, <2>1, OutgoingFacts DEF Accounted
  <2>2. CASE ~role.relays[p]
    <3>1. i.from = i.by /\ i.seq = y.sent /\ y.sent \in Nat
      BY <2>2, <1>2, <1>7, OutgoingFacts DEF Fields
    <3> QED BY <3>1, <2>2 DEF Accounted
  <2> QED BY <2>1, <2>2
<1> QED BY <1>4, <1>5, <1>9, <1>10 DEF Emission, y

LEMMA KeepsFacts ==
  ASSUME NEW role, Inv(role), NEW p \in Proc, Turn(Code(p), proc[p], "r"), NEW i \in Item(Proc)
  PROVE  LET x == proc[p]
             y == Keeps(p, i)
         IN  /\ ProcType(Proc, y) /\ y.status = "run" /\ y.at <= Len(Code(p)) + 1
             /\ y.arrived = x.arrived /\ y.sent = x.sent /\ y.lost = x.lost
             /\ y.got = IF i.seq = 0 THEN x.got ELSE Append(x.got, i)
             /\ role.relays[p] /\ Turn(Code(p), y, "s") => i.seq # 0 /\ y.hand = i
<1> DEFINE x == proc[p]
           y == Keeps(p, i)
<1>1. /\ FitsLoop(Phase(p), role.reads[p], role.writes[p], role.relays[p])
      /\ Len(Phase(p).pattern) \in Nat \ {0}
  BY LoopFits
<1>2. ProcType(Proc, x) /\ Fields(x)
  BY TypeFields DEF Inv, InvAt, Proc, Chan, Procs
<1>3. x.at <= Len(Code(p)) /\ Len(Code(p)) \in Nat
  BY DEF Inv, InvAt, Proc, Chan, Turn, Tidy, Fits, Code, Shape
<1>4. CASE i.seq = 0
  <2>1. y = Left(x)
    BY <1>4 DEF Keeps
  <2> HIDE DEF y
  <2>2. /\ ProcType(Proc, y) /\ y.status = "run" /\ y.at = x.at + 1 /\ y.k = 0
        /\ y.arrived = x.arrived /\ y.sent = x.sent /\ y.lost = x.lost /\ y.got = x.got
    BY <1>2, <2>1, LeftFacts
  <2>3. y.at <= Len(Code(p)) + 1
    BY <2>2, <1>2, <1>3 DEF Fields
  <2>4. ~(role.relays[p] /\ Turn(Code(p), y, "s"))
    <3>1. role.relays[p] /\ Turn(Code(p), y, "s") => y.k % 2 = 1
      BY <2>2, RelayTurn
    <3> QED BY <2>2, <3>1
  <2> QED BY <1>4, <2>2, <2>3, <2>4 DEF y
<1>5. CASE i.seq # 0
  <2> DEFINE u == Stepped(p, x)
             g == Append(u.got, i)
             w == [u EXCEPT !.hand = i, !.got = g]
             v == Stepped(p, w)
  <2>1. y = IF Filtered(p, i) THEN v ELSE w
    BY <1>5 DEF Keeps
  <2> HIDE DEF y
  <2>2. /\ ProcType(Proc, u) /\ u.status = "run"
        /\ u.got = x.got /\ u.arrived = x.arrived /\ u.sent = x.sent /\ u.lost = x.lost
        /\ \/ u.at = x.at + 1 /\ u.k = 0 /\ Phase(p).n # Forever
           \/ u.at = x.at /\ u.k = IF Phase(p).n = Forever THEN (x.k + 1) % Len(Phase(p).pattern)
                                   ELSE x.k + 1
    BY <1>1, <1>2, SteppedFacts
  <2>3. g \in Seq(Item(Proc))
    BY <1>2, <2>2, AppendProperties DEF Fields
  <2> HIDE DEF u, g
  <2>4. /\ ProcType(Proc, w) /\ w.status = u.status /\ w.at = u.at /\ w.k = u.k
        /\ w.arrived = u.arrived /\ w.sent = u.sent /\ w.lost = u.lost /\ w.got = g /\ w.hand = i
    BY <2>2, <2>3 DEF ProcType
  <2> HIDE DEF w
  <2>5. u.at <= Len(Code(p)) + 1
    BY <2>2, <1>2, <1>3 DEF Fields
  <2>6. CASE ~Filtered(p, i)
    <3>1. y = w
      BY <2>1, <2>6
    <3> QED BY <1>5, <3>1, <2>2, <2>4, <2>5 DEF g, y
  <2>7. CASE Filtered(p, i)
    <3>1. Phase(p).prime > 0
      BY <2>7 DEF Filtered
    <3>2. Phase(p).relay /\ Phase(p).n = Forever /\ Phase(p).pattern = <<"r", "s">>
      BY <3>1, <1>1 DEF FitsLoop
    <3>3. Len(Phase(p).pattern) = 2
      BY <3>2
    <3>4. x.k % 2 = 0
      <4>1. Phase(p).pattern[(x.k % 2) + 1] = "r"
        BY <3>3 DEF Turn, Phase
      <4>2. x.k % 2 \in {0, 1}
        BY <1>2 DEF Fields
      <4> QED BY <4>1, <4>2, <3>2
    <3>5. u.k = (x.k + 1) % 2 /\ u.at = x.at
      BY <2>2, <3>2, <3>3
    <3>6. u.k = 1
      <4>1. x.k \in Nat
        BY <1>2 DEF Fields
      <4> QED BY <4>1, <3>4, <3>5
    <3>7. /\ ProcType(Proc, v) /\ v.status = "run" /\ v.at = w.at
          /\ v.k = (w.k + 1) % 2
          /\ v.got = w.got /\ v.arrived = w.arrived /\ v.sent = w.sent /\ v.lost = w.lost
      BY <1>1, <2>4, <3>2, <3>3, SteppedFacts
    <3>8. v.k = 0
      BY <3>7, <3>6, <2>4
    <3> HIDE DEF v
    <3>9. y = v
      BY <2>1, <2>7
    <3>10. ~(role.relays[p] /\ Turn(Code(p), y, "s"))
      <4>1. role.relays[p] /\ Turn(Code(p), y, "s") => y.k % 2 = 1
        BY <3>7, <3>9, RelayTurn
      <4> QED BY <4>1, <3>8, <3>9
    <3> QED BY <1>5, <3>7, <3>9, <3>10, <2>2, <2>4, <2>5 DEF g, y
  <2> QED BY <2>6, <2>7
<1> QED BY <1>4, <1>5

\* Items that p may take: those before them have been taken.
Timely(p, S, role) ==
  LET x == proc[p]
  IN  /\ S \in SUBSET Item(Proc) /\ S # {}
      /\ \A i \in S : \A j \in DOMAIN x.got : Less(x.got[j], i)
      /\ \A i \in S : role.writes[i.by] \cap role.reads[p] # {}
      /\ \A i, j \in S \cup x.arrived : i.by = j.by => i = j

Reception(p, S, y, role) ==
  LET x == proc[p]
  IN  /\ ProcType(Proc, y) /\ ProcOK(p, Code(p), y, role)
      /\ \A h : Has(y, h) => Has(x, h) \/ h \in S
      /\ \A h \in Item(Proc) : Accounted(h, role.relays[p], Code(p), x)
                                 => Accounted(h, role.relays[p], Code(p), y)

\* An item is received, alone or from those of a select.
LEMMA KeptReception ==
  ASSUME NEW role, Inv(role), NEW p \in Proc, Turn(Code(p), proc[p], "r"),
         NEW S \in SUBSET Item(Proc), NEW i \in S,
         \A j \in DOMAIN proc[p].got : Less(proc[p].got[j], i),
         role.writes[i.by] \cap role.reads[p] # {},
         NEW y, ProcType(Proc, y), y.arrived = {}, y.status = "run",
         y.at = Keeps(p, i).at, y.k = Keeps(p, i).k, y.got = Keeps(p, i).got,
         y.sent = Keeps(p, i).sent, y.hand = Keeps(p, i).hand
  PROVE  Reception(p, S, y, role)
<1> DEFINE x == proc[p]
           z == Keeps(p, i)
<1>1. /\ y.at <= Len(Code(p)) + 1 /\ y.sent = x.sent
      /\ y.got = IF i.seq = 0 THEN x.got ELSE Append(x.got, i)
      /\ role.relays[p] /\ Turn(Code(p), y, "s") => i.seq # 0 /\ y.hand = i
  <2>1. Turn(Code(p), y, "s") <=> Turn(Code(p), z, "s")
    BY DEF Turn
  <2> HIDE DEF z
  <2> QED BY <2>1, KeepsFacts DEF z
<1>2. ProcType(Proc, x) /\ ProcOK(p, Code(p), x, role) /\ Fields(x)
  BY TypeFields DEF Inv, InvAt, Proc, Chan, Procs
<1> HIDE DEF z
<1>3. i.seq \in Nat /\ i \in Item(Proc)
  BY DEF Item
<1>4. CASE i.seq = 0
  <2>1. y.got = x.got /\ ~(role.relays[p] /\ Turn(Code(p), y, "s"))
    BY <1>1, <1>4
  <2>2. \A h : Has(y, h) => Has(x, h)
    BY <2>1 DEF Has
  <2>3. ProcOK(p, Code(p), y, role)
    BY <1>1, <1>2, <2>1, <2>2 DEF ProcOK
  <2>4. \A h \in Item(Proc) : Accounted(h, role.relays[p], Code(p), x)
                                => Accounted(h, role.relays[p], Code(p), y)
    BY <1>1, <2>1 DEF Accounted
  <2> QED BY <2>2, <2>3, <2>4 DEF Reception
<1>5. CASE i.seq # 0
  <2> DEFINE n == Len(x.got)
  <2>1. /\ y.got = Append(x.got, i) /\ n \in Nat /\ Len(y.got) = n + 1
        /\ DOMAIN x.got = 1..n /\ DOMAIN y.got = 1..(n + 1)
        /\ \A j \in 1..n : y.got[j] = x.got[j]
        /\ y.got[n + 1] = i
    <3>1. y.got = Append(x.got, i) /\ x.got \in Seq(Item(Proc)) /\ y.got \in Seq(Item(Proc))
      BY <1>1, <1>2, <1>5, TypeFields DEF Fields
    <3> QED BY <3>1, <1>3, AppendProperties, LenProperties
  <2> HIDE DEF n
  <2>2. ASSUME NEW h, Has(y, h) PROVE Has(x, h) \/ h = i
    <3>1. PICK j \in 1..(n + 1) : y.got[j] = h
      BY <2>1, <2>2 DEF Has, In
    <3> QED BY <2>1, <3>1 DEF Has, In
  <2>3. Sorted(y.got)
    <3> SUFFICES ASSUME NEW j \in 1..(n + 1), NEW k \in 1..(n + 1), j < k
                 PROVE  Less(y.got[j], y.got[k])
      BY <2>1 DEF Sorted
    <3>1. CASE k \in 1..n
      <4>1. j \in 1..n /\ y.got[j] = x.got[j] /\ y.got[k] = x.got[k]
        BY <3>1, <2>1
      <4>2. Sorted(x.got)
        BY <1>2 DEF ProcOK
      <4>3. Less(x.got[j], x.got[k])
        BY <4>1, <4>2, <3>1, <2>1 DEF Sorted
      <4> QED BY <4>1, <4>3
    <3>2. CASE k = n + 1
      <4>1. j \in 1..n /\ y.got[j] = x.got[j] /\ y.got[k] = i
        BY <3>2, <2>1
      <4>2. Less(x.got[j], i)
        BY <4>1, <2>1
      <4> QED BY <4>1, <4>2
    <3> QED BY <3>1, <3>2, <2>1
  <2>4. \A j \in DOMAIN y.got : y.got[j].seq # 0
    BY <2>1, <1>2, <1>5 DEF ProcOK
  <2>5. role.relays[p] /\ Turn(Code(p), y, "s") => y.got # <<>> /\ y.hand = y.got[Len(y.got)]
    BY <1>1, <2>1
  <2>6. ProcOK(p, Code(p), y, role)
    <3>1. \A h : Has(y, h) => role.writes[h.by] \cap role.reads[p] # {}
      BY <2>2, <1>2 DEF ProcOK
    <3> QED BY <1>1, <2>3, <2>4, <2>5, <3>1 DEF ProcOK
  <2>7. ASSUME NEW h \in Item(Proc), Accounted(h, role.relays[p], Code(p), x)
        PROVE  Accounted(h, role.relays[p], Code(p), y)
    <3>1. CASE h.seq # 0 /\ role.relays[p]
      <4>1. PICK j \in DOMAIN x.got : x.got[j].from = h.from /\ x.got[j].seq = h.seq
        BY <2>7, <3>1 DEF Accounted
      <4>2. j \in DOMAIN y.got /\ y.got[j] = x.got[j] /\ j < Len(y.got)
        BY <2>1, <4>1
      <4> QED BY <4>1, <4>2, <3>1 DEF Accounted
    <3>2. CASE h.seq = 0 \/ ~role.relays[p]
      BY <1>1, <2>7, <3>2 DEF Accounted
    <3> QED BY <3>1, <3>2
  <2> QED BY <2>2, <2>6, <2>7 DEF Reception
<1> QED BY <1>4, <1>5

LossyWin(p, S, y) ==
  /\ y.status = "won" /\ y.arrived = proc[p].arrived \cup S
  /\ y.at = proc[p].at /\ y.k = proc[p].k /\ y.got = proc[p].got

LEMMA GivenReception ==
  ASSUME NEW role, Inv(role), NEW p \in Proc, Turn(Code(p), proc[p], "r"),
         NEW S, Timely(p, S, role), NEW y, y = Given(p, S)
  PROVE  /\ Reception(p, S, y, role)
         /\ Phase(p).lossy => LossyWin(p, S, y)
<1> DEFINE x == proc[p]
<1>1. ProcType(Proc, x) /\ ProcOK(p, Code(p), x, role) /\ Fields(x)
  BY TypeFields DEF Inv, InvAt, Proc, Chan, Procs
<1>2. /\ S \in SUBSET Item(Proc) /\ S # {}
      /\ \A i \in S : \A j \in DOMAIN x.got : Less(x.got[j], i)
      /\ \A i \in S : role.writes[i.by] \cap role.reads[p] # {}
      /\ \A i, j \in S \cup x.arrived : i.by = j.by => i = j
  BY DEF Timely
<1>3. CASE Phase(p).lossy
  <2> DEFINE arrived == x.arrived \cup S
  <2>1. y = [x EXCEPT !.status = "won", !.arrived = arrived]
    BY <1>3 DEF Given
  <2>2. arrived \in SUBSET Item(Proc)
    BY <1>1, <1>2 DEF Fields
  <2>3. /\ ProcType(Proc, y) /\ y.status = "won" /\ y.arrived = arrived
        /\ y.at = x.at /\ y.k = x.k /\ y.got = x.got /\ y.hand = x.hand /\ y.sent = x.sent
    <3> HIDE DEF arrived
    <3>1. LET u == [x EXCEPT !.status = "won", !.arrived = arrived]
          IN  /\ ProcType(Proc, u) /\ u.status = "won" /\ u.arrived = arrived
              /\ u.at = x.at /\ u.k = x.k /\ u.got = x.got /\ u.hand = x.hand /\ u.sent = x.sent
      BY <1>1, <2>2 DEF ProcType
    <3> QED BY <2>1, <3>1
  <2>4. \A op : Turn(Code(p), y, op) <=> Turn(Code(p), x, op)
    BY <2>3 DEF Turn
  <2>5. \A h : Has(y, h) => Has(x, h) \/ h \in S
    BY <2>3 DEF Has
  <2>6. ProcOK(p, Code(p), y, role)
    <3>1. y.status = "won" => Turn(Code(p), y, "r") /\ Code(p)[y.at].lossy
      BY <1>3, <2>3, <2>4 DEF Phase
    <3>2. \A j \in DOMAIN y.got : \A i \in y.arrived : Less(y.got[j], i)
      BY <1>1, <1>2, <2>3 DEF ProcOK
    <3>3. \A i, j \in y.arrived : i.by = j.by => i = j
      BY <1>2, <2>3
    <3>4. \A h : Has(y, h) => role.writes[h.by] \cap role.reads[p] # {}
      BY <1>1, <1>2, <2>5 DEF ProcOK
    <3>5. role.relays[p] /\ Turn(Code(p), y, "s") => y.got # <<>> /\ y.hand = y.got[Len(y.got)]
      BY <1>1, <2>3, <2>4 DEF ProcOK
    <3>6. /\ y.at <= Len(Code(p)) + 1 /\ Sorted(y.got)
          /\ \A j \in DOMAIN y.got : y.got[j].seq # 0
          /\ y.arrived # {} => y.status = "won"
      BY <1>1, <2>3 DEF ProcOK
    <3> QED BY <3>1, <3>2, <3>3, <3>4, <3>5, <3>6 DEF ProcOK
  <2>7. \A h : Accounted(h, role.relays[p], Code(p), x) => Accounted(h, role.relays[p], Code(p), y)
    BY <2>3, <2>4 DEF Accounted
  <2>8. Reception(p, S, y, role)
    BY <2>3, <2>5, <2>6, <2>7 DEF Reception
  <2> QED BY <2>3, <2>8, <1>3 DEF LossyWin
<1>4. CASE ~Phase(p).lossy
  <2> DEFINE i == CHOOSE i \in S : TRUE
  <2>1. i \in S /\ y = Keeps(p, i)
    BY <1>2, <1>4 DEF Given
  <2> HIDE DEF i
  <2>2. x.arrived = {}
    BY <1>1, <1>4 DEF ProcOK, Phase
  <2>3. ProcType(Proc, y) /\ y.arrived = {} /\ y.status = "run"
    BY <1>2, <2>1, <2>2, KeepsFacts
  <2>4. Reception(p, S, y, role)
    BY <1>2, <2>1, <2>3, KeptReception
  <2> QED BY <1>4, <2>4
<1> QED BY <1>3, <1>4

-----------------------------------------------------------------------------
\* Some that waited or were suspended no longer do, the items stay.
Fewer(ch) ==
  /\ DOMAIN ch = Chan
  /\ \A c \in Chan :
       /\ ChanType(Proc, ch[c]) /\ ch[c].buf = chan[c].buf
       /\ NoDup(ch[c].receivers) /\ NoDup(ch[c].senders)
       /\ \A q : In(ch[c].receivers, q) => In(chan[c].receivers, q)
       /\ \A q : In(ch[c].senders, q) => In(chan[c].senders, q)
       /\ ch[c].receivers # <<>> => chan[c].receivers # <<>>
       /\ ch[c].senders # <<>> => chan[c].senders # <<>>
Absent(q, ch) == \A c \in Chan : ~In(ch[c].receivers, q) /\ ~In(ch[c].senders, q)

LEMMA InvFacts ==
  ASSUME NEW role, Inv(role)
  PROVE  /\ Chan = DOMAIN program.cap /\ Proc = DOMAIN program.code
         /\ \A p \in Proc : /\ ProcType(Proc, proc[p]) /\ ProcOK(p, Code(p), proc[p], role)
                            /\ Fields(proc[p])
         /\ \A c \in Chan : /\ ChanType(Proc, chan[c]) /\ ChanOK(c, chan[c], Cap(c), role)
                            /\ Cap(c) \in Nat
         /\ \A p \in Proc, c \in Chan :
              /\ In(chan[c].receivers, p) => Waits(c, p, Code(p), proc[p], role)
              /\ In(chan[c].senders, p) => Suspended(c, p, Code(p), proc[p])
         /\ \A p \in Proc : \A c \in role.reads[p] : c \in Chan
         /\ \A p \in Proc : \A c \in role.writes[p] : c \in Chan
         /\ \A p, q \in Proc : \A c, d \in role.writes[p] \cap role.reads[q] : c = d
         /\ \A p \in Proc : Len(Code(p)) \in Nat /\ DOMAIN Code(p) = 1..Len(Code(p))
<1>1. Chan = DOMAIN program.cap /\ Proc = DOMAIN program.code
  BY DEF Inv, InvAt, Shape, Chan, Proc
<1>2. Tidy(program, role)
  BY DEF Inv, InvAt
<1>3. \A p \in Proc : ProcType(Proc, proc[p]) /\ ProcOK(p, Code(p), proc[p], role)
  BY DEF Inv, InvAt, Procs, Proc
<1>4. \A c \in Chan : ChanType(Proc, chan[c]) /\ ChanOK(c, chan[c], Cap(c), role)
  BY DEF Inv, InvAt, Chans, Proc, Chan
<1>5. \A c \in Chan : Cap(c) \in Nat
  BY <1>1, <1>2 DEF Tidy, Cap
<1>6. \A p \in Proc, c \in Chan :
        /\ In(chan[c].receivers, p) => Waits(c, p, Code(p), proc[p], role)
        /\ In(chan[c].senders, p) => Suspended(c, p, Code(p), proc[p])
  BY DEF Inv, InvAt, Waiting, Suspending, Proc, Chan
<1>7. Linked(Proc, Chan, role)
  BY <1>1, <1>2 DEF Tidy
<1>8. \A p \in Proc : Len(Code(p)) \in Nat /\ DOMAIN Code(p) = 1..Len(Code(p))
  BY <1>1, <1>2 DEF Tidy, Fits, Code
<1>9. \A p \in Proc : Fields(proc[p])
  BY <1>3, TypeFields
<1>10. /\ \A p \in Proc : \A c \in role.reads[p] : c \in Chan
       /\ \A p \in Proc : \A c \in role.writes[p] : c \in Chan
  BY <1>7 DEF Linked
<1>11. \A p, q \in Proc : \A c, d \in role.writes[p] \cap role.reads[q] : c = d
  BY <1>7 DEF Linked
<1> QED BY <1>1, <1>3, <1>4, <1>5, <1>6, <1>8, <1>9, <1>10, <1>11

\* Who runs waits nowhere.
LEMMA RunningIsAbsent ==
  ASSUME NEW role, Inv(role), NEW p \in Proc, proc[p].status = "run"
  PROVE  Absent(p, chan) /\ proc[p].arrived = {}
<1>1. proc[p].arrived = {}
  BY InvFacts DEF ProcOK
<1>2. ASSUME NEW c \in Chan PROVE ~In(chan[c].receivers, p) /\ ~In(chan[c].senders, p)
  BY InvFacts DEF Waits, Suspended
<1> QED BY <1>1, <1>2 DEF Absent

LEMMA SameIsFewer ==
  ASSUME NEW role, Inv(role) PROVE Fewer(chan)
  BY InvFacts DEF Fewer, ChanOK, Chan

LEMMA FewerChans ==
  ASSUME NEW role, Inv(role), NEW ch, Fewer(ch), NEW pr, DOMAIN pr = Proc
  PROVE  Chans(role, ch, pr)
<1> SUFFICES ASSUME NEW c \in Chan PROVE ChanOK(c, ch[c], Cap(c), role)
  BY DEF Chans, Fewer
<1> QED BY InvFacts DEF Fewer, ChanOK

\* Everybody else stays; what moves holds nothing new.
LEMMA QuietInv ==
  ASSUME NEW role, Inv(role), NEW ch, NEW pr, Fewer(ch), DOMAIN pr = Proc,
         \A q \in Proc : pr[q] = proc[q] \/ (Quiet(q, pr[q], role) /\ Absent(q, ch))
  PROVE  InvAt(role, ch, pr)
<1>1. Shape(ch, pr) /\ Tidy(program, role)
  BY DEF Inv, InvAt, Shape, Fewer, Chan, Proc
<1>2. Procs(role, pr)
  BY InvFacts DEF Procs, Quiet
<1>3. Chans(role, ch, pr)
  BY FewerChans
<1>4. Waiting(role, ch, pr)
  BY InvFacts DEF Waiting, Fewer, Absent
<1>5. Suspending(ch, pr)
  BY InvFacts DEF Suspending, Fewer, Absent
<1>6. \A q \in Proc : \A i : Has(pr[q], i) => Has(proc[q], i)
  BY DEF Quiet, Has
<1>7. Ahead(role, ch, pr)
  <2>1. Ahead(role, chan, proc)
    BY DEF Inv, InvAt
  <2> QED BY <2>1, <1>6, InvFacts DEF Ahead, Fewer, Proc
<1>8. Accounts(role, ch, pr)
  <2> SUFFICES ASSUME NEW i, Holding(ch, pr, i)
               PROVE  Accounted(i, role.relays[i.by], Code(i.by), pr[i.by])
    BY DEF Accounts
  <2>1. Held(i)
    BY <1>6 DEF Held, Holding, Fewer, Chan, Proc
  <2>2. i \in Item(Proc) /\ Accounted(i, role.relays[i.by], Code(i.by), proc[i.by])
    BY <2>1, HeldTypes
  <2>3. i.by \in Proc
    BY <2>2 DEF Item
  <2> QED BY <2>2, <2>3 DEF Quiet
<1> QED BY <1>1, <1>2, <1>3, <1>4, <1>5, <1>7, <1>8 DEF InvAt

LEMMA AppendFacts ==
  ASSUME NEW S, NEW s \in Seq(S), NEW e \in S
  PROVE  LET t == Append(s, e)
             n == Len(s)
         IN  /\ t \in Seq(S) /\ n \in Nat /\ Len(t) = n + 1
             /\ DOMAIN s = 1..n /\ DOMAIN t = 1..(n + 1)
             /\ \A j \in 1..n : t[j] = s[j]
             /\ t[n + 1] = e
             /\ \A k \in 1..(n + 1) : k \in 1..n \/ k = n + 1
             /\ \A h : In(t, h) <=> In(s, h) \/ h = e
<1> DEFINE t == Append(s, e)
           n == Len(s)
<1>1. /\ t \in Seq(S) /\ n \in Nat /\ Len(t) = n + 1
      /\ DOMAIN s = 1..n /\ DOMAIN t = 1..(n + 1)
      /\ \A j \in 1..n : t[j] = s[j]
      /\ t[n + 1] = e
  BY AppendProperties, LenProperties
<1> HIDE DEF t, n
<1>2. \A k \in 1..(n + 1) : k \in 1..n \/ k = n + 1
  BY <1>1
<1>3. \A h : In(t, h) <=> In(s, h) \/ h = e
  <2>1. ASSUME NEW h, In(t, h) PROVE In(s, h) \/ h = e
    BY <1>1, <1>2, <2>1 DEF In
  <2>2. ASSUME NEW h, In(s, h) PROVE In(t, h)
    BY <1>1, <2>2 DEF In
  <2>3. In(t, e)
    <3>1. n + 1 \in DOMAIN t
      BY <1>1
    <3> QED BY <3>1, <1>1 DEF In
  <2> QED BY <2>1, <2>2, <2>3
<1> QED BY <1>1, <1>2, <1>3 DEF t, n

LEMMA AppendSorted ==
  ASSUME NEW S, NEW s \in Seq(S), NEW e \in S, Sorted(s), \A h : In(s, h) => Less(h, e)
  PROVE  Sorted(Append(s, e))
<1> DEFINE t == Append(s, e)
           n == Len(s)
<1>1. /\ DOMAIN s = 1..n /\ DOMAIN t = 1..(n + 1) /\ n \in Nat
      /\ \A j \in 1..n : t[j] = s[j]
      /\ t[n + 1] = e
      /\ \A k \in 1..(n + 1) : k \in 1..n \/ k = n + 1
  BY AppendFacts
<1> HIDE DEF t, n
<1> SUFFICES ASSUME NEW j \in 1..(n + 1), NEW k \in 1..(n + 1), j < k PROVE Less(t[j], t[k])
  BY <1>1 DEF Sorted, t
<1>2. j \in 1..n
  BY <1>1
<1>3. CASE k \in 1..n
  BY <1>1, <1>2, <1>3 DEF Sorted
<1>4. CASE k = n + 1
  BY <1>1, <1>2, <1>4 DEF In
<1> QED BY <1>1, <1>3, <1>4

\* What is sent into a buffer.
Stored(p, c, i, y, ch, pr) ==
  /\ chan[c].receivers = <<>> /\ Len(chan[c].buf) < Cap(c)
  /\ DOMAIN ch = Chan /\ ch[c] = [chan[c] EXCEPT !.buf = Append(@, i)]
  /\ \A d \in Chan : d # c => ch[d] = chan[d]
  /\ DOMAIN pr = Proc /\ pr[p] = y
  /\ \A q \in Proc : q # p => pr[q] = proc[q]

LEMMA StoreInv ==
  ASSUME NEW role, Inv(role), NEW p \in Proc, NEW c, NEW i, NEW y, Emission(p, c, i, y, role),
         proc[p].status = "run", NEW ch, NEW pr, Stored(p, c, i, y, ch, pr)
  PROVE  InvAt(role, ch, pr)
<1> USE DEF Stored
<1>1. Shape(ch, pr) /\ Tidy(program, role)
  BY DEF Inv, InvAt, Shape, Chan, Proc
<1>2. Procs(role, pr)
  BY InvFacts DEF Procs, Emission, Quiet
<1>3. i \in Item(Proc) /\ c \in Chan /\ i.by = p /\ c \in role.writes[p]
  BY DEF Emission
<1>4. /\ chan[c].buf \in Seq(Item(Proc)) /\ ChanType(Proc, chan[c])
      /\ ChanOK(c, chan[c], Cap(c), role)
  BY <1>3, InvFacts DEF ChanType
<1> DEFINE b == Append(chan[c].buf, i)
<1>5. /\ b \in Seq(Item(Proc)) /\ Len(b) = Len(chan[c].buf) + 1
      /\ \A h : In(b, h) <=> In(chan[c].buf, h) \/ h = i
  BY <1>3, <1>4, AppendFacts
<1> HIDE DEF b
<1>6. /\ ChanType(Proc, ch[c]) /\ ch[c].buf = b /\ ch[c].receivers = chan[c].receivers
      /\ ch[c].senders = chan[c].senders
  BY <1>4, <1>5 DEF ChanType, b
<1>7. \A h : In(chan[c].buf, h) => Less(h, i)
  BY <1>3 DEF Emission, Held, Holding, Chan
<1>8. Chans(role, ch, pr)
  <2> SUFFICES ChanOK(c, ch[c], Cap(c), role)
    BY <1>6, InvFacts DEF Chans
  <2>1. Sorted(b)
    BY <1>3, <1>4, <1>7, AppendSorted DEF ChanOK, b
  <2>2. Len(b) <= Cap(c)
    BY <1>3, <1>4, <1>5, InvFacts, LenProperties
  <2>3. chan[c].senders = <<>>
    BY <1>4, InvFacts, LenProperties, <1>3 DEF ChanOK
  <2>4. \A k \in DOMAIN b : c \in role.writes[b[k].by]
    <3> SUFFICES ASSUME NEW k \in DOMAIN b PROVE c \in role.writes[b[k].by]
      OBVIOUS
    <3>1. In(chan[c].buf, b[k]) \/ b[k] = i
      BY <1>5 DEF In
    <3> QED BY <3>1, <1>3, <1>4 DEF In, ChanOK
  <2> QED BY <2>1, <2>2, <2>3, <2>4, <1>4, <1>6 DEF ChanOK
<1>9. Absent(p, chan)
  BY RunningIsAbsent
<1>10. \A d \in Chan : ch[d].receivers = chan[d].receivers /\ ch[d].senders = chan[d].senders
  BY <1>6
<1>11. Waiting(role, ch, pr)
  BY <1>9, <1>10, InvFacts DEF Waiting, Absent
<1>12. Suspending(ch, pr)
  BY <1>9, <1>10, InvFacts DEF Suspending, Absent
<1>13. \A q \in Proc : \A h : Has(pr[q], h) => Has(proc[q], h)
  BY DEF Emission, Quiet, Has
<1>14. \A d \in Chan : \A h : In(ch[d].buf, h) => In(chan[d].buf, h) \/ (d = c /\ h = i)
  BY <1>5, <1>6
<1>15. Ahead(role, ch, pr)
  <2> SUFFICES ASSUME NEW q \in Proc, NEW d \in role.reads[q], NEW h, NEW k \in DOMAIN ch[d].buf,
                      Has(pr[q], h)
               PROVE  Less(h, ch[d].buf[k])
    BY DEF Ahead
  <2>1. d \in Chan /\ Has(proc[q], h)
    BY <1>13, InvFacts
  <2>2. CASE In(chan[d].buf, ch[d].buf[k])
    <3>1. PICK m \in DOMAIN chan[d].buf : chan[d].buf[m] = ch[d].buf[k]
      BY <2>2 DEF In
    <3>2. Ahead(role, chan, proc)
      BY DEF Inv, InvAt
    <3>3. q \in DOMAIN proc
      BY InvFacts DEF Proc
    <3>4. Less(h, chan[d].buf[m])
      BY <3>1, <3>2, <3>3, <2>1 DEF Ahead
    <3> QED BY <3>1, <3>4
  <2>3. CASE ch[d].buf[k] = i
    BY <2>1, <2>3 DEF Emission, Held, Holding, Proc
  <2> QED BY <2>1, <2>2, <2>3, <1>14 DEF In
<1>16. Accounts(role, ch, pr)
  <2> SUFFICES ASSUME NEW h, Holding(ch, pr, h)
               PROVE  Accounted(h, role.relays[h.by], Code(h.by), pr[h.by])
    BY DEF Accounts
  <2>1. Held(h) \/ h = i
    BY <1>13, <1>14 DEF Held, Holding, Chan, Proc
  <2>2. CASE h = i
    BY <2>2, <1>3 DEF Emission
  <2>3. CASE Held(h)
    <3>1. h \in Item(Proc) /\ Accounted(h, role.relays[h.by], Code(h.by), proc[h.by])
      BY <2>3, HeldTypes
    <3>2. h.by \in Proc
      BY <3>1 DEF Item
    <3> QED BY <3>1, <3>2 DEF Emission, Quiet
  <2> QED BY <2>1, <2>2, <2>3
<1> QED BY <1>1, <1>2, <1>8, <1>11, <1>12, <1>15, <1>16 DEF InvAt

\* Somebody leaves the receivers of some channels.
LeavesThose(p, D, ch) ==
  /\ DOMAIN ch = Chan
  /\ \A d \in Chan : ch[d] = IF d \in D THEN Without(p, chan[d]) ELSE chan[d]

LEMMA WithoutIsFewer ==
  ASSUME NEW role, Inv(role), NEW p, NEW D, NEW ch, LeavesThose(p, D, ch)
  PROVE  /\ Fewer(ch)
         /\ \A d \in Chan : ch[d].senders = chan[d].senders
         /\ \A d \in Chan \cap D : ~In(ch[d].receivers, p)
<1> SUFFICES ASSUME NEW d \in Chan
             PROVE  /\ ChanType(Proc, ch[d]) /\ ch[d].buf = chan[d].buf
                    /\ NoDup(ch[d].receivers) /\ ch[d].senders = chan[d].senders
                    /\ \A q : In(ch[d].receivers, q) => In(chan[d].receivers, q)
                    /\ ch[d].receivers # <<>> => chan[d].receivers # <<>>
                    /\ d \in D => ~In(ch[d].receivers, p)
  BY InvFacts DEF Fewer, ChanOK, LeavesThose
<1>1. ChanType(Proc, chan[d]) /\ NoDup(chan[d].receivers) /\ chan[d].receivers \in Seq(Proc)
  BY InvFacts DEF ChanOK, ChanType
<1>2. CASE d \notin D
  BY <1>1, <1>2 DEF LeavesThose
<1>3. CASE d \in D
  <2> DEFINE s == Removed(p, chan[d].receivers)
  <2>1. ch[d] = [chan[d] EXCEPT !.receivers = s]
    BY <1>3 DEF Without, LeavesThose
  <2>2. /\ s \in Seq(Proc) /\ NoDup(s)
        /\ \A q : In(s, q) <=> In(chan[d].receivers, q) /\ q # p
        /\ s # <<>> => chan[d].receivers # <<>>
    BY <1>1, RemovedFacts
  <2> HIDE DEF s
  <2>3. LET y == [chan[d] EXCEPT !.receivers = s]
        IN  ChanType(Proc, y) /\ y.buf = chan[d].buf /\ y.receivers = s
                /\ y.senders = chan[d].senders
    BY <1>1, <2>2 DEF ChanType
  <2> QED BY <2>1, <2>2, <2>3
<1> QED BY <1>2, <1>3

\* An item that goes to somebody who waits.
HandedOver(p, c, i, y, r, ch, pr) ==
  /\ chan[c].receivers # <<>> /\ r = Head(chan[c].receivers)
  /\ DOMAIN ch = Chan /\ DOMAIN pr = Proc /\ pr[r] = Given(r, {i}) /\ (r # p => pr[p] = y)
  /\ \A d \in Chan : ch[d] = IF d = c \/ ~Phase(r).lossy THEN Without(r, chan[d]) ELSE chan[d]
  /\ \A q \in Proc : q # p /\ q # r => pr[q] = proc[q]

LEMMA HandOverInv ==
  ASSUME NEW role, Inv(role), NEW p \in Proc, NEW c, NEW i, NEW y, Emission(p, c, i, y, role),
         proc[p].status = "run", NEW r, NEW ch, NEW pr, HandedOver(p, c, i, y, r, ch, pr)
  PROVE  InvAt(role, ch, pr)
<1>0. /\ chan[c].receivers # <<>> /\ r = Head(chan[c].receivers)
      /\ DOMAIN ch = Chan /\ DOMAIN pr = Proc /\ pr[r] = Given(r, {i}) /\ (r # p => pr[p] = y)
      /\ \A d \in Chan : ch[d] = IF d = c \/ ~Phase(r).lossy THEN Without(r, chan[d]) ELSE chan[d]
      /\ \A q \in Proc : q # p /\ q # r => pr[q] = proc[q]
  BY DEF HandedOver
<1>1. Shape(ch, pr) /\ Tidy(program, role)
  BY <1>0 DEF Inv, InvAt, Shape, Chan, Proc
<1>2. i \in Item(Proc) /\ c \in Chan /\ i.by = p /\ c \in role.writes[p]
  BY DEF Emission
<1>3. r \in Proc /\ In(chan[c].receivers, r)
  <2>1. chan[c].receivers \in Seq(Proc)
    BY <1>2, InvFacts DEF ChanType
  <2>3. chan[c].receivers # <<>> /\ r = Head(chan[c].receivers)
    BY <1>0
  <2>2. r = chan[c].receivers[1] /\ 1 \in DOMAIN chan[c].receivers /\ r \in Proc
    BY <2>1, <2>3
  <2> QED BY <2>2 DEF In
<1>4. Absent(p, chan)
  BY RunningIsAbsent
<1>5. r # p
  BY <1>2, <1>3, <1>4 DEF Absent
<1>6. Waits(c, r, Code(r), proc[r], role) /\ chan[c].buf = <<>>
  BY <1>0, <1>2, <1>3, InvFacts DEF ChanOK
<1>7. /\ Turn(Code(r), proc[r], "r") /\ Phase(r) = Code(r)[proc[r].at]
      /\ proc[r].status = "receive" \/ (proc[r].status = "won" /\ Phase(r).lossy)
      /\ \A d \in InputsOf(Code(r), proc[r]) : d \in role.reads[r]
      /\ c \in role.reads[r]
  BY <1>3, <1>6, LoopFits DEF Waits, Phase
<1>8. \A h : Held(h) => Less(h, i)
  BY DEF Emission
<1>9. Timely(r, {i}, role)
  <2>1. \A j \in DOMAIN proc[r].got : Less(proc[r].got[j], i)
    BY <1>3, <1>8 DEF Held, Holding, Has, In, Proc
  <2>2. role.writes[i.by] \cap role.reads[r] # {}
    BY <1>2, <1>7
  <2>3. \A a, b \in {i} \cup proc[r].arrived : a.by = b.by => a = b
    <3>1. \A a, b \in proc[r].arrived : a.by = b.by => a = b
      BY <1>3, InvFacts DEF ProcOK
    <3>2. \A a \in proc[r].arrived : a.by # i.by
      BY <1>2, <1>6 DEF Waits
    <3> QED BY <3>1, <3>2
  <2> QED BY <1>2, <2>1, <2>2, <2>3 DEF Timely
<1> DEFINE z == Given(r, {i})
<1>10. /\ Reception(r, {i}, z, role)
       /\ Phase(r).lossy => /\ z.status = "won" /\ z.arrived = proc[r].arrived \cup {i}
                            /\ z.at = proc[r].at /\ z.k = proc[r].k /\ z.got = proc[r].got
  <2> PICK S : S = {i}
    OBVIOUS
  <2>1. Timely(r, S, role) /\ z = Given(r, S)
    BY <1>9
  <2> HIDE DEF z
  <2>2. Reception(r, S, z, role)
    BY <2>1, <1>3, <1>7, GivenReception
  <2>3. Phase(r).lossy => LossyWin(r, S, z)
    BY <2>1, <1>3, <1>7, GivenReception
  <2> QED BY <2>2, <2>3 DEF LossyWin
<1> HIDE DEF z
<1>11. pr[r] = z /\ pr[p] = y
  BY <1>0, <1>5 DEF z
<1>12. Procs(role, pr)
  BY <1>0, <1>3, <1>10, <1>11, InvFacts DEF Procs, Emission, Quiet, Reception
<1> DEFINE D == {d \in Chan : d = c \/ ~Phase(r).lossy}
<1>13. /\ Fewer(ch) /\ \A d \in Chan : ch[d].senders = chan[d].senders
       /\ \A d \in Chan \cap D : ~In(ch[d].receivers, r)
  <2>1. LeavesThose(r, D, ch)
    BY <1>0 DEF LeavesThose
  <2> HIDE DEF D
  <2> QED BY <2>1, WithoutIsFewer
<1>14. Chans(role, ch, pr)
  BY <1>0, <1>13, FewerChans
<1>15. Waiting(role, ch, pr)
  <2> SUFFICES ASSUME NEW d \in Chan, NEW q \in Proc, In(ch[d].receivers, q)
               PROVE  Waits(d, q, Code(q), pr[q], role)
    BY <1>0 DEF Waiting
  <2>1. In(chan[d].receivers, q)
    BY <1>13 DEF Fewer
  <2>2. Waits(d, q, Code(q), proc[q], role) /\ q # p
    BY <2>1, <1>4, InvFacts DEF Absent
  <2>3. CASE q # r
    BY <1>0, <2>2, <2>3
  <2>4. CASE q = r
    <3>1. d # c /\ Phase(r).lossy
      BY <2>4, <1>13
    <3>2. /\ z.status = "won" /\ z.arrived = proc[r].arrived \cup {i}
          /\ z.at = proc[r].at /\ z.k = proc[r].k /\ z.got = proc[r].got
      BY <3>1, <1>10
    <3>3. d \notin role.writes[i.by]
      <4>1. d \in role.reads[r]
        BY <2>2, <2>4, <1>7 DEF Waits
      <4> QED BY <4>1, <3>1, <1>2, <1>3, <1>7, InvFacts
    <3>4. \A a \in z.arrived : d \notin role.writes[a.by]
      BY <2>2, <2>4, <3>2, <3>3 DEF Waits
    <3>5. Turn(Code(r), z, "r") /\ d \in InputsOf(Code(r), z) /\ Code(r)[z.at].lossy
      <4>1. Turn(Code(r), z, "r")
        BY <3>2, <1>7 DEF Turn
      <4>4. InputsOf(Code(r), z) = InputsOf(Code(r), proc[r])
        BY <3>2 DEF InputsOf
      <4>2. d \in InputsOf(Code(r), proc[r])
        BY <2>2, <2>4 DEF Waits
      <4>3. Code(r)[z.at].lossy
        BY <3>1, <3>2, <1>7
      <4> QED BY <4>1, <4>2, <4>3, <4>4
    <3> QED BY <2>4, <3>2, <3>4, <3>5, <1>11 DEF Waits
  <2> QED BY <2>3, <2>4
<1>16. Suspending(ch, pr)
  <2> SUFFICES ASSUME NEW d \in Chan, NEW q \in Proc, In(chan[d].senders, q)
               PROVE  Suspended(d, q, Code(q), pr[q])
    BY <1>0, <1>13 DEF Suspending
  <2>1. Suspended(d, q, Code(q), proc[q]) /\ q # p
    BY <1>4, InvFacts DEF Absent
  <2>2. q # r
    BY <2>1, <1>7 DEF Suspended
  <2> QED BY <1>0, <2>1, <2>2
<1>17. \A q \in Proc : \A h : Has(pr[q], h) => Has(proc[q], h) \/ (q = r /\ h = i)
  <2> SUFFICES ASSUME NEW q \in Proc, NEW h, Has(pr[q], h) PROVE Has(proc[q], h) \/ (q = r /\ h = i)
    OBVIOUS
  <2>1. CASE q = r
    BY <2>1, <1>10, <1>11 DEF Reception
  <2>2. CASE q = p
    BY <2>2, <1>11 DEF Emission, Quiet, Has
  <2>3. CASE q # r /\ q # p
    BY <1>0, <2>3
  <2> QED BY <2>1, <2>2, <2>3
<1>18. Ahead(role, ch, pr)
  <2> SUFFICES ASSUME NEW q \in Proc, NEW d \in role.reads[q], NEW h, NEW k \in DOMAIN ch[d].buf,
                      Has(pr[q], h)
               PROVE  Less(h, ch[d].buf[k])
    BY <1>0 DEF Ahead
  <2>1. d \in Chan /\ ch[d].buf = chan[d].buf
    BY <1>13, InvFacts DEF Fewer
  <2>2. CASE Has(proc[q], h)
    BY <2>1, <2>2 DEF Inv, InvAt, Ahead, Proc
  <2>3. CASE q = r /\ h = i
    <3>1. d \in role.writes[chan[d].buf[k].by]
      BY <2>1, InvFacts DEF ChanOK
    <3>2. d # c
      BY <2>1, <1>6
    <3>3. d \notin role.writes[p]
      BY <2>3, <3>2, <1>2, <1>3, <1>7, InvFacts
    <3>4. chan[d].buf[k].by # i.by
      BY <3>1, <3>3, <1>2
    <3> QED BY <2>1, <2>3, <3>4 DEF Less
  <2> QED BY <2>2, <2>3, <1>17
<1>19. Accounts(role, ch, pr)
  <2> SUFFICES ASSUME NEW h, Holding(ch, pr, h)
               PROVE  Accounted(h, role.relays[h.by], Code(h.by), pr[h.by])
    BY DEF Accounts
  <2>1. Held(h) \/ h = i
    BY <1>0, <1>13, <1>17 DEF Held, Holding, Fewer, Chan, Proc
  <2>2. CASE h = i
    BY <2>2, <1>2, <1>11 DEF Emission
  <2>3. CASE Held(h)
    <3>1. h \in Item(Proc) /\ Accounted(h, role.relays[h.by], Code(h.by), proc[h.by])
      BY <2>3, HeldTypes
    <3>2. h.by \in Proc
      BY <3>1 DEF Item
    <3>3. CASE h.by = p
      BY <3>1, <3>3, <1>11 DEF Emission, Quiet
    <3>4. CASE h.by = r
      BY <3>1, <3>4, <1>10, <1>11 DEF Reception
    <3> QED BY <1>0, <3>1, <3>2, <3>3, <3>4
  <2> QED BY <2>1, <2>2, <2>3
<1> QED BY <1>1, <1>12, <1>14, <1>15, <1>16, <1>18, <1>19 DEF InvAt

LEMMA AtOpTurn ==
  ASSUME NEW role, Inv(role), NEW p \in Proc, NEW op, AtOp(p, op)
  PROVE  Turn(Code(p), proc[p], op) /\ proc[p].status = "run"
<1>1. proc[p].at <= Len(Code(p))
  BY InvFacts DEF AtOp, At, Returned, Fields
<1> QED BY <1>1 DEF AtOp, At, Turn, Phase

\* A wait begins: the items stay where they are.
Resting(q, y) ==
  /\ y.at = proc[q].at /\ y.k = proc[q].k /\ y.hand = proc[q].hand /\ y.sent = proc[q].sent
  /\ y.got = proc[q].got /\ y.arrived = proc[q].arrived
  /\ y.status # proc[q].status => proc[q].status = "run" /\ y.status # "won"

LEMMA RestingInv ==
  ASSUME NEW role, Inv(role), NEW ch, NEW pr, DOMAIN ch = Chan, DOMAIN pr = Proc,
         \A c \in Chan : ch[c].buf = chan[c].buf,
         \A q \in Proc : ProcType(Proc, pr[q]) /\ Resting(q, pr[q]),
         Chans(role, ch, pr), Waiting(role, ch, pr), Suspending(ch, pr)
  PROVE  InvAt(role, ch, pr)
<1>1. Shape(ch, pr) /\ Tidy(program, role)
  BY DEF Inv, InvAt, Shape, Chan, Proc
<1>2. \A q \in Proc : \A h : Has(pr[q], h) <=> Has(proc[q], h)
  BY DEF Resting, Has
<1>3. \A q \in Proc : \A op : Turn(Code(q), pr[q], op) <=> Turn(Code(q), proc[q], op)
  BY DEF Resting, Turn
<1>4. Procs(role, pr)
  <2> SUFFICES ASSUME NEW q \in Proc PROVE ProcOK(q, Code(q), pr[q], role)
    BY DEF Procs
  <2>1. ProcOK(q, Code(q), proc[q], role) /\ Resting(q, pr[q])
    BY InvFacts
  <2>2. pr[q].status = "won" => Turn(Code(q), pr[q], "r") /\ Code(q)[pr[q].at].lossy
    BY <2>1, <1>3 DEF ProcOK, Resting
  <2>3. pr[q].arrived # {} => pr[q].status = "won"
    BY <2>1 DEF ProcOK, Resting
  <2>4. role.relays[q] /\ Turn(Code(q), pr[q], "s")
          => pr[q].got # <<>> /\ pr[q].hand = pr[q].got[Len(pr[q].got)]
    BY <2>1, <1>3 DEF ProcOK, Resting
  <2>5. \A i : Has(pr[q], i) => role.writes[i.by] \cap role.reads[q] # {}
    BY <2>1, <1>2 DEF ProcOK
  <2> QED BY <2>1, <2>2, <2>3, <2>4, <2>5 DEF ProcOK, Resting
<1>5. Ahead(role, ch, pr)
  <2>1. Ahead(role, chan, proc)
    BY DEF Inv, InvAt
  <2> QED BY <2>1, <1>2, InvFacts DEF Ahead, Proc
<1>6. Accounts(role, ch, pr)
  <2> SUFFICES ASSUME NEW i, Holding(ch, pr, i)
               PROVE  Accounted(i, role.relays[i.by], Code(i.by), pr[i.by])
    BY DEF Accounts
  <2>1. Held(i)
    BY <1>2 DEF Held, Holding, Chan, Proc
  <2>2. i \in Item(Proc) /\ Accounted(i, role.relays[i.by], Code(i.by), proc[i.by])
    BY <2>1, HeldTypes
  <2>3. i.by \in Proc
    BY <2>2 DEF Item
  <2> QED BY <2>2, <2>3, <1>3 DEF Accounted, Resting
<1> QED BY <1>1, <1>4, <1>5, <1>6 DEF InvAt

LEMMA StatusRests ==
  ASSUME NEW role, Inv(role), NEW p \in Proc, proc[p].status = "run",
         NEW s \in {"send", "receive"}, NEW y, y = [proc[p] EXCEPT !.status = s]
  PROVE  ProcType(Proc, y) /\ Resting(p, y) /\ y.status = s
<1>1. ProcType(Proc, proc[p])
  BY InvFacts
<1>2. /\ ProcType(Proc, y) /\ y.status = s /\ y.at = proc[p].at /\ y.k = proc[p].k
      /\ y.hand = proc[p].hand /\ y.sent = proc[p].sent /\ y.got = proc[p].got
      /\ y.arrived = proc[p].arrived
  BY <1>1 DEF ProcType
<1> QED BY <1>2 DEF Resting

\* Who waits nowhere goes to the end of a queue.
LEMMA QueuedFacts ==
  ASSUME NEW P, NEW s \in Seq(P), NEW p \in P, NoDup(s), ~In(s, p), NEW t, t = Append(s, p)
  PROVE  t \in Seq(P) /\ NoDup(t) /\ t # <<>> /\ \A q : In(t, q) <=> In(s, q) \/ q = p
<1> DEFINE n == Len(s)
<1>1. /\ t \in Seq(P) /\ n \in Nat /\ Len(t) = n + 1
      /\ DOMAIN s = 1..n /\ DOMAIN t = 1..(n + 1)
      /\ \A j \in 1..n : t[j] = s[j]
      /\ t[n + 1] = p
      /\ \A k \in 1..(n + 1) : k \in 1..n \/ k = n + 1
      /\ \A h : In(t, h) <=> In(s, h) \/ h = p
  BY AppendFacts
<1> HIDE DEF n
<1>2. ASSUME NEW j \in 1..(n + 1), NEW k \in 1..(n + 1), t[j] = t[k] PROVE j = k
  <2>1. \A m \in 1..n : s[m] # p
    BY <1>1 DEF In
  <2> QED BY <2>1, <1>1, <1>2 DEF NoDup
<1>3. t # <<>>
  BY <1>1, EmptySeq
<1> QED BY <1>1, <1>2, <1>3 DEF NoDup

LEMMA WaitToSendInv ==
  ASSUME NEW role, Inv(role), NEW p \in Proc, WaitToSend(p),
         NEW ch, ch = chan', NEW pr, pr = proc'
  PROVE  InvAt(role, ch, pr)
<1> DEFINE c == Phase(p).out
           s == Append(chan[c].senders, p)
           y == [proc[p] EXCEPT !.status = "send"]
<1>1. Turn(Code(p), proc[p], "s") /\ proc[p].status = "run" /\ Absent(p, chan)
  BY AtOpTurn, RunningIsAbsent DEF WaitToSend
<1>2. c \in Chan
  <2>1. /\ FitsLoop(Phase(p), role.reads[p], role.writes[p], role.relays[p])
        /\ (proc[p].k % Len(Phase(p).pattern)) + 1 \in DOMAIN Phase(p).pattern
    BY <1>1, LoopFits
  <2>2. c \in role.writes[p]
    BY <1>1, <2>1 DEF Turn, FitsLoop, Phase
  <2> QED BY <2>2, InvFacts
<1>3. chan[c].receivers = <<>> /\ Len(chan[c].buf) = Cap(c)
  <2>1. chan[c].buf \in Seq(Item(Proc)) /\ Len(chan[c].buf) <= Cap(c) /\ Cap(c) \in Nat
    BY <1>2, InvFacts DEF ChanType, ChanOK
  <2>2. chan[c].receivers = <<>> /\ ~(Len(chan[c].buf) < Cap(c))
    BY DEF WaitToSend, Room
  <2>3. Len(chan[c].buf) \in Nat
    BY <2>1, LenProperties
  <2> HIDE DEF c
  <2> QED BY <2>1, <2>2, <2>3
<1>4. /\ DOMAIN ch = Chan /\ \A d \in Chan : d # c => ch[d] = chan[d]
      /\ ch[c] = [chan[c] EXCEPT !.senders = s]
      /\ DOMAIN pr = Proc /\ pr[p] = y /\ \A q \in Proc : q # p => pr[q] = proc[q]
  BY <1>2 DEF WaitToSend, Chan, Proc
<1>5. ProcType(Proc, y) /\ Resting(p, y) /\ y.status = "send"
  BY <1>1, StatusRests
<1>6. ChanType(Proc, chan[c]) /\ ChanOK(c, chan[c], Cap(c), role)
  BY <1>2, InvFacts
<1>7. s \in Seq(Proc) /\ NoDup(s) /\ \A q : In(s, q) <=> In(chan[c].senders, q) \/ q = p
  <2> DEFINE u == chan[c].senders
  <2>1. u \in Seq(Proc) /\ NoDup(u) /\ ~In(u, p) /\ s = Append(u, p)
    BY <1>1, <1>2, <1>6 DEF ChanType, ChanOK, Absent
  <2> HIDE DEF s, u
  <2>2. s \in Seq(Proc) /\ NoDup(s) /\ \A q : In(s, q) <=> In(u, q) \/ q = p
    BY <2>1, QueuedFacts
  <2> QED BY <2>2 DEF u
<1> HIDE DEF s, y
<1>8. /\ ChanType(Proc, ch[c]) /\ ch[c].buf = chan[c].buf /\ ch[c].senders = s
      /\ ch[c].receivers = chan[c].receivers
  <2> HIDE DEF c
  <2>1. LET x == [chan[c] EXCEPT !.senders = s]
        IN  /\ ChanType(Proc, x) /\ x.buf = chan[c].buf /\ x.senders = s
            /\ x.receivers = chan[c].receivers
    BY <1>6, <1>7 DEF ChanType
  <2> QED BY <2>1, <1>4
<1> HIDE DEF c
<1>9. Chans(role, ch, pr)
  <2>1. ChanOK(c, ch[c], Cap(c), role)
    BY <1>3, <1>6, <1>7, <1>8 DEF ChanOK
  <2> QED BY <2>1, <1>4, <1>8, InvFacts DEF Chans
<1>10. Waiting(role, ch, pr)
  <2>1. \A d \in Chan : ch[d].receivers = chan[d].receivers
    BY <1>4, <1>8
  <2> QED BY <2>1, <1>1, <1>4, InvFacts DEF Waiting, Absent
<1>11. Suspending(ch, pr)
  <2> SUFFICES ASSUME NEW d \in Chan, NEW q \in Proc, In(ch[d].senders, q)
               PROVE  Suspended(d, q, Code(q), pr[q])
    BY <1>4 DEF Suspending
  <2>1. CASE q = p
    <3>1. d = c
      BY <2>1, <1>1, <1>4 DEF Absent
    <3>2. Turn(Code(p), y, "s") /\ Code(p)[y.at].out = c
      BY <1>1, <1>5 DEF Resting, Turn, Phase, c
    <3> QED BY <2>1, <3>1, <3>2, <1>4, <1>5 DEF Suspended
  <2>2. CASE q # p
    <3>1. In(chan[d].senders, q)
      BY <2>2, <1>4, <1>7, <1>8
    <3> QED BY <2>2, <3>1, <1>4, InvFacts
  <2> QED BY <2>1, <2>2
<1>12. \A q \in Proc : ProcType(Proc, pr[q]) /\ Resting(q, pr[q])
  BY <1>4, <1>5, InvFacts DEF Resting
<1>13. \A d \in Chan : ch[d].buf = chan[d].buf
  BY <1>4, <1>8
<1> QED BY <1>4, <1>9, <1>10, <1>11, <1>12, <1>13, RestingInv

LEMMA WaitToReceiveInv ==
  ASSUME NEW role, Inv(role), NEW p \in Proc, WaitToReceive(p),
         NEW ch, ch = chan', NEW pr, pr = proc'
  PROVE  InvAt(role, ch, pr)
<1> DEFINE y == [proc[p] EXCEPT !.status = "receive"]
<1>1. Turn(Code(p), proc[p], "r") /\ proc[p].status = "run" /\ Absent(p, chan)
  BY AtOpTurn, RunningIsAbsent DEF WaitToReceive
<1>2. /\ Inputs(p) = InputsOf(Code(p), proc[p]) /\ \A c \in Inputs(p) : c \in role.reads[p]
  BY <1>1, LoopFits
<1>3. /\ DOMAIN ch = Chan
      /\ \A c \in Chan : ch[c] = IF c \in Inputs(p)
                                 THEN [chan[c] EXCEPT !.receivers = Append(@, p)] ELSE chan[c]
      /\ DOMAIN pr = Proc /\ pr[p] = y /\ \A q \in Proc : q # p => pr[q] = proc[q]
  BY DEF WaitToReceive, Chan, Proc
<1>4. ProcType(Proc, y) /\ Resting(p, y) /\ y.status = "receive"
  BY <1>1, StatusRests
<1> HIDE DEF y
<1>5. ASSUME NEW c \in Chan
      PROVE  /\ ChanType(Proc, ch[c]) /\ ch[c].buf = chan[c].buf
             /\ ch[c].senders = chan[c].senders /\ ChanOK(c, ch[c], Cap(c), role)
             /\ \A q : In(ch[c].receivers, q)
                  => In(chan[c].receivers, q) \/ (q = p /\ c \in Inputs(p))
  <2>1. ChanType(Proc, chan[c]) /\ ChanOK(c, chan[c], Cap(c), role)
    BY InvFacts
  <2>2. CASE c \notin Inputs(p)
    BY <2>1, <2>2, <1>3
  <2>3. CASE c \in Inputs(p)
    <3> DEFINE u == chan[c].receivers
               s == Append(u, p)
    <3>1. u \in Seq(Proc) /\ NoDup(u) /\ ~In(u, p)
      BY <1>1, <2>1 DEF ChanType, ChanOK, Absent
    <3>2. ch[c] = [chan[c] EXCEPT !.receivers = s]
      BY <2>3, <1>3
    <3>3. chan[c].buf = <<>> /\ chan[c].senders = <<>>
      BY <2>3 DEF WaitToReceive, Ripe
    <3>4. PICK t : t = s
      OBVIOUS
    <3> HIDE DEF u
    <3>5. t \in Seq(Proc) /\ NoDup(t) /\ \A q : In(t, q) <=> In(u, q) \/ q = p
      BY <3>1, <3>4, QueuedFacts
    <3> HIDE DEF s
    <3>6. LET x == [chan[c] EXCEPT !.receivers = t]
          IN  /\ ChanType(Proc, x) /\ x.buf = chan[c].buf /\ x.senders = chan[c].senders
              /\ x.receivers = t
      BY <2>1, <3>5 DEF ChanType
    <3>7. /\ ChanType(Proc, ch[c]) /\ ch[c].buf = chan[c].buf /\ ch[c].senders = chan[c].senders
          /\ ch[c].receivers = t
      BY <3>2, <3>4, <3>6
    <3>8. ChanOK(c, ch[c], Cap(c), role)
      BY <2>1, <3>3, <3>5, <3>7 DEF ChanOK
    <3> QED BY <3>5, <3>7, <3>8, <2>3 DEF u
  <2> QED BY <2>2, <2>3
<1>6. Chans(role, ch, pr)
  BY <1>3, <1>5 DEF Chans
<1>7. Waiting(role, ch, pr)
  <2> SUFFICES ASSUME NEW c \in Chan, NEW q \in Proc, In(ch[c].receivers, q)
               PROVE  Waits(c, q, Code(q), pr[q], role)
    BY <1>3 DEF Waiting
  <2>1. CASE q = p
    <3>1. c \in Inputs(p)
      BY <2>1, <1>1, <1>5 DEF Absent
    <3>2. Turn(Code(p), y, "r") /\ InputsOf(Code(p), y) = Inputs(p)
      BY <1>1, <1>2, <1>4 DEF Resting, Turn, InputsOf
    <3>3. y.arrived = {}
      BY <1>1, <1>4, RunningIsAbsent DEF Resting
    <3> QED BY <2>1, <3>1, <3>2, <3>3, <1>3, <1>4 DEF Waits
  <2>2. CASE q # p
    <3>1. In(chan[c].receivers, q)
      BY <2>2, <1>5
    <3> QED BY <2>2, <3>1, <1>3, InvFacts
  <2> QED BY <2>1, <2>2
<1>8. Suspending(ch, pr)
  <2> SUFFICES ASSUME NEW d \in Chan, NEW q \in Proc, In(ch[d].senders, q)
               PROVE  Suspended(d, q, Code(q), pr[q])
    BY <1>3 DEF Suspending
  <2>1. In(chan[d].senders, q)
    BY <1>5
  <2>2. q # p
    BY <1>1, <2>1 DEF Absent
  <2> QED BY <2>1, <2>2, <1>3, InvFacts
<1>9. \A q \in Proc : ProcType(Proc, pr[q]) /\ Resting(q, pr[q])
  BY <1>3, <1>4, InvFacts DEF Resting
<1> QED BY <1>3, <1>5, <1>6, <1>7, <1>8, <1>9, RestingInv

\* All of p's receives are over.
LEMMA WithoutEverywhere ==
  ASSUME NEW role, Inv(role), NEW p, NEW ch, ch = [c \in Chan |-> Without(p, chan[c])]
  PROVE  /\ Fewer(ch)
         /\ \A d \in Chan : ch[d].senders = chan[d].senders
         /\ \A d \in Chan : ~In(ch[d].receivers, p)
<1>1. LeavesThose(p, Chan, ch)
  BY DEF LeavesThose
<1> QED BY <1>1, WithoutIsFewer

\* What is received, and was in no buffer any more, changes no channel's items.
LEMMA ReceptionInv ==
  ASSUME NEW role, Inv(role), NEW p \in Proc, NEW S \in SUBSET proc[p].arrived,
         NEW ch, Fewer(ch), Absent(p, ch),
         NEW pr, DOMAIN pr = Proc, Reception(p, S, pr[p], role),
         \A q \in Proc : q # p => pr[q] = proc[q]
  PROVE  InvAt(role, ch, pr)
<1>1. Shape(ch, pr) /\ Tidy(program, role)
  BY DEF Inv, InvAt, Shape, Fewer, Chan, Proc
<1>2. Procs(role, pr)
  BY InvFacts DEF Procs, Reception
<1>3. Chans(role, ch, pr)
  BY FewerChans
<1>4. Waiting(role, ch, pr)
  BY InvFacts DEF Waiting, Fewer, Absent
<1>5. Suspending(ch, pr)
  BY InvFacts DEF Suspending, Fewer, Absent
<1>6. \A q \in Proc : \A i : Has(pr[q], i) => Has(proc[q], i)
  BY DEF Reception, Has
<1>7. Ahead(role, ch, pr)
  <2>1. Ahead(role, chan, proc)
    BY DEF Inv, InvAt
  <2> QED BY <2>1, <1>6, InvFacts DEF Ahead, Fewer, Proc
<1>8. Accounts(role, ch, pr)
  <2> SUFFICES ASSUME NEW i, Holding(ch, pr, i)
               PROVE  Accounted(i, role.relays[i.by], Code(i.by), pr[i.by])
    BY DEF Accounts
  <2>1. Held(i)
    BY <1>6 DEF Held, Holding, Fewer, Chan, Proc
  <2>2. i \in Item(Proc) /\ Accounted(i, role.relays[i.by], Code(i.by), proc[i.by])
    BY <2>1, HeldTypes
  <2>3. i.by \in Proc
    BY <2>2 DEF Item
  <2> QED BY <2>2, <2>3 DEF Reception
<1> QED BY <1>1, <1>2, <1>3, <1>4, <1>5, <1>7, <1>8 DEF InvAt

LEMMA ChooseInv ==
  ASSUME NEW role, Inv(role), NEW p \in Proc, Choose(p),
         NEW ch, ch = chan', NEW pr, pr = proc'
  PROVE  InvAt(role, ch, pr)
<1>1. ProcType(Proc, proc[p]) /\ ProcOK(p, Code(p), proc[p], role) /\ Fields(proc[p])
  BY InvFacts
<1>2. Turn(Code(p), proc[p], "r") /\ proc[p].status = "won"
  BY <1>1 DEF Choose, ProcOK
<1>3. PICK i \in proc[p].arrived :
        proc' = [proc EXCEPT ![p] = [Keeps(p, i) EXCEPT
                   !.arrived = {}, !.lost = @ \cup (proc[p].arrived \ {i})]]
  BY DEF Choose
<1>4. ch = [c \in Chan |-> Without(p, chan[c])]
  BY DEF Choose
<1> DEFINE z == Keeps(p, i)
           lost == z.lost \cup (proc[p].arrived \ {i})
           y == [z EXCEPT !.arrived = {}, !.lost = lost]
<1>5. DOMAIN pr = Proc /\ pr[p] = y /\ \A q \in Proc : q # p => pr[q] = proc[q]
  BY <1>3 DEF Proc
<1>6. i \in Item(Proc) /\ proc[p].arrived \in SUBSET Item(Proc)
  BY <1>1 DEF Fields
<1>7. ProcType(Proc, z) /\ z.status = "run"
  BY <1>2, <1>6, KeepsFacts
<1> HIDE DEF z
<1>8. lost \in SUBSET Item(Proc)
  BY <1>6, <1>7 DEF ProcType
<1> HIDE DEF lost
<1>9. /\ ProcType(Proc, y) /\ y.arrived = {} /\ y.status = "run" /\ y.at = z.at /\ y.k = z.k
      /\ y.got = z.got /\ y.sent = z.sent /\ y.hand = z.hand
  BY <1>7, <1>8 DEF ProcType
<1> HIDE DEF y
<1>10. Has(proc[p], i) /\ \A j \in DOMAIN proc[p].got : Less(proc[p].got[j], i)
  BY <1>1 DEF Has, ProcOK
<1>11. role.writes[i.by] \cap role.reads[p] # {}
  BY <1>10, <1>1 DEF ProcOK
<1>12. Reception(p, proc[p].arrived, y, role)
  <2> PICK S : S = proc[p].arrived
    OBVIOUS
  <2>1. /\ S \in SUBSET Item(Proc) /\ i \in S
        /\ y.at = Keeps(p, i).at /\ y.k = Keeps(p, i).k /\ y.got = Keeps(p, i).got
        /\ y.sent = Keeps(p, i).sent /\ y.hand = Keeps(p, i).hand
    BY <1>6, <1>9 DEF z
  <2>2. Reception(p, S, y, role)
    BY <2>1, <1>2, <1>9, <1>10, <1>11, KeptReception
  <2> QED BY <2>2
<1>13. Fewer(ch) /\ Absent(p, ch)
  <2>1. /\ Fewer(ch) /\ \A d \in Chan : ch[d].senders = chan[d].senders
        /\ \A d \in Chan : ~In(ch[d].receivers, p)
    BY <1>4, WithoutEverywhere
  <2>2. \A d \in Chan : ~In(chan[d].senders, p)
    BY <1>2, InvFacts DEF Suspended
  <2> QED BY <2>1, <2>2 DEF Absent
<1> QED BY <1>5, <1>12, <1>13, ReceptionInv

LEMMA AtFacts ==
  ASSUME NEW role, Inv(role), NEW p \in Proc, NEW op, At(p, op)
  PROVE  /\ proc[p].status = "run" /\ Absent(p, chan) /\ proc[p].arrived = {}
         /\ proc[p].at \in DOMAIN Code(p) /\ proc[p].at <= Len(Code(p)) /\ Phase(p).op = op
         /\ FitsPhase(Phase(p), role.reads[p], role.writes[p], role.closes[p], role.relays[p])
<1>1. proc[p].status = "run" /\ Phase(p).op = op
  BY DEF At
<1>2. Absent(p, chan) /\ proc[p].arrived = {}
  BY <1>1, RunningIsAbsent
<1>3. proc[p].at \in DOMAIN Code(p) /\ proc[p].at <= Len(Code(p))
  BY InvFacts DEF At, Returned, Fields
<1>4. Fits(Code(p), role.reads[p], role.writes[p], role.closes[p], role.relays[p])
  BY DEF Inv, InvAt, Proc, Chan, Tidy, Code, Shape
<1> QED BY <1>1, <1>2, <1>3, <1>4 DEF Fits, Phase

LEMMA LeftQuiet ==
  ASSUME NEW role, Inv(role), NEW p \in Proc, proc[p].arrived = {}, proc[p].at <= Len(Code(p)),
         NEW y, y = Left(proc[p])
  PROVE  Quiet(p, y, role)
<1>1. /\ ProcType(Proc, y) /\ y.at = proc[p].at + 1 /\ y.k = 0 /\ y.status = "run"
      /\ y.got = proc[p].got /\ y.arrived = {} /\ y.sent = proc[p].sent
  BY InvFacts, LeftFacts
<1>2. y.at <= Len(Code(p)) + 1 /\ y.sent >= proc[p].sent
  BY <1>1, InvFacts DEF Fields
<1>3. role.relays[p] => ~Turn(Code(p), y, "s")
  <2>1. role.relays[p] /\ Turn(Code(p), y, "s") => y.k % 2 = 1
    BY <1>1, RelayTurn
  <2> QED BY <1>1, <2>1
<1> QED BY <1>1, <1>2, <1>3, QuietMove

\* Only p moves, and holds nothing new.
LEMMA QuietStep ==
  ASSUME NEW role, Inv(role), NEW p \in Proc, NEW ch, Fewer(ch), Absent(p, ch),
         NEW pr, DOMAIN pr = Proc, Quiet(p, pr[p], role), \A q \in Proc : q # p => pr[q] = proc[q]
  PROVE  InvAt(role, ch, pr)
BY QuietInv

LEMMA LeftInv ==
  ASSUME NEW role, Inv(role), NEW p \in Proc, NEW op, At(p, op),
         NEW ch, ch = chan, NEW pr, pr = [proc EXCEPT ![p] = Left(@)]
  PROVE  InvAt(role, ch, pr)
<1>1. Absent(p, chan) /\ proc[p].arrived = {} /\ proc[p].at <= Len(Code(p))
  BY AtFacts
<1>2. pr[p] = Left(proc[p]) /\ DOMAIN pr = Proc /\ \A q \in Proc : q # p => pr[q] = proc[q]
  BY DEF Proc
<1>3. Quiet(p, pr[p], role)
  BY <1>1, <1>2, LeftQuiet
<1>4. Fewer(ch) /\ Absent(p, ch)
  BY <1>1, SameIsFewer
<1> QED BY <1>2, <1>3, <1>4, QuietStep

LEMMA LoadPlainInv ==
  ASSUME NEW role, Inv(role), NEW p \in Proc, LoadPlain(p),
         NEW ch, ch = chan, NEW pr, pr = proc'
  PROVE  InvAt(role, ch, pr)
<1> DEFINE v == shared[Phase(p).var]
           z == Left(proc[p])
           y == [z EXCEPT !.reg = v]
<1>1. Absent(p, chan) /\ proc[p].arrived = {} /\ proc[p].at <= Len(Code(p))
  BY AtFacts DEF LoadPlain
<1>2. pr[p] = y /\ DOMAIN pr = Proc /\ \A q \in Proc : q # p => pr[q] = proc[q]
  BY DEF LoadPlain, Proc
<1>3. Quiet(p, z, role)
  BY <1>1, LeftQuiet
<1> HIDE DEF v, z
<1>4. /\ ProcType(Proc, y) /\ y.at = z.at /\ y.k = z.k /\ y.status = z.status
      /\ y.hand = z.hand /\ y.sent = z.sent /\ y.got = z.got /\ y.arrived = z.arrived
  BY <1>3 DEF Quiet, ProcType
<1> HIDE DEF y
<1>5. \A op : Turn(Code(p), y, op) <=> Turn(Code(p), z, op)
  BY <1>4 DEF Turn
<1>6. \A h : Has(y, h) <=> Has(z, h)
  BY <1>4 DEF Has
<1>7. ProcOK(p, Code(p), y, role)
  <2>1. ProcOK(p, Code(p), z, role) /\ z.status = "run"
    BY <1>3 DEF Quiet
  <2>2. role.relays[p] /\ Turn(Code(p), y, "s") => y.got # <<>> /\ y.hand = y.got[Len(y.got)]
    BY <2>1, <1>4, <1>5 DEF ProcOK
  <2>3. \A i : Has(y, i) => role.writes[i.by] \cap role.reads[p] # {}
    BY <2>1, <1>6 DEF ProcOK
  <2> QED BY <2>1, <2>2, <2>3, <1>4 DEF ProcOK
<1>8. \A h : Accounted(h, role.relays[p], Code(p), z) <=> Accounted(h, role.relays[p], Code(p), y)
  BY <1>4, <1>5 DEF Accounted
<1>9. Quiet(p, y, role)
  BY <1>3, <1>4, <1>7, <1>8 DEF Quiet
<1>10. Fewer(ch) /\ Absent(p, ch)
  BY <1>1, SameIsFewer
<1> QED BY <1>2, <1>9, <1>10, QuietStep

LEMMA NeverSpawnedInv ==
  ASSUME NEW role, Inv(role), NEW p \in Proc, NeverSpawned(p),
         NEW ch, ch = chan, NEW pr, pr = proc'
  PROVE  InvAt(role, ch, pr)
<1> DEFINE n == Len(Code(p)) + 1
           y == [proc[p] EXCEPT !.at = n]
<1>1. Absent(p, chan) /\ proc[p].arrived = {} /\ proc[p].status = "run"
  BY AtFacts DEF NeverSpawned
<1>2. pr[p] = y /\ DOMAIN pr = Proc /\ \A q \in Proc : q # p => pr[q] = proc[q]
  BY DEF NeverSpawned, Proc
<1>3. n \in Nat \ {0} /\ ~(n <= Len(Code(p)))
  BY InvFacts
<1>4. ProcType(Proc, proc[p]) /\ proc[p].sent \in Nat
  BY InvFacts DEF Fields
<1>5. n <= Len(Code(p)) + 1
  BY <1>3
<1> HIDE DEF n
<1>6. /\ ProcType(Proc, y) /\ y.at = n /\ y.status = proc[p].status
      /\ y.sent = proc[p].sent /\ y.got = proc[p].got /\ y.arrived = proc[p].arrived
  BY <1>3, <1>4 DEF ProcType
<1> HIDE DEF y
<1>7. ~Turn(Code(p), y, "s")
  BY <1>3, <1>6 DEF Turn
<1>8. Quiet(p, y, role)
  <2>1. y.sent >= proc[p].sent /\ y.at <= Len(Code(p)) + 1
    BY <1>4, <1>5, <1>6
  <2> QED BY <2>1, <1>1, <1>6, <1>7, QuietMove
<1>9. Fewer(ch) /\ Absent(p, ch)
  BY <1>1, SameIsFewer
<1> QED BY <1>2, <1>8, <1>9, QuietStep

LEMMA TickInv ==
  ASSUME NEW role, Inv(role), NEW p \in Proc, Tick(p),
         NEW ch, ch = chan, NEW pr, pr = proc'
  PROVE  InvAt(role, ch, pr)
<1> DEFINE x == proc[p]
           y == Stepped(p, x)
<1>1. Turn(Code(p), x, "t") /\ Absent(p, chan) /\ x.arrived = {}
  BY AtOpTurn, RunningIsAbsent DEF Tick
<1>2. pr[p] = y /\ DOMAIN pr = Proc /\ \A q \in Proc : q # p => pr[q] = proc[q]
  BY DEF Tick, Proc
<1>3. Len(Phase(p).pattern) \in Nat \ {0} /\ x.at <= Len(Code(p)) /\ Len(Code(p)) \in Nat
  <2>1. Len(Phase(p).pattern) \in Nat \ {0}
    BY <1>1, LoopFits
  <2> QED BY <2>1, <1>1, InvFacts DEF Turn
<1>4. ProcType(Proc, x) /\ x.sent \in Nat /\ x.at \in Nat
  BY InvFacts DEF Fields
<1>5. /\ ProcType(Proc, y) /\ y.status = "run" /\ y.got = x.got /\ y.arrived = {} /\ y.sent = x.sent
      /\ y.at = x.at \/ (y.at = x.at + 1 /\ y.k = 0)
  BY <1>1, <1>3, <1>4, SteppedFacts
<1> HIDE DEF x, y
<1>6. role.relays[p] => ~Turn(Code(p), y, "s")
  <2> SUFFICES ASSUME role.relays[p], Turn(Code(p), y, "s") PROVE FALSE
    OBVIOUS
  <2>1. Code(p)[y.at].pattern = <<"r", "s">> /\ y.k % 2 = 1
    BY <1>5, RelayTurn
  <2>2. y.at = x.at
    BY <1>5, <2>1
  <2>3. x.k \in Nat
    BY InvFacts DEF Fields, x
  <2>7. Code(p)[x.at].pattern = <<"r", "s">>
    BY <2>1, <2>2
  <2>4. Len(Code(p)[x.at].pattern) = 2
    BY <2>7
  <2>5. x.k % 2 \in {0, 1}
    BY <2>3
  <2>6. Code(p)[x.at].pattern[(x.k % 2) + 1] = "t"
    BY <1>1, <2>4 DEF Turn
  <2> QED BY <2>1, <2>7, <2>2, <2>5, <2>6
<1>7. Quiet(p, y, role)
  <2>1. y.at <= Len(Code(p)) + 1 /\ y.sent >= x.sent
    BY <1>3, <1>4, <1>5
  <2> QED BY <2>1, <1>1, <1>5, <1>6, QuietMove DEF x
<1>8. Fewer(ch) /\ Absent(p, ch)
  BY <1>1, SameIsFewer
<1> QED BY <1>2, <1>7, <1>8, QuietStep

LEMMA CancelledInv ==
  ASSUME NEW role, Inv(role), NEW p \in Proc, Cancelled(p),
         NEW ch, ch = chan', NEW pr, pr = proc'
  PROVE  InvAt(role, ch, pr)
<1>1. /\ proc[p].at \in DOMAIN Code(p) /\ proc[p].at <= Len(Code(p))
      /\ Phase(p).op = "loop" /\ Phase(p).until # {}
  <2>1. ~Returned(p) /\ Phase(p).op = "loop" /\ Phase(p).until # {}
    BY DEF Cancelled
  <2>2. /\ proc[p].at \in Nat \ {0} /\ Len(Code(p)) \in Nat /\ DOMAIN Code(p) = 1..Len(Code(p))
        /\ ~(proc[p].at > Len(Code(p)))
    BY <2>1, InvFacts DEF Returned, Fields
  <2>3. proc[p].at \in DOMAIN Code(p) /\ proc[p].at <= Len(Code(p))
    BY <2>2
  <2> QED BY <2>1, <2>3
<1>2. ~Phase(p).lossy
  <2>1. Fits(Code(p), role.reads[p], role.writes[p], role.closes[p], role.relays[p])
    BY DEF Inv, InvAt, Proc, Chan, Tidy, Code, Shape
  <2> QED BY <2>1, <1>1 DEF Fits, FitsPhase, FitsLoop, Phase
<1>3. proc[p].arrived = {}
  BY <1>2, InvFacts DEF ProcOK, Phase
<1>4. pr[p] = Left(proc[p]) /\ DOMAIN pr = Proc /\ \A q \in Proc : q # p => pr[q] = proc[q]
  BY DEF Cancelled, Proc
<1>5. Quiet(p, pr[p], role)
  BY <1>1, <1>3, <1>4, LeftQuiet
<1>6. ch = [c \in Chan |-> [Without(p, chan[c]) EXCEPT !.senders = Removed(p, @)]]
  BY DEF Cancelled
<1>7. ASSUME NEW d \in Chan
      PROVE  /\ ChanType(Proc, ch[d]) /\ ch[d].buf = chan[d].buf
             /\ NoDup(ch[d].receivers) /\ NoDup(ch[d].senders)
             /\ \A q : In(ch[d].receivers, q) <=> In(chan[d].receivers, q) /\ q # p
             /\ \A q : In(ch[d].senders, q) <=> In(chan[d].senders, q) /\ q # p
             /\ ch[d].receivers # <<>> => chan[d].receivers # <<>>
             /\ ch[d].senders # <<>> => chan[d].senders # <<>>
  <2> DEFINE u == Removed(p, chan[d].receivers)
             v == Removed(p, chan[d].senders)
  <2>1. /\ ChanType(Proc, chan[d]) /\ chan[d].receivers \in Seq(Proc)
          /\ chan[d].senders \in Seq(Proc)
        /\ NoDup(chan[d].receivers) /\ NoDup(chan[d].senders)
    BY InvFacts DEF ChanType, ChanOK
  <2>2. /\ u \in Seq(Proc) /\ NoDup(u)
        /\ u # <<>> => chan[d].receivers # <<>>
        /\ \A q : In(u, q) <=> In(chan[d].receivers, q) /\ q # p
    BY <2>1, RemovedFacts
  <2>3. /\ v \in Seq(Proc) /\ NoDup(v)
        /\ v # <<>> => chan[d].senders # <<>>
        /\ \A q : In(v, q) <=> In(chan[d].senders, q) /\ q # p
    BY <2>1, RemovedFacts
  <2>4. ch[d] = [[chan[d] EXCEPT !.receivers = u] EXCEPT !.senders = v]
    <3>1. ch[d] = [Without(p, chan[d]) EXCEPT !.senders = Removed(p, @)]
      BY <1>6
    <3>2. [chan[d] EXCEPT !.receivers = u].senders = chan[d].senders
      BY <2>1, <2>2 DEF ChanType
    <3> QED BY <3>1, <3>2 DEF Without
  <2> HIDE DEF u, v
  <2> DEFINE w == [chan[d] EXCEPT !.receivers = u]
  <2>6. ChanType(Proc, w) /\ w.buf = chan[d].buf /\ w.receivers = u /\ w.senders = chan[d].senders
    BY <2>1, <2>2 DEF ChanType
  <2> HIDE DEF w
  <2>7. LET x == [w EXCEPT !.senders = v]
        IN  ChanType(Proc, x) /\ x.buf = w.buf /\ x.receivers = w.receivers /\ x.senders = v
    BY <2>6, <2>3 DEF ChanType
  <2>5. ChanType(Proc, ch[d]) /\ ch[d].buf = chan[d].buf /\ ch[d].receivers = u /\ ch[d].senders = v
    BY <2>4, <2>6, <2>7 DEF w
  <2> QED BY <2>1, <2>2, <2>3, <2>5
<1>8. Fewer(ch) /\ Absent(p, ch)
  <2>1. DOMAIN ch = Chan
    BY <1>6
  <2> QED BY <2>1, <1>7 DEF Fewer, Absent
<1> QED BY <1>4, <1>5, <1>8, QuietStep

LEMMA CloseChannelInv ==
  ASSUME NEW role, Inv(role), NEW p \in Proc, CloseChannel(p),
         NEW ch, ch = chan', NEW pr, pr = proc'
  PROVE  InvAt(role, ch, pr)
<1> DEFINE c == Phase(p).chan
           woken == SE!ToSet(chan[c].receivers)
<1>1. /\ Absent(p, chan) /\ proc[p].arrived = {} /\ proc[p].at <= Len(Code(p))
        /\ Phase(p).op = "close"
      /\ FitsPhase(Phase(p), role.reads[p], role.writes[p], role.closes[p], role.relays[p])
  BY AtFacts DEF CloseChannel
<1>2. c \in role.closes[p]
  BY <1>1 DEF FitsPhase
<1>3. Linked(Proc, Chan, role)
  BY InvFacts DEF Inv, InvAt, Tidy
<1>4. c \in Chan
  BY <1>2, <1>3 DEF Linked
<1>5. /\ ch = [d \in Chan |-> IF d = c THEN [chan[c] EXCEPT !.closed = TRUE, !.receivers = <<>>]
                              ELSE chan[d]]
      /\ pr = [q \in Proc |-> IF q = p THEN Left(proc[p])
                              ELSE IF q \in woken THEN [proc[q] EXCEPT !.status = "run"]
                              ELSE proc[q]]
  BY DEF CloseChannel
<1> HIDE DEF c
<1>6. /\ ChanType(Proc, ch[c]) /\ ch[c].buf = chan[c].buf /\ ch[c].receivers = <<>>
      /\ ch[c].senders = chan[c].senders
  <2>1. ChanType(Proc, chan[c]) /\ <<>> \in Seq(Proc)
    BY <1>4, InvFacts
  <2>2. LET x == [chan[c] EXCEPT !.closed = TRUE, !.receivers = <<>>]
        IN  /\ ChanType(Proc, x) /\ x.buf = chan[c].buf /\ x.receivers = <<>>
            /\ x.senders = chan[c].senders
    BY <2>1 DEF ChanType
  <2> QED BY <2>2, <1>4, <1>5
<1>7. Fewer(ch)
  <2>1. NoDup(<<>>) /\ \A q : ~In(<<>>, q)
    BY DEF NoDup, In
  <2>2. \A d \in Chan : /\ ChanType(Proc, chan[d]) /\ NoDup(chan[d].receivers)
                        /\ NoDup(chan[d].senders)
    BY InvFacts DEF ChanOK
  <2>3. \A d \in Chan : d # c => ch[d] = chan[d]
    BY <1>5
  <2>4. DOMAIN ch = Chan
    BY <1>5
  <2> QED BY <1>6, <2>1, <2>2, <2>3, <2>4 DEF Fewer
<1>8. pr[p] = Left(proc[p]) /\ DOMAIN pr = Proc
  BY <1>5
<1>9. Quiet(p, pr[p], role)
  BY <1>1, <1>8, LeftQuiet
<1>10. Absent(p, ch)
  BY <1>1, <1>7 DEF Absent, Fewer
<1>11. ASSUME NEW q \in Proc, q # p, q \in woken
       PROVE  Quiet(q, pr[q], role) /\ Absent(q, ch)
  <2>1. In(chan[c].receivers, q)
    BY <1>11 DEF SE!ToSet, In
  <2>2. Waits(c, q, Code(q), proc[q], role)
    BY <2>1, <1>4, InvFacts
  <2>3. Turn(Code(q), proc[q], "r") /\ c \in InputsOf(Code(q), proc[q])
    BY <2>2 DEF Waits
  <2>4. c \in role.reads[q] /\ proc[q].at \in DOMAIN Code(q) /\ Code(q)[proc[q].at].op = "loop"
    BY <2>3, LoopFits DEF Phase
  <2>5. Solo(Code(q))
    BY <1>2, <1>11, <2>4, InvFacts DEF Inv, InvAt, Tidy, Code
  <2>6. ~Code(q)[proc[q].at].lossy /\ \A a, b \in Code(q)[proc[q].at].in : a = b
    BY <2>4, <2>5 DEF Solo
  <2>7. proc[q].status = "receive" /\ proc[q].arrived = {}
    BY <2>2, <2>6, InvFacts DEF Waits, ProcOK
  <2>8. Absent(q, ch)
    <3> SUFFICES ASSUME NEW d \in Chan PROVE ~In(ch[d].receivers, q) /\ ~In(ch[d].senders, q)
      BY DEF Absent
    <3>1. ~In(chan[d].senders, q)
      BY <2>7, InvFacts DEF Suspended
    <3>2. In(chan[d].receivers, q) => d \in InputsOf(Code(q), proc[q])
      BY InvFacts DEF Waits
    <3>3. d \in InputsOf(Code(q), proc[q]) => d = c
      BY <2>3, <2>6 DEF InputsOf
    <3>4. d = c => ~In(ch[d].receivers, q)
      BY <1>6 DEF In
    <3> QED BY <3>1, <3>2, <3>3, <3>4, <1>7 DEF Fewer
  <2>9. Quiet(q, pr[q], role)
    <3> DEFINE y == [proc[q] EXCEPT !.status = "run"]
    <3>1. pr[q] = y
      BY <1>5, <1>11
    <3>2. ProcType(Proc, proc[q]) /\ proc[q].sent \in Nat /\ proc[q].at <= Len(Code(q)) + 1
      BY InvFacts DEF Fields, ProcOK
    <3>3. /\ ProcType(Proc, y) /\ y.at = proc[q].at /\ y.k = proc[q].k /\ y.status = "run"
          /\ y.sent = proc[q].sent /\ y.got = proc[q].got /\ y.arrived = proc[q].arrived
      BY <3>2 DEF ProcType
    <3> HIDE DEF y
    <3>4. ~Turn(Code(q), y, "s")
      BY <2>3, <3>3 DEF Turn
    <3>5. y.sent >= proc[q].sent /\ y.at <= Len(Code(q)) + 1
      BY <3>2, <3>3
    <3> QED BY <3>1, <3>3, <3>4, <3>5, <2>7, QuietMove
  <2> QED BY <2>8, <2>9
<1>12. \A q \in Proc : q # p /\ q \notin woken => pr[q] = proc[q]
  BY <1>5
<1> HIDE DEF woken
<1> QED BY <1>7, <1>8, <1>9, <1>10, <1>11, <1>12, QuietInv

LEMMA WriterTurn ==
  ASSUME NEW role, Inv(role), NEW p \in Proc, Turn(Code(p), proc[p], "s")
  PROVE  Phase(p).out \in role.writes[p] /\ Phase(p).out \in Chan
<1>1. /\ FitsLoop(Phase(p), role.reads[p], role.writes[p], role.relays[p])
      /\ (proc[p].k % Len(Phase(p).pattern)) + 1 \in DOMAIN Phase(p).pattern
  BY LoopFits
<1>2. Phase(p).out \in role.writes[p]
  BY <1>1 DEF Turn, FitsLoop, Phase
<1> QED BY <1>2, InvFacts

LEMMA SentInv ==
  ASSUME NEW role, Inv(role), NEW p \in Proc, NEW c, NEW i, NEW y, Emission(p, c, i, y, role),
         proc[p].status = "run",
         LET after == [proc EXCEPT ![p] = y] IN HandOver(c, i, after) \/ Store(c, i, after),
         NEW ch, ch = chan', NEW pr, pr = proc'
  PROVE  InvAt(role, ch, pr)
<1> DEFINE after == [proc EXCEPT ![p] = y]
           r == Head(chan[c].receivers)
<1>1. c \in Chan
  BY DEF Emission
<1>2. DOMAIN after = Proc /\ after[p] = y /\ \A q \in Proc : q # p => after[q] = proc[q]
  BY DEF Proc
<1>3. CASE HandOver(c, i, after)
  <2>1. chan[c].receivers # <<>> /\ ch = Unregistered(r, c)
          /\ pr = [after EXCEPT ![r] = Given(r, {i})]
    BY <1>3 DEF HandOver
  <2>2. r \in Proc
    BY <1>1, <2>1, InvFacts DEF ChanType
  <2>3. /\ DOMAIN ch = Chan
        /\ \A d \in Chan : ch[d] = IF d = c \/ ~Phase(r).lossy THEN Without(r, chan[d]) ELSE chan[d]
    BY <2>1 DEF Unregistered
  <2> HIDE DEF after, r
  <2>4. /\ DOMAIN pr = Proc /\ pr[r] = Given(r, {i})
        /\ \A q \in Proc : q # p /\ q # r => pr[q] = proc[q]
    BY <1>2, <2>1, <2>2
  <2>5. r # p => pr[p] = y
    BY <1>2, <2>1, <2>2
  <2>6. r = Head(chan[c].receivers)
    BY DEF r
  <2>7. HandedOver(p, c, i, y, r, ch, pr)
    BY <2>1, <2>3, <2>4, <2>5, <2>6 DEF HandedOver
  <2> QED BY <2>7, HandOverInv
<1>4. CASE Store(c, i, after)
  <2>1. /\ chan[c].receivers = <<>> /\ Len(chan[c].buf) < Cap(c)
        /\ ch = [chan EXCEPT ![c].buf = Append(@, i)] /\ pr = after
    BY <1>4 DEF Store, Room
  <2>2. /\ DOMAIN ch = Chan /\ \A d \in Chan : d # c => ch[d] = chan[d]
        /\ ch[c] = [chan[c] EXCEPT !.buf = Append(@, i)]
    BY <1>1, <2>1 DEF Chan
  <2> HIDE DEF after
  <2>3. Stored(p, c, i, y, ch, pr)
    BY <1>2, <2>1, <2>2 DEF Stored
  <2> QED BY <2>3, StoreInv
<1> QED BY <1>3, <1>4

LEMMA SendInv ==
  ASSUME NEW role, Inv(role), NEW p \in Proc, Send(p),
         NEW ch, ch = chan', NEW pr, pr = proc'
  PROVE  InvAt(role, ch, pr)
<1>1. Turn(Code(p), proc[p], "s") /\ proc[p].status = "run"
  BY AtOpTurn DEF Send
<1>2. Phase(p).out \in Chan
  BY <1>1, WriterTurn
<1>3. Emission(p, Phase(p).out, Outgoing(p), HasSent(p), role)
  BY <1>1, <1>2, SendEmission
<1>4. LET after == [proc EXCEPT ![p] = HasSent(p)]
      IN  HandOver(Phase(p).out, Outgoing(p), after) \/ Store(Phase(p).out, Outgoing(p), after)
  BY DEF Send
<1> QED BY <1>1, <1>3, <1>4, SentInv

LEMMA SendStopInv ==
  ASSUME NEW role, Inv(role), NEW p \in Proc, SendStop(p),
         NEW ch, ch = chan', NEW pr, pr = proc'
  PROVE  InvAt(role, ch, pr)
<1> DEFINE c == Phase(p).chan
           i == [from |-> p, seq |-> 0, by |-> p]
           y == Left(proc[p])
<1>1. /\ proc[p].status = "run" /\ proc[p].arrived = {} /\ proc[p].at <= Len(Code(p))
      /\ Phase(p).op = "stop"
      /\ FitsPhase(Phase(p), role.reads[p], role.writes[p], role.closes[p], role.relays[p])
  BY AtFacts DEF SendStop
<1>2. c \in role.writes[p]
  BY <1>1 DEF FitsPhase
<1>3. c \in Chan
  BY <1>2, InvFacts
<1>4. Quiet(p, y, role)
  BY <1>1, LeftQuiet
<1>5. i \in Item(Proc) /\ i.by = p /\ i.seq = 0
  BY DEF Item
<1>6. LET after == [proc EXCEPT ![p] = y] IN HandOver(c, i, after) \/ Store(c, i, after)
  BY DEF SendStop
<1> HIDE DEF i, y, c
<1>7. Emission(p, c, i, y, role)
  BY <1>2, <1>3, <1>4, <1>5 DEF Emission, Less, Accounted
<1> QED BY <1>1, <1>6, <1>7, SentInv

-----------------------------------------------------------------------------
LEMMA FreedFacts ==
  ASSUME NEW role, Inv(role), NEW c \in Chan, NEW f \in Freed(c)
  PROVE  /\ f \in Proc /\ f = Head(chan[c].senders) /\ In(chan[c].senders, f)
         /\ Suspended(c, f, Code(f), proc[f])
         /\ Emission(f, c, Outgoing(f), HasSent(f), role)
<1>1. chan[c].senders # <<>> /\ f = Head(chan[c].senders)
  BY DEF Freed
<1>2. chan[c].senders \in Seq(Proc)
  BY InvFacts DEF ChanType
<1>3. f \in Proc /\ In(chan[c].senders, f)
  <2>1. f = chan[c].senders[1] /\ 1 \in DOMAIN chan[c].senders /\ f \in Proc
    BY <1>1, <1>2
  <2> QED BY <2>1 DEF In
<1>4. Suspended(c, f, Code(f), proc[f])
  BY <1>3, InvFacts
<1>5. Turn(Code(f), proc[f], "s") /\ Phase(f).out = c /\ proc[f].status = "send"
  BY <1>4 DEF Suspended, Phase
<1> QED BY <1>1, <1>3, <1>4, <1>5, SendEmission

\* What waits in c and with the suspended senders is in order.
LEMMA QueueFacts ==
  ASSUME NEW role, Inv(role), NEW c \in Chan, Ripe(c), NEW s, s = Queue(c)
  PROVE  /\ s \in Seq(Item(Proc)) /\ Sorted(s)
         /\ Len(s) = Len(chan[c].buf) + Len(chan[c].senders)
         /\ \A k \in DOMAIN s : c \in role.writes[s[k].by]
         /\ \A k \in 1..Len(chan[c].buf) : s[k] = chan[c].buf[k]
         /\ chan[c].senders # <<>> => s[Len(chan[c].buf) + 1] = Outgoing(Head(chan[c].senders))
         /\ Len(chan[c].buf) \in Nat /\ Len(chan[c].senders) \in Nat
         /\ Len(chan[c].buf) + Len(chan[c].senders) > 0
<1> DEFINE u == chan[c].buf
           w == chan[c].senders
           v == [k \in DOMAIN w |-> Outgoing(w[k])]
<1>1. /\ u \in Seq(Item(Proc)) /\ w \in Seq(Proc) /\ Sorted(u) /\ NoDup(w)
      /\ \A k \in DOMAIN u : c \in role.writes[u[k].by]
  BY InvFacts DEF ChanType, ChanOK
<1>2. ASSUME NEW k \in DOMAIN w
      PROVE  /\ v[k] \in Item(Proc) /\ v[k] = Outgoing(w[k]) /\ v[k].by = w[k] /\ w[k] \in Proc
             /\ c \in role.writes[w[k]] /\ Turn(Code(w[k]), proc[w[k]], "s")
  <2> DEFINE q == w[k]
  <2>1. q \in Proc /\ In(w, q)
    BY <1>1 DEF In
  <2> HIDE DEF q, w
  <2>2. Turn(Code(q), proc[q], "s") /\ Phase(q).out = c
    BY <2>1, InvFacts DEF Suspended, Phase, w
  <2>3. Outgoing(q) \in Item(Proc) /\ Outgoing(q).by = q
    BY <2>1, <2>2, OutgoingFacts
  <2>4. c \in role.writes[q]
    BY <2>1, <2>2, WriterTurn
  <2> QED BY <2>1, <2>2, <2>3, <2>4 DEF q
<1>3. v \in Seq(Item(Proc)) /\ Len(v) = Len(w) /\ DOMAIN v = DOMAIN w
  <2>1. DOMAIN w = 1..Len(w) /\ Len(w) \in Nat
    BY <1>1
  <2>2. v \in [1..Len(w) -> Item(Proc)]
    BY <1>2, <2>1
  <2> HIDE DEF v, w
  <2> QED BY <2>1, <2>2
<1> DEFINE m == Len(u)
           n == Len(w)
<1>4. m \in Nat /\ n \in Nat /\ DOMAIN u = 1..m /\ DOMAIN w = 1..n
  BY <1>1
<1>5. s = u \o v
  BY DEF Queue
<1> HIDE DEF u, v, w
<1>6. /\ s \in Seq(Item(Proc)) /\ Len(s) = m + n /\ DOMAIN s = 1..(m + n)
      /\ \A k \in 1..(m + n) : s[k] = IF k <= m THEN u[k] ELSE v[k - m]
  BY <1>1, <1>3, <1>4, <1>5, ConcatProperties, LenProperties
<1> HIDE DEF m, n
<1>7. \A k \in 1..(m + n) : \/ k \in 1..m /\ s[k] = u[k]
                            \/ k - m \in 1..n /\ ~(k <= m) /\ s[k] = v[k - m]
  BY <1>4, <1>6
<1>8. \A k \in DOMAIN s : c \in role.writes[s[k].by]
  <2> SUFFICES ASSUME NEW k \in 1..(m + n) PROVE c \in role.writes[s[k].by]
    BY <1>6
  <2>1. CASE k \in 1..m /\ s[k] = u[k]
    BY <2>1, <1>1, <1>4
  <2>2. CASE k - m \in 1..n /\ s[k] = v[k - m]
    BY <2>2, <1>2, <1>4
  <2> QED BY <2>1, <2>2, <1>7
<1>9. Sorted(s)
  <2> SUFFICES ASSUME NEW j \in 1..(m + n), NEW k \in 1..(m + n), j < k PROVE Less(s[j], s[k])
    BY <1>6 DEF Sorted
  <2>1. CASE k \in 1..m /\ s[k] = u[k]
    <3>1. j \in 1..m /\ s[j] = u[j]
      BY <2>1, <1>4, <1>7
    <3> QED BY <2>1, <3>1, <1>1, <1>4 DEF Sorted
  <2>2. CASE k - m \in 1..n /\ s[k] = v[k - m]
    <3> DEFINE q == w[k - m]
    <3>1. /\ s[k] = Outgoing(q) /\ s[k].by = q /\ q \in Proc /\ Turn(Code(q), proc[q], "s")
      BY <2>2, <1>2, <1>4
    <3>2. CASE j \in 1..m /\ s[j] = u[j]
      <4>1. Held(s[j])
        BY <3>2, <1>4 DEF Held, Holding, In, Chan, u
      <4> QED BY <4>1, <3>1, OutgoingIsNew
    <3>3. CASE j - m \in 1..n /\ s[j] = v[j - m]
      <4>1. s[j].by = w[j - m]
        BY <3>3, <1>2, <1>4
      <4>2. j - m # k - m
        BY <1>4
      <4>3. s[j].by # s[k].by
        BY <4>1, <4>2, <3>1, <3>3, <2>2, <1>1, <1>4 DEF NoDup
      <4> QED BY <4>3 DEF Less
    <3> QED BY <3>2, <3>3, <1>7
  <2> QED BY <2>1, <2>2, <1>7
<1>10. w # <<>> => s[m + 1] = Outgoing(Head(w))
  <2> SUFFICES ASSUME w # <<>> PROVE s[m + 1] = Outgoing(Head(w))
    OBVIOUS
  <2>1. n # 0 /\ 1 \in DOMAIN w
    BY <1>1, <1>4, EmptySeq DEF n
  <2>2. m + 1 \in 1..(m + n) /\ ~(m + 1 <= m) /\ (m + 1) - m = 1
    BY <2>1, <1>4
  <2>3. s[m + 1] = v[1]
    BY <2>2, <1>6
  <2>4. v[1] = Outgoing(w[1])
    BY <2>1, <1>2
  <2>5. Head(w) = w[1]
    BY <1>1, <2>1
  <2> QED BY <2>3, <2>4, <2>5
<1>11. m + n > 0
  <2>1. u # <<>> \/ w # <<>>
    BY DEF Ripe, u, w
  <2>2. m # 0 \/ n # 0
    BY <2>1, <1>1, EmptySeq DEF m, n
  <2> QED BY <2>2, <1>4
<1>12. \A k \in 1..m : s[k] = u[k]
  BY <1>4, <1>7
<1> QED BY <1>4, <1>6, <1>8, <1>9, <1>10, <1>11, <1>12 DEF u, w, m, n

\* The head of c is taken, and a suspended sender's item gets the place.
TakenFrom(c, e, y, role) ==
  /\ e \in Item(Proc) /\ c \in role.writes[e.by]
  /\ In(chan[c].buf, e) \/ (\E f \in Freed(c) : e = Outgoing(f))
  /\ ChanType(Proc, y) /\ ChanOK(c, y, Cap(c), role) /\ y.receivers = <<>>
  /\ \A h : In(y.buf, h) => /\ Less(e, h)
                            /\ In(chan[c].buf, h) \/ (\E f \in Freed(c) : h = Outgoing(f))
  /\ \A q : In(y.senders, q) => In(chan[c].senders, q) /\ q \notin Freed(c)

LEMMA TailFacts ==
  ASSUME NEW P, NEW s \in Seq(P), s # <<>>, NoDup(s), NEW t, t = Tail(s)
  PROVE  /\ t \in Seq(P) /\ NoDup(t) /\ Len(t) = Len(s) - 1
         /\ \A q : In(t, q) => In(s, q) /\ q # Head(s)
<1>1. /\ t \in Seq(P) /\ Len(t) = Len(s) - 1 /\ \A k \in 1..Len(t) : t[k] = s[k + 1]
        /\ k + 1 \in 1..Len(s)
  BY EmptySeq
<1>2. DOMAIN t = 1..Len(t) /\ DOMAIN s = 1..Len(s) /\ Head(s) = s[1] /\ 1 \in DOMAIN s
  BY <1>1, EmptySeq
<1>3. NoDup(t)
  BY <1>1, <1>2 DEF NoDup
<1>4. ASSUME NEW q, In(t, q) PROVE In(s, q) /\ q # Head(s)
  <2>1. PICK k \in 1..Len(t) : t[k] = q
    BY <1>2, <1>4 DEF In
  <2>2. k + 1 \in DOMAIN s /\ s[k + 1] = q /\ k + 1 # 1
    BY <2>1, <1>1, <1>2
  <2> QED BY <2>2, <1>2 DEF In, NoDup
<1> QED BY <1>1, <1>3, <1>4

LEMMA PoppedFacts ==
  ASSUME NEW role, Inv(role), NEW c \in Chan, Ripe(c)
  PROVE  TakenFrom(c, Head(Queue(c)), Popped(c), role)
<1> DEFINE s == Queue(c)
           m == Len(chan[c].buf)
           n == Len(chan[c].senders)
           f == Cardinality(Freed(c))
           b == SubSeq(s, 2, m + f)
           w == IF chan[c].senders = <<>> THEN chan[c].senders ELSE Tail(chan[c].senders)
           y == Popped(c)
           e == Head(s)
<1>1. /\ ChanType(Proc, chan[c]) /\ ChanOK(c, chan[c], Cap(c), role) /\ Cap(c) \in Nat
      /\ chan[c].senders \in Seq(Proc) /\ chan[c].buf \in Seq(Item(Proc)) /\ NoDup(chan[c].senders)
  BY InvFacts DEF ChanType, ChanOK
<1>2. /\ s \in Seq(Item(Proc)) /\ Sorted(s) /\ Len(s) = m + n
      /\ \A k \in DOMAIN s : c \in role.writes[s[k].by]
      /\ \A k \in 1..m : s[k] = chan[c].buf[k]
      /\ chan[c].senders # <<>> => s[m + 1] = Outgoing(Head(chan[c].senders))
      /\ m \in Nat /\ n \in Nat /\ m + n > 0
  BY QueueFacts
<1>3. /\ chan[c].senders = <<>> => f = 0 /\ n = 0
      /\ chan[c].senders # <<>> => f = 1 /\ n > 0 /\ Freed(c) = {Head(chan[c].senders)}
           /\ m = Cap(c)
  <2>1. CASE chan[c].senders = <<>>
    <3>1. f = 0
      BY <2>1, FS_EmptySet DEF Freed
    <3> QED BY <3>1, <2>1
  <2>2. CASE chan[c].senders # <<>>
    <3>1. Freed(c) = {Head(chan[c].senders)}
      BY <2>2 DEF Freed
    <3>2. f = 1
      BY <3>1, FS_Singleton
    <3>3. n > 0
      BY <2>2, <1>1, EmptySeq
    <3>4. m = Cap(c)
      BY <2>2, <1>1 DEF ChanOK
    <3> QED BY <3>1, <3>2, <3>3, <3>4, <2>2
  <2> QED BY <2>1, <2>2
<1>4. m <= Cap(c) /\ chan[c].receivers = <<>>
  BY <1>1 DEF ChanOK, Ripe
<1>5. y = [[chan[c] EXCEPT !.buf = b] EXCEPT !.senders = w]
  <2>1. [chan[c] EXCEPT !.buf = b].senders = chan[c].senders
    BY <1>1 DEF ChanType
  <2> QED BY <2>1 DEF Popped
<1>6. /\ w \in Seq(Proc) /\ NoDup(w)
      /\ \A q : In(w, q) => In(chan[c].senders, q) /\ q \notin Freed(c)
      /\ w # <<>> => chan[c].senders # <<>>
  <2>1. CASE chan[c].senders = <<>>
    BY <2>1, <1>1 DEF Freed
  <2>2. CASE chan[c].senders # <<>>
    <3> DEFINE u == chan[c].senders
    <3>1. w = Tail(u) /\ u \in Seq(Proc) /\ u # <<>> /\ NoDup(u)
      BY <2>2, <1>1
    <3> HIDE DEF u, w
    <3>2. w \in Seq(Proc) /\ NoDup(w) /\ \A q : In(w, q) => In(u, q) /\ q # Head(u)
      BY <3>1, TailFacts
    <3>3. \A q \in Freed(c) : q = Head(u)
      BY DEF Freed, u
    <3> QED BY <3>2, <3>3, <2>2 DEF u
  <2> QED BY <2>1, <2>2
<1> HIDE DEF s, f, m, n, w, y, e
<1>7. f \in Nat /\ f <= n /\ m + f > 0
  BY <1>2, <1>3
<1>8. /\ b \in Seq(Item(Proc)) /\ Len(b) = m + f - 1 /\ DOMAIN b = 1..(m + f - 1)
      /\ \A k \in 1..(m + f - 1) : b[k] = s[k + 1] /\ k + 1 \in DOMAIN s
      /\ DOMAIN s = 1..(m + n) /\ e = s[1] /\ 1 \in DOMAIN s
  <2>1. 2 \in 1..(m + f + 1) /\ m + f \in 1..Len(s)
    BY <1>2, <1>7
  <2>2. b \in Seq(Item(Proc)) /\ Len(b) = m + f - 1
    BY <2>1, <1>2, <1>7
  <2>3. \A k \in 1..(m + f - 1) : b[k] = s[k + 1] /\ k + 1 \in 1..Len(s)
    BY <2>1, <1>2, <1>7
  <2>4. DOMAIN s = 1..(m + n) /\ 1 \in 1..(m + n)
    BY <1>2, LenProperties
  <2>5. e = s[1]
    BY <1>2, <2>4 DEF e
  <2> HIDE DEF b
  <2>6. DOMAIN b = 1..(m + f - 1)
    BY <2>2, LenProperties
  <2>7. \A k \in 1..(m + f - 1) : k + 1 \in DOMAIN s
    BY <2>3, <2>4, <1>2
  <2> QED BY <2>2, <2>3, <2>4, <2>5, <2>6, <2>7
<1> HIDE DEF b
<1>9. \A k \in DOMAIN s : k <= m + f
        => In(chan[c].buf, s[k]) \/ \E g \in Freed(c) : s[k] = Outgoing(g)
  <2> SUFFICES ASSUME NEW k \in 1..(m + n), k <= m + f
               PROVE  In(chan[c].buf, s[k]) \/ \E g \in Freed(c) : s[k] = Outgoing(g)
    BY <1>8
  <2>1. CASE k <= m
    <3>1. k \in DOMAIN chan[c].buf /\ s[k] = chan[c].buf[k]
      BY <2>1, <1>1, <1>2 DEF m
    <3> QED BY <3>1 DEF In
  <2>2. CASE ~(k <= m)
    <3>1. f = 1 /\ k = m + 1
      BY <2>2, <1>2, <1>3
    <3>2. chan[c].senders # <<>>
      BY <3>1, <1>3
    <3> QED BY <3>1, <3>2, <1>2, <1>3
  <2> QED BY <2>1, <2>2
<1>10. e \in Item(Proc) /\ c \in role.writes[e.by]
  BY <1>2, <1>8
<1>11. In(chan[c].buf, e) \/ \E g \in Freed(c) : e = Outgoing(g)
  <2>1. 1 \in DOMAIN s /\ 1 <= m + f /\ e = s[1]
    BY <1>2, <1>7, <1>8
  <2> QED BY <2>1, <1>9
<1>12. \A h : In(b, h) => Less(e, h) /\ (In(chan[c].buf, h) \/ \E g \in Freed(c) : h = Outgoing(g))
  <2> SUFFICES ASSUME NEW h, In(b, h)
               PROVE  Less(e, h) /\ (In(chan[c].buf, h) \/ \E g \in Freed(c) : h = Outgoing(g))
    OBVIOUS
  <2>1. PICK k \in 1..(m + f - 1) : b[k] = h
    BY <1>8 DEF In
  <2>2. h = s[k + 1] /\ k + 1 \in DOMAIN s /\ 1 < k + 1 /\ k + 1 <= m + f
    BY <2>1, <1>2, <1>7, <1>8
  <2>3. Less(e, h)
    BY <2>2, <1>2, <1>8 DEF Sorted
  <2> QED BY <2>2, <2>3, <1>9
<1>13. Sorted(b) /\ \A k \in DOMAIN b : c \in role.writes[b[k].by]
  <2>1. \A k \in DOMAIN b : c \in role.writes[b[k].by]
    BY <1>2, <1>8
  <2>2. ASSUME NEW j \in 1..(m + f - 1), NEW k \in 1..(m + f - 1), j < k PROVE Less(b[j], b[k])
    <3>1. j + 1 < k + 1
      BY <2>2
    <3> QED BY <3>1, <1>2, <1>8 DEF Sorted
  <2> QED BY <2>1, <2>2, <1>8 DEF Sorted
<1>14. ChanType(Proc, y) /\ y.buf = b /\ y.senders = w /\ y.receivers = <<>>
  <2> DEFINE z == [chan[c] EXCEPT !.buf = b]
  <2>1. ChanType(Proc, z) /\ z.buf = b /\ z.receivers = chan[c].receivers
    BY <1>1, <1>8 DEF ChanType
  <2> HIDE DEF z
  <2>2. LET x == [z EXCEPT !.senders = w]
        IN  ChanType(Proc, x) /\ x.buf = z.buf /\ x.senders = w /\ x.receivers = z.receivers
    BY <2>1, <1>6 DEF ChanType
  <2> QED BY <2>1, <2>2, <1>4, <1>5 DEF z
<1>15. ChanOK(c, y, Cap(c), role)
  <2>1. Len(b) <= Cap(c)
    BY <1>1, <1>2, <1>3, <1>4, <1>7, <1>8
  <2>2. w # <<>> => Len(b) = Cap(c)
    BY <1>1, <1>2, <1>3, <1>6, <1>8
  <2>3. NoDup(<<>>)
    BY DEF NoDup
  <2> QED BY <2>1, <2>2, <2>3, <1>6, <1>13, <1>14 DEF ChanOK
<1>16. TakenFrom(c, e, y, role)
  BY <1>6, <1>10, <1>11, <1>12, <1>14, <1>15 DEF TakenFrom
<1> QED BY <1>16 DEF e, y, s

\* cs are the channels a receive of p takes from, S the items it takes.
Taking(p, cs, S) ==
  /\ cs # {} /\ cs \in SUBSET Chan /\ cs \in SUBSET Inputs(p) /\ \A c \in cs : Ripe(c)
  /\ Phase(p).lossy => \A c \in Inputs(p) : Ripe(c) => c \in cs
  /\ S = {Head(Queue(c)) : c \in cs}
Received(p, cs, S, ch, pr) ==
  /\ DOMAIN ch = Chan /\ DOMAIN pr = Proc
  /\ \A c \in Chan : ch[c] = IF c \in cs THEN Popped(c)
                             ELSE IF Phase(p).lossy /\ c \in Inputs(p)
                                  THEN [chan[c] EXCEPT !.receivers = Append(@, p)]
                             ELSE chan[c]
  /\ pr[p] = Given(p, S)
  /\ \A q \in Proc : q # p =>
       pr[q] = IF \E c \in cs : q \in Freed(c) THEN HasSent(q) ELSE proc[q]

LEMMA TakenIsTimely ==
  ASSUME NEW role, Inv(role), NEW p \in Proc, Turn(Code(p), proc[p], "r"), proc[p].status = "run",
         NEW cs, NEW S, Taking(p, cs, S)
  PROVE  /\ Timely(p, S, role)
         /\ \A c \in cs : c \in role.reads[p] /\ TakenFrom(c, Head(Queue(c)), Popped(c), role)
         /\ \A c \in Inputs(p) : c \in role.reads[p]
<1>1. \A c \in Inputs(p) : c \in role.reads[p]
  BY LoopFits
<1>2. \A c \in cs : c \in role.reads[p] /\ c \in Chan
        /\ TakenFrom(c, Head(Queue(c)), Popped(c), role)
  BY <1>1, PoppedFacts DEF Taking
<1>3. ASSUME NEW c \in cs, NEW e, e = Head(Queue(c))
      PROVE  /\ e \in Item(Proc) /\ c \in role.writes[e.by]
             /\ \A j \in DOMAIN proc[p].got : Less(proc[p].got[j], e)
  <2>1. /\ e \in Item(Proc) /\ c \in role.writes[e.by] /\ c \in Chan /\ c \in role.reads[p]
        /\ In(chan[c].buf, e) \/ (\E f \in Freed(c) : e = Outgoing(f))
    BY <1>2, <1>3 DEF TakenFrom
  <2> SUFFICES ASSUME NEW j \in DOMAIN proc[p].got PROVE Less(proc[p].got[j], e)
    BY <2>1
  <2>2. Has(proc[p], proc[p].got[j]) /\ Held(proc[p].got[j])
    BY DEF Has, In, Held, Holding, Proc
  <2>3. CASE In(chan[c].buf, e)
    BY SMTT(60), <2>1, <2>2, <2>3 DEF Inv, InvAt, Ahead, In, Proc
  <2>4. CASE \E f \in Freed(c) : e = Outgoing(f)
    BY <2>1, <2>2, <2>4, FreedFacts DEF Emission
  <2> QED BY <2>1, <2>3, <2>4
<1>4. \A i \in S : \E c \in cs : i = Head(Queue(c))
  BY DEF Taking
<1>5. S \in SUBSET Item(Proc) /\ \A i \in S : \A j \in DOMAIN proc[p].got : Less(proc[p].got[j], i)
  BY <1>3, <1>4
<1>6. S # {}
  BY DEF Taking
<1>7. \A i \in S : role.writes[i.by] \cap role.reads[p] # {}
  BY <1>2, <1>3, <1>4
<1>8. ASSUME NEW i \in S, NEW j \in S, i.by = j.by PROVE i = j
  <2>1. PICK c \in cs : i = Head(Queue(c))
    BY <1>4
  <2>2. PICK d \in cs : j = Head(Queue(d))
    BY <1>4
  <2>3. c \in role.writes[i.by] /\ d \in role.writes[i.by] /\ i.by \in Proc
    BY <2>1, <2>2, <1>3, <1>8 DEF Item
  <2>4. c = d
    BY <2>3, <1>2, InvFacts
  <2> QED BY <2>1, <2>2, <2>4
<1>9. proc[p].arrived = {}
  BY RunningIsAbsent
<1> QED BY <1>1, <1>2, <1>5, <1>6, <1>7, <1>8, <1>9 DEF Timely

LEMMA ReceivedInv ==
  ASSUME NEW role, Inv(role), NEW p \in Proc, Turn(Code(p), proc[p], "r"), proc[p].status = "run",
         NEW cs, NEW S, Taking(p, cs, S), NEW ch, NEW pr, Received(p, cs, S, ch, pr)
  PROVE  InvAt(role, ch, pr)
<1> DEFINE Head1(c) == Head(Queue(c))
<1>1. /\ DOMAIN ch = Chan /\ DOMAIN pr = Proc /\ pr[p] = Given(p, S)
      /\ \A c \in cs : ch[c] = Popped(c)
      /\ \A c \in Chan : c \notin cs =>
           ch[c] = IF Phase(p).lossy /\ c \in Inputs(p)
                   THEN [chan[c] EXCEPT !.receivers = Append(@, p)] ELSE chan[c]
      /\ \A q \in Proc : q # p =>
           pr[q] = IF \E c \in cs : q \in Freed(c) THEN HasSent(q) ELSE proc[q]
  BY DEF Received, Taking
<1>2. /\ \A c \in cs : c \in Chan /\ c \in Inputs(p) /\ Ripe(c)
      /\ Phase(p).lossy => \A c \in Inputs(p) : Ripe(c) => c \in cs
      /\ \A i : i \in S <=> \E c \in cs : i = Head1(c)
  BY DEF Taking
<1>3. /\ Timely(p, S, role)
      /\ \A c \in cs : c \in role.reads[p] /\ TakenFrom(c, Head1(c), Popped(c), role)
      /\ \A c \in Inputs(p) : c \in role.reads[p]
  BY TakenIsTimely
<1> HIDE DEF Head1
<1>4. Absent(p, chan) /\ proc[p].arrived = {}
  BY RunningIsAbsent
<1> DEFINE z == Given(p, S)
<1>5. Reception(p, S, z, role) /\ (Phase(p).lossy => LossyWin(p, S, z))
  <2>1. PICK y : y = z
    OBVIOUS
  <2>2. Reception(p, S, y, role)
    BY <1>3, <2>1, GivenReception
  <2>3. Phase(p).lossy => LossyWin(p, S, y)
    BY <1>3, <2>1, GivenReception
  <2> QED BY <2>1, <2>2, <2>3
<1> HIDE DEF z
<1>6. pr[p] = z
  BY <1>1 DEF z
<1>7. ASSUME NEW c \in cs, NEW f \in Freed(c)
      PROVE  /\ f \in Proc /\ f # p /\ Suspended(c, f, Code(f), proc[f])
             /\ Emission(f, c, Outgoing(f), HasSent(f), role) /\ pr[f] = HasSent(f)
  <2>1. c \in Chan
    BY <1>2
  <2>2. /\ f \in Proc /\ In(chan[c].senders, f) /\ Suspended(c, f, Code(f), proc[f])
        /\ Emission(f, c, Outgoing(f), HasSent(f), role)
    BY <2>1, FreedFacts
  <2>3. f # p
    BY <2>1, <2>2, <1>4 DEF Absent
  <2> QED BY <2>2, <2>3, <1>1
<1>8. \A q \in Proc : q # p /\ (\A c \in cs : q \notin Freed(c)) => pr[q] = proc[q]
  BY <1>1
<1>9. Shape(ch, pr) /\ Tidy(program, role)
  BY <1>1 DEF Inv, InvAt, Shape, Chan, Proc
<1>10. Procs(role, pr)
  <2> SUFFICES ASSUME NEW q \in Proc PROVE ProcType(Proc, pr[q]) /\ ProcOK(q, Code(q), pr[q], role)
    BY <1>1 DEF Procs
  <2>1. CASE q = p
    BY <2>1, <1>5, <1>6 DEF Reception
  <2>2. CASE \E c \in cs : q \in Freed(c)
    BY <2>2, <1>7 DEF Emission, Quiet
  <2>3. CASE q # p /\ \A c \in cs : q \notin Freed(c)
    BY <2>3, <1>8, InvFacts
  <2> QED BY <2>1, <2>2, <2>3
\* The channels a select waits in besides are empty.
<1>11. ASSUME NEW c \in Chan, c \notin cs, Phase(p).lossy, c \in Inputs(p)
       PROVE  /\ ChanType(Proc, ch[c]) /\ ch[c].buf = chan[c].buf
              /\ ch[c].senders = chan[c].senders /\ ChanOK(c, ch[c], Cap(c), role)
              /\ \A q : In(ch[c].receivers, q) => In(chan[c].receivers, q) \/ q = p
  <2>1. ChanType(Proc, chan[c]) /\ ChanOK(c, chan[c], Cap(c), role)
    BY InvFacts
  <2> DEFINE u == chan[c].receivers
             s == Append(u, p)
  <2>2. u \in Seq(Proc) /\ NoDup(u) /\ ~In(u, p)
    BY <1>4, <2>1 DEF ChanType, ChanOK, Absent
  <2>3. ch[c] = [chan[c] EXCEPT !.receivers = s]
    BY <1>1, <1>11
  <2>4. chan[c].buf = <<>> /\ chan[c].senders = <<>>
    BY <1>2, <1>11 DEF Ripe
  <2>5. PICK t : t = s
    OBVIOUS
  <2> HIDE DEF u
  <2>6. t \in Seq(Proc) /\ NoDup(t) /\ \A q : In(t, q) <=> In(u, q) \/ q = p
    BY <2>2, <2>5, QueuedFacts
  <2> HIDE DEF s
  <2>7. LET x == [chan[c] EXCEPT !.receivers = t]
        IN  /\ ChanType(Proc, x) /\ x.buf = chan[c].buf /\ x.senders = chan[c].senders
            /\ x.receivers = t
    BY <2>1, <2>6 DEF ChanType
  <2>8. /\ ChanType(Proc, ch[c]) /\ ch[c].buf = chan[c].buf /\ ch[c].senders = chan[c].senders
        /\ ch[c].receivers = t
    BY <2>3, <2>5, <2>7
  <2>9. ChanOK(c, ch[c], Cap(c), role)
    BY <2>1, <2>4, <2>6, <2>8 DEF ChanOK
  <2> QED BY <2>6, <2>8, <2>9 DEF u
<1>12. \A c \in Chan : c \notin cs /\ ~(Phase(p).lossy /\ c \in Inputs(p)) => ch[c] = chan[c]
  BY <1>1
<1>13. Chans(role, ch, pr)
  <2> SUFFICES ASSUME NEW c \in Chan PROVE ChanType(Proc, ch[c]) /\ ChanOK(c, ch[c], Cap(c), role)
    BY <1>1 DEF Chans
  <2>1. CASE c \in cs
    BY <2>1, <1>1, <1>3 DEF TakenFrom
  <2>2. CASE c \notin cs /\ Phase(p).lossy /\ c \in Inputs(p)
    BY <2>2, <1>11
  <2>3. CASE c \notin cs /\ ~(Phase(p).lossy /\ c \in Inputs(p))
    BY <2>3, <1>12, InvFacts
  <2> QED BY <2>1, <2>2, <2>3
<1>14. Waiting(role, ch, pr)
  <2> SUFFICES ASSUME NEW d \in Chan, NEW q \in Proc, In(ch[d].receivers, q)
               PROVE  Waits(d, q, Code(q), pr[q], role)
    BY <1>1 DEF Waiting
  <2>1. d \notin cs
    BY <1>1, <1>3 DEF TakenFrom, In
  <2>2. CASE In(chan[d].receivers, q)
    <3>1. Waits(d, q, Code(q), proc[q], role) /\ q # p
      BY <2>2, <1>4, InvFacts DEF Absent
    <3>2. proc[q].status # "send"
      BY <3>1 DEF Waits
    <3>3. \A c \in cs : q \notin Freed(c)
      BY <3>2, <1>7 DEF Suspended
    <3> QED BY <3>1, <3>3, <1>8
  <2>3. CASE ~In(chan[d].receivers, q)
    <3>1. q = p /\ Phase(p).lossy /\ d \in Inputs(p)
      BY <2>1, <2>3, <1>11, <1>12
    <3>2. /\ z.status = "won" /\ z.arrived = S
          /\ z.at = proc[p].at /\ z.k = proc[p].k /\ z.got = proc[p].got
      BY <3>1, <1>4, <1>5 DEF LossyWin
    <3>3. Turn(Code(p), z, "r") /\ Code(p)[z.at].lossy
      BY <3>1, <3>2 DEF Turn, Phase
    <3>4. InputsOf(Code(p), z) = InputsOf(Code(p), proc[p])
            /\ Inputs(p) = InputsOf(Code(p), proc[p])
      BY <3>2, LoopFits DEF InputsOf
    <3>5. ASSUME NEW i \in S PROVE d \notin role.writes[i.by]
      <4>1. PICK c \in cs : i = Head1(c)
        BY <1>2
      <4>2. i \in Item(Proc) /\ c \in role.writes[i.by] /\ c \in role.reads[p] /\ i.by \in Proc
        BY <4>1, <1>3 DEF TakenFrom, Item
      <4>3. d # c /\ d \in role.reads[p]
        BY <2>1, <3>1, <1>3
      <4> QED BY <4>2, <4>3, InvFacts
    <3> QED BY <3>1, <3>2, <3>3, <3>4, <3>5, <1>6 DEF Waits
  <2> QED BY <2>2, <2>3
<1>15. Suspending(ch, pr)
  <2> SUFFICES ASSUME NEW d \in Chan, NEW q \in Proc, In(ch[d].senders, q)
               PROVE  Suspended(d, q, Code(q), pr[q])
    BY <1>1 DEF Suspending
  <2>1. In(chan[d].senders, q) /\ (d \in cs => q \notin Freed(d))
    BY <1>1, <1>3, <1>11, <1>12 DEF TakenFrom
  <2>2. Suspended(d, q, Code(q), proc[q]) /\ q # p
    BY <2>1, <1>4, InvFacts DEF Absent
  <2>3. \A c \in cs : q \notin Freed(c)
    BY <2>1, <2>2, <1>7 DEF Suspended
  <2> QED BY <2>2, <2>3, <1>8
<1>16. \A q \in Proc : \A h : Has(pr[q], h) => Has(proc[q], h) \/ (q = p /\ h \in S)
  <2> SUFFICES ASSUME NEW q \in Proc, NEW h, Has(pr[q], h) PROVE Has(proc[q], h) \/ (q = p /\ h \in S)
    OBVIOUS
  <2>1. CASE q = p
    BY <2>1, <1>5, <1>6 DEF Reception
  <2>2. CASE \E c \in cs : q \in Freed(c)
    BY <2>2, <1>7 DEF Emission, Quiet, Has
  <2>3. CASE q # p /\ \A c \in cs : q \notin Freed(c)
    BY <2>3, <1>8
  <2> QED BY <2>1, <2>2, <2>3
<1>17. \A c \in Chan : \A h : In(ch[c].buf, h) =>
         \/ In(chan[c].buf, h)
         \/ c \in cs /\ \E f \in Freed(c) : h = Outgoing(f)
  <2> SUFFICES ASSUME NEW c \in Chan, NEW h, In(ch[c].buf, h)
               PROVE  \/ In(chan[c].buf, h)
                      \/ c \in cs /\ \E f \in Freed(c) : h = Outgoing(f)
    OBVIOUS
  <2>1. CASE c \in cs
    BY <2>1, <1>1, <1>3 DEF TakenFrom
  <2>2. CASE c \notin cs /\ Phase(p).lossy /\ c \in Inputs(p)
    BY <2>2, <1>11
  <2>3. CASE c \notin cs /\ ~(Phase(p).lossy /\ c \in Inputs(p))
    BY <2>3, <1>12
  <2> QED BY <2>1, <2>2, <2>3
<1>18. Ahead(role, ch, pr)
  <2> SUFFICES ASSUME NEW q \in Proc, NEW d \in role.reads[q], NEW h, NEW k \in DOMAIN ch[d].buf,
                      Has(pr[q], h)
               PROVE  Less(h, ch[d].buf[k])
    BY <1>1 DEF Ahead
  <2> DEFINE b == ch[d].buf[k]
  <2>1. d \in Chan /\ In(ch[d].buf, b)
    BY InvFacts DEF In
  <2> HIDE DEF b
  <2>2. In(chan[d].buf, b) \/ (d \in cs /\ \E f \in Freed(d) : b = Outgoing(f))
    BY <2>1, <1>17
  <2>3. CASE Has(proc[q], h)
    <3>1. CASE In(chan[d].buf, b)
      BY SMTT(60), <2>1, <2>3, <3>1 DEF Inv, InvAt, Ahead, In, Proc, b
    <3>2. CASE d \in cs /\ \E f \in Freed(d) : b = Outgoing(f)
      <4>1. Held(h)
        BY <2>3 DEF Held, Holding, Proc
      <4> QED BY <3>2, <4>1, <1>7 DEF Emission, b
    <3> QED BY <2>2, <3>1, <3>2
  <2>4. CASE q = p /\ h \in S
    <3>1. PICK c \in cs : h = Head1(c)
      BY <2>4, <1>2
    <3>2. c \in role.writes[h.by] /\ c \in role.reads[p] /\ h \in Item(Proc) /\ h.by \in Proc
      BY <3>1, <1>3 DEF TakenFrom, Item
    <3>3. CASE c = d
      <4>1. ch[d] = Popped(d) /\ TakenFrom(d, h, Popped(d), role)
        BY <3>1, <3>3, <1>1, <1>3
      <4> QED BY <4>1, <2>1 DEF TakenFrom, b
    <3>4. CASE c # d
      <4>1. d \in role.writes[b.by]
        <5>1. ChanOK(d, ch[d], Cap(d), role)
          BY <2>1, <1>1, <1>13 DEF Chans
        <5> QED BY <5>1, <2>1 DEF ChanOK, In
      <4>2. d \notin role.writes[h.by]
        BY <3>2, <3>4, <2>4, InvFacts
      <4> QED BY <4>1, <4>2 DEF Less, b
    <3> QED BY <3>3, <3>4
  <2> QED BY <2>3, <2>4, <1>16
<1>19. Accounts(role, ch, pr)
  <2> SUFFICES ASSUME NEW h, Holding(ch, pr, h)
               PROVE  Accounted(h, role.relays[h.by], Code(h.by), pr[h.by])
    BY DEF Accounts
  <2>1. Held(h) \/ \E c \in cs : \E f \in Freed(c) : h = Outgoing(f)
    <3>1. CASE \E c \in Chan : In(ch[c].buf, h)
      BY <3>1, <1>17 DEF Held, Holding, Chan
    <3>2. CASE \E q \in Proc : Has(pr[q], h)
      <4>1. PICK q \in Proc : Has(proc[q], h) \/ (q = p /\ h \in S)
        BY <3>2, <1>16
      <4>2. CASE Has(proc[q], h)
        BY <4>2 DEF Held, Holding, Proc
      <4>3. CASE h \in S
        <5>1. PICK c \in cs : h = Head1(c)
          BY <4>3, <1>2
        <5>2. In(chan[c].buf, h) \/ (\E f \in Freed(c) : h = Outgoing(f))
          BY <5>1, <1>3 DEF TakenFrom
        <5> QED BY <5>2, <1>2 DEF Held, Holding, Chan
      <4> QED BY <4>1, <4>2, <4>3
    <3> QED BY <3>1, <3>2, <1>1 DEF Holding
  <2>2. CASE Held(h)
    <3>1. h \in Item(Proc) /\ Accounted(h, role.relays[h.by], Code(h.by), proc[h.by])
      BY <2>2, HeldTypes
    <3>2. h.by \in Proc
      BY <3>1 DEF Item
    <3>3. CASE h.by = p
      BY <3>1, <3>3, <1>5, <1>6 DEF Reception
    <3>4. CASE \E c \in cs : h.by \in Freed(c)
      BY <3>1, <3>4, <1>7 DEF Emission, Quiet
    <3>5. CASE h.by # p /\ \A c \in cs : h.by \notin Freed(c)
      BY <3>1, <3>2, <3>5, <1>8
    <3> QED BY <3>3, <3>4, <3>5
  <2>3. CASE \E c \in cs : \E f \in Freed(c) : h = Outgoing(f)
    <3>0. PICK c \in cs : \E f \in Freed(c) : h = Outgoing(f)
      BY <2>3
    <3>1. PICK f \in Freed(c) : h = Outgoing(f)
      BY <3>0
    <3>2. h.by = f /\ Accounted(h, role.relays[f], Code(f), HasSent(f)) /\ pr[f] = HasSent(f)
      BY <3>1, <1>7 DEF Emission
    <3> QED BY <3>2
  <2> QED BY <2>1, <2>2, <2>3
<1> QED BY <1>9, <1>10, <1>13, <1>14, <1>15, <1>18, <1>19 DEF InvAt

LEMMA ReceptionOf ==
  ASSUME NEW role, Inv(role), NEW p \in Proc, Receive(p),
         NEW ch, ch = chan', NEW pr, pr = proc'
  PROVE  \E cs, S : Taking(p, cs, S) /\ Received(p, cs, S, ch, pr)
<1>1. Turn(Code(p), proc[p], "r")
  BY AtOpTurn DEF Receive
<1>2. \A c \in Inputs(p) : c \in Chan
  BY <1>1, LoopFits, InvFacts
<1>3. PICK cs \in Taken(p) :
       /\ chan' = [c \in Chan |->
                     IF c \in cs THEN Popped(c)
                     ELSE IF Phase(p).lossy /\ c \in Inputs(p)
                          THEN [chan[c] EXCEPT !.receivers = Append(@, p)]
                     ELSE chan[c]]
       /\ proc' = [q \in Proc |->
                     IF q = p THEN Given(p, {Head(Queue(c)) : c \in cs})
                     ELSE IF q \in UNION {Freed(c) : c \in cs} THEN HasSent(q)
                     ELSE proc[q]]
  BY DEF Receive
<1>4. PICK S : S = {Head(Queue(c)) : c \in cs}
  OBVIOUS
<1>5. /\ cs # {} /\ \A c \in cs : c \in Inputs(p) /\ Ripe(c)
      /\ Phase(p).lossy => \A c \in Inputs(p) : Ripe(c) => c \in cs
  <2>1. CASE Phase(p).lossy
    <3>1. cs = {c \in Inputs(p) : Ripe(c)} /\ cs # {}
      BY <2>1 DEF Taken
    <3> QED BY <3>1
  <2>2. CASE ~Phase(p).lossy
    <3>1. PICK d \in {c \in Inputs(p) : Ripe(c)} : cs = {d}
      BY <2>2 DEF Taken
    <3> QED BY <3>1, <2>2
  <2> QED BY <2>1, <2>2
<1>6. Taking(p, cs, S)
  BY <1>2, <1>4, <1>5 DEF Taking
<1>7. Received(p, cs, S, ch, pr)
  <2>1. DOMAIN ch = Chan /\ DOMAIN pr = Proc
    BY <1>3
  <2>2. pr[p] = Given(p, S)
    BY <1>3, <1>4
  <2>3. \A q : q \in UNION {Freed(c) : c \in cs} <=> \E c \in cs : q \in Freed(c)
    OBVIOUS
  <2>4. \A q \in Proc : q # p =>
          pr[q] = IF \E c \in cs : q \in Freed(c) THEN HasSent(q) ELSE proc[q]
    BY <1>3, <2>3
  <2>5. \A c \in Chan : ch[c] = IF c \in cs THEN Popped(c)
                                ELSE IF Phase(p).lossy /\ c \in Inputs(p)
                                     THEN [chan[c] EXCEPT !.receivers = Append(@, p)]
                                ELSE chan[c]
    BY <1>3
  <2> QED BY <2>1, <2>2, <2>4, <2>5 DEF Received
<1> QED BY <1>6, <1>7

LEMMA ReceiveInv ==
  ASSUME NEW role, Inv(role), NEW p \in Proc, Receive(p),
         NEW ch, ch = chan', NEW pr, pr = proc'
  PROVE  InvAt(role, ch, pr)
<1>1. PICK cs, S : Taking(p, cs, S) /\ Received(p, cs, S, ch, pr)
  BY ReceptionOf
<1>2. Turn(Code(p), proc[p], "r") /\ proc[p].status = "run"
  BY AtOpTurn DEF Receive
<1> QED BY <1>1, <1>2, ReceivedInv

LEMMA StepInv ==
  ASSUME NEW role, Inv(role), [Next]_vars, NEW ch, ch = chan', NEW pr, pr = proc'
  PROVE  InvAt(role, ch, pr) /\ program' = program
<1>1. CASE UNCHANGED vars
  BY <1>1 DEF vars, Inv
<1>2. ASSUME NEW p \in Proc, Step(p) PROVE InvAt(role, ch, pr) /\ program' = program
  <2>1. CASE Send(p)
    BY <2>1, SendInv DEF Send
  <2>2. CASE WaitToSend(p)
    BY <2>2, WaitToSendInv DEF WaitToSend
  <2>3. CASE Receive(p)
    BY <2>3, ReceiveInv DEF Receive
  <2>4. CASE WaitToReceive(p)
    BY <2>4, WaitToReceiveInv DEF WaitToReceive
  <2>5. CASE Leave(p)
    BY <2>5, LeftInv DEF Leave, AtOp
  <2>6. CASE Choose(p)
    BY <2>6, ChooseInv DEF Choose
  <2>7. CASE CloseChannel(p)
    BY <2>7, CloseChannelInv DEF CloseChannel
  <2>8. CASE SendStop(p)
    BY <2>8, SendStopInv DEF SendStop
  <2>9. CASE JoinAll(p)
    BY <2>9, LeftInv DEF JoinAll
  <2>10. CASE Tick(p)
    BY <2>10, TickInv DEF Tick
  <2>11. CASE Cancelled(p)
    BY <2>11, CancelledInv DEF Cancelled
  <2>12. CASE StartSpawned(p)
    BY <2>12, LeftInv DEF StartSpawned
  <2>13. CASE NeverSpawned(p)
    BY <2>13, NeverSpawnedInv DEF NeverSpawned
  <2>14. CASE AtomicStep(p)
    BY <2>14, LeftInv DEF AtomicStep
  <2>15. CASE LoadPlain(p)
    BY <2>15, LoadPlainInv DEF LoadPlain
  <2>16. CASE StorePlain(p)
    BY <2>16, LeftInv DEF StorePlain
  <2> QED BY <1>2, <2>1, <2>2, <2>3, <2>4, <2>5, <2>6, <2>7, <2>8, <2>9, <2>10, <2>11, <2>12,
             <2>13, <2>14, <2>15, <2>16 DEF Step
<1> QED BY <1>1, <1>2 DEF Next

LEMMA NextInv ==
  ASSUME NEW role, Inv(role), [Next]_vars
  PROVE  Inv(role)'
<1>1. PICK ch : ch = chan'
  OBVIOUS
<1>2. PICK pr : pr = proc'
  OBVIOUS
<1>3. InvAt(role, ch, pr) /\ program' = program
  BY <1>1, <1>2, StepInv
<1>4. InvAt(role, ch, pr)'
  <2>1. \A p : Code(p)' = Code(p)
    BY <1>3 DEF Code
  <2>2. \A c : Cap(c)' = Cap(c)
    BY <1>3 DEF Cap
  <2>3. Shape(ch, pr)' /\ Tidy(program, role)'
    BY <1>3 DEF InvAt, Shape
  <2>4. Procs(role, pr)'
    BY <1>3, <2>1 DEF InvAt, Procs
  <2>5. Chans(role, ch, pr)'
    BY <1>3, <2>2 DEF InvAt, Chans
  <2>6. Waiting(role, ch, pr)' /\ Suspending(ch, pr)'
    BY <1>3, <2>1 DEF InvAt, Waiting, Suspending
  <2>7. Ahead(role, ch, pr)'
    BY <1>3 DEF InvAt, Ahead
  <2>8. Accounts(role, ch, pr)'
    BY <1>3, <2>1 DEF InvAt, Accounts, Holding
  <2> QED BY <2>3, <2>4, <2>5, <2>6, <2>7, <2>8 DEF InvAt
<1> QED BY <1>1, <1>2, <1>4 DEF Inv

-----------------------------------------------------------------------------
(* Who closes a channel does so after all that write to it, and all that   *)
(* count on it: its own sends are over, or it has joined the writer, or it *)
(* has drained another channel to its end, which the writer only closes    *)
(* later.                                                                  *)
SendsTo(ph, c) == /\ ph.op = "loop" /\ ph.out = c
                  /\ \E k \in DOMAIN ph.pattern : ph.pattern[k] = "s"
Counts(ph, c) == /\ ph.op = "loop" /\ ph.n # Forever
                 /\ c \in ph.in \/ \E k \in DOMAIN ph.chain : ph.chain[k] = c
Closes(ph, c) == ph.op = "close" /\ ph.chan = c
Ends(ph, c) == /\ ph.op = "loop" /\ ph.n = Forever /\ ph.until = {} /\ ~ph.lossy
               /\ ph.chain = <<>> /\ ph.in = {c}

Uses(ph, c) == SendsTo(ph, c) \/ Counts(ph, c)

\* No phase is left out, and no stop message ends a loop.
Steady(u) == \A k \in DOMAIN u : u[k].op # "spawned"
Stopless(code) == \A p \in DOMAIN code : \A k \in DOMAIN code[p] : code[p][k].op # "stop"

\* Phase j of q is over when p comes to its phase k.
ClosedLater(code, d, q, j) ==
  \A r \in DOMAIN code : \A l \in DOMAIN code[r] : Closes(code[r][l], d) => r = q /\ j < l
Awaited(u, k, q) == \E m \in DOMAIN u : m < k /\ u[m].op = "join" /\ q \in u[m].procs
Exhausted(code, u, k, q, j, C) ==
  \E m \in DOMAIN u : m < k /\ \E d \in C : Ends(u[m], d) /\ ClosedLater(code, d, q, j)
Precedes(code, C, q, j, p, k) ==
  \/ q = p /\ j < k
  \/ Steady(code[p]) /\ Awaited(code[p], k, q)
  \/ Steady(code[p]) /\ Stopless(code) /\ Exhausted(code, code[p], k, q, j, C)
Orderly(code, C) ==
  \A p, q \in DOMAIN code : \A k \in DOMAIN code[p], j \in DOMAIN code[q] : \A c \in C :
    Closes(code[p][k], c) /\ Uses(code[q][j], c)
      => Precedes(code, C, q, j, p, k)

\* What has happened when a channel is closed, or a phase is behind.
Shut(ch, pr) ==
  \A c \in DOMAIN ch : ch[c].closed =>
    \E p \in DOMAIN pr : \E k \in DOMAIN Code(p) : Closes(Code(p)[k], c) /\ k < pr[p].at
Joined(pr) ==
  \A p \in DOMAIN pr : Steady(Code(p)) => \A k \in DOMAIN Code(p) :
    Code(p)[k].op = "join" /\ k < pr[p].at =>
      \A q \in DOMAIN pr : q \in Code(p)[k].procs => pr[q].at > Len(Code(q))
Drained(ch, pr) ==
  \A p \in DOMAIN pr : Steady(Code(p)) => \A k \in DOMAIN Code(p) : \A c \in DOMAIN ch :
    Ends(Code(p)[k], c) /\ k < pr[p].at => ch[c].closed
NoStop(ch) == \A c \in DOMAIN ch : \A i : In(ch[c].buf, i) => i.seq # 0
Closing(ch, pr) ==
  /\ Orderly(program.code, DOMAIN program.cap)
  /\ Shut(ch, pr) /\ Joined(pr)
  /\ Stopless(program.code) => Drained(ch, pr) /\ NoStop(ch)

LEMMA ClosingIsSafe ==
  ASSUME NEW role, Inv(role), Closing(chan, proc)
  PROVE  NobodyFails
<1>1. ASSUME NEW c \in Chan, chan[c].closed, NEW q \in Proc, NEW j \in DOMAIN Code(q),
        j = proc[q].at,
             Uses(Code(q)[j], c)
      PROVE  FALSE
  <2>1. PICK p \in Proc : \E k \in DOMAIN Code(p) : Closes(Code(p)[k], c) /\ k < proc[p].at
    BY <1>1 DEF Closing, Shut, Proc, Chan
  <2>2. PICK k \in DOMAIN Code(p) : Closes(Code(p)[k], c) /\ k < proc[p].at
    BY <2>1
  <2>3. Precedes(program.code, DOMAIN program.cap, q, j, p, k)
    BY <1>1, <2>2, InvFacts DEF Closing, Orderly, Code
  <2>4. \A r \in Proc : proc[r].at \in Nat /\ Len(Code(r)) \in Nat
          /\ DOMAIN Code(r) = 1..Len(Code(r))
    BY InvFacts DEF Fields
  <2>5. CASE q = p /\ j < k
    BY <2>2, <2>4, <2>5, <1>1
  <2>6. CASE Steady(Code(p)) /\ Awaited(Code(p), k, q)
    <3>1. PICK m \in DOMAIN Code(p) : m < k /\ Code(p)[m].op = "join" /\ q \in Code(p)[m].procs
      BY <2>6 DEF Awaited
    <3>2. m < proc[p].at
      BY <3>1, <2>2, <2>4
    <3>3. proc[q].at > Len(Code(q))
      BY <3>1, <3>2, <2>6 DEF Closing, Joined, Proc
    <3> QED BY <3>3, <2>4, <1>1
  <2>7. CASE Steady(Code(p)) /\ Stopless(program.code)
               /\ Exhausted(program.code, Code(p), k, q, j, DOMAIN program.cap)
    <3>1. PICK m \in DOMAIN Code(p) :
            m < k /\ \E d \in Chan : Ends(Code(p)[m], d) /\ ClosedLater(program.code, d, q, j)
      BY <2>7, InvFacts DEF Exhausted
    <3>2. PICK d \in Chan : Ends(Code(p)[m], d) /\ ClosedLater(program.code, d, q, j)
      BY <3>1
    <3>3. m < proc[p].at
      BY <3>1, <2>2, <2>4
    <3>4. chan[d].closed
      BY <3>2, <3>3, <2>7 DEF Closing, Drained, Proc, Chan
    <3>5. PICK r \in Proc : \E l \in DOMAIN Code(r) : Closes(Code(r)[l], d) /\ l < proc[r].at
      BY <3>4 DEF Closing, Shut, Proc, Chan
    <3>6. PICK l \in DOMAIN Code(r) : Closes(Code(r)[l], d) /\ l < proc[r].at
      BY <3>5
    <3>7. r = q /\ j < l
      BY <3>2, <3>6, InvFacts DEF ClosedLater, Code
    <3> QED BY <3>6, <3>7, <2>4, <1>1
  <2> QED BY <2>3, <2>5, <2>6, <2>7 DEF Precedes, Code
<1>2. ASSUME NEW q \in Proc, Turn(Code(q), proc[q], "s"), chan[Phase(q).out].closed
      PROVE  FALSE
  <2>1. /\ Phase(q).op = "loop" /\ proc[q].at \in DOMAIN Code(q)
        /\ (proc[q].k % Len(Phase(q).pattern)) + 1 \in DOMAIN Phase(q).pattern
    BY <1>2, LoopFits
  <2>2. Phase(q).pattern[(proc[q].k % Len(Phase(q).pattern)) + 1] = "s"
    BY <1>2 DEF Turn, Phase
  <2>3. SendsTo(Phase(q), Phase(q).out)
    BY <2>1, <2>2 DEF SendsTo
  <2>4. Phase(q).out \in Chan
    BY <1>2, WriterTurn
  <2> QED BY <1>1, <1>2, <2>1, <2>3, <2>4 DEF Phase, Uses
<1>3. ASSUME NEW c \in Chan, chan[c].closed, chan[c].senders # <<>>
      PROVE  FALSE
  <2>1. chan[c].senders \in Seq(Proc)
    BY InvFacts DEF ChanType
  <2>2. PICK q \in Proc : In(chan[c].senders, q)
    <3>1. 1 \in DOMAIN chan[c].senders /\ chan[c].senders[1] \in Proc
      BY <2>1, <1>3, EmptySeq
    <3> QED BY <3>1 DEF In
  <2>3. Turn(Code(q), proc[q], "s") /\ Phase(q).out = c
    BY <2>2, InvFacts DEF Suspended, Phase
  <2> QED BY <2>3, <1>2, <1>3
<1>4. ASSUME NEW p \in Proc, AtOp(p, "s") PROVE ~chan[Phase(p).out].closed
  BY <1>2, <1>4, AtOpTurn
<1>5. ASSUME NEW p \in Proc, AtOp(p, "r"), Phase(p).n # Forever, NEW c \in Inputs(p)
      PROVE  ~chan[c].closed
  <2>1. Turn(Code(p), proc[p], "r")
    BY <1>5, AtOpTurn
  <2>2. Phase(p).op = "loop" /\ proc[p].at \in DOMAIN Code(p) /\ c \in role.reads[p]
    BY <2>1, LoopFits
  <2>3. c \in Chan
    BY <2>2, InvFacts
  <2>4. Counts(Phase(p), c)
    BY <1>5, <2>2 DEF Counts, Inputs
  <2> QED BY <1>1, <2>2, <2>3, <2>4 DEF Phase, Uses
<1> QED BY <1>3, <1>4, <1>5 DEF NobodyFails

\* One step of process q, to y: at most one phase ends, and not before it is over.
Over(q) ==
  /\ Phase(q).op = "join" => \A r \in Phase(q).procs : Returned(r)
  /\ Stopless(program.code) => \A c \in Chan : Ends(Phase(q), c) => chan[c].closed
Advances(q, y) == \/ y.at = proc[q].at
                  \/ y.at >= proc[q].at /\ ~Steady(Code(q))
                  \/ y.at = proc[q].at + 1 /\ Over(q)
Moves(ch, pr) ==
  /\ \A q \in Proc : Advances(q, pr[q])
  /\ \A c \in Chan : chan[c].closed => ch[c].closed
  /\ \A c \in Chan : ch[c].closed =>
       \/ chan[c].closed
       \/ \E p \in Proc : \E k \in DOMAIN Code(p) : Closes(Code(p)[k], c) /\ k < pr[p].at
  /\ Stopless(program.code) => NoStop(ch)

LEMMA ClosingKept ==
  ASSUME NEW role, Inv(role), Closing(chan, proc), NEW ch, NEW pr, InvAt(role, ch, pr), Moves(ch, pr)
  PROVE  Closing(ch, pr)
<1>1. DOMAIN ch = Chan /\ DOMAIN pr = Proc
  BY InvFacts DEF InvAt, Shape
<1>2. \A p \in Proc : pr[p].at \in Nat /\ proc[p].at \in Nat /\ Len(Code(p)) \in Nat
        /\ DOMAIN Code(p) \subseteq Nat
  BY <1>1, InvFacts DEF InvAt, Procs, ProcType, Fields
<1>3. \A p \in Proc : pr[p].at >= proc[p].at
  BY <1>2 DEF Moves, Advances
<1>4. Shut(ch, pr)
  <2> SUFFICES ASSUME NEW c \in Chan, ch[c].closed
               PROVE  \E p \in Proc : \E k \in DOMAIN Code(p) : Closes(Code(p)[k], c)
                       /\ k < pr[p].at
    BY <1>1 DEF Shut
  <2>1. CASE chan[c].closed
    <3>1. PICK p \in Proc : \E k \in DOMAIN Code(p) : Closes(Code(p)[k], c) /\ k < proc[p].at
      BY <2>1 DEF Closing, Shut, Proc, Chan
    <3>2. PICK k \in DOMAIN Code(p) : Closes(Code(p)[k], c) /\ k < proc[p].at
      BY <3>1
    <3>3. k < pr[p].at
      BY <3>2, <1>2, <1>3
    <3> QED BY <3>2, <3>3
  <2>2. CASE ~chan[c].closed
    BY <2>2 DEF Moves
  <2> QED BY <2>1, <2>2
\* A phase that is behind now was behind before, or is the one that ends.
<1>5. ASSUME NEW p \in Proc, Steady(Code(p)), NEW k \in DOMAIN Code(p), k < pr[p].at
      PROVE  k < proc[p].at \/ (k = proc[p].at /\ Over(p))
  <2>1. pr[p].at = proc[p].at \/ (pr[p].at = proc[p].at + 1 /\ Over(p))
    BY <1>5 DEF Moves, Advances
  <2> QED BY <2>1, <1>2, <1>5
<1>6. Joined(pr)
  <2> SUFFICES ASSUME NEW p \in Proc, Steady(Code(p)), NEW k \in DOMAIN Code(p),
          Code(p)[k].op = "join",
                      k < pr[p].at, NEW q \in Proc, q \in Code(p)[k].procs
               PROVE  pr[q].at > Len(Code(q))
    BY <1>1 DEF Joined
  <2>1. proc[q].at > Len(Code(q))
    <3>1. CASE k < proc[p].at
      BY <3>1 DEF Closing, Joined, Proc
    <3>2. CASE k = proc[p].at /\ Over(p)
      BY <3>2 DEF Over, Phase, Returned
    <3> QED BY <3>1, <3>2, <1>5
  <2> QED BY <2>1, <1>2, <1>3
<1>7. ASSUME Stopless(program.code) PROVE Drained(ch, pr) /\ NoStop(ch)
  <2> SUFFICES ASSUME NEW p \in Proc, Steady(Code(p)), NEW k \in DOMAIN Code(p), NEW c \in Chan,
                      Ends(Code(p)[k], c), k < pr[p].at
               PROVE  ch[c].closed
    BY <1>1, <1>7 DEF Drained, Moves
  <2>1. chan[c].closed
    <3>1. CASE k < proc[p].at
      BY <1>7, <3>1 DEF Closing, Drained, Proc, Chan
    <3>2. CASE k = proc[p].at /\ Over(p)
      BY <1>7, <3>2 DEF Over, Phase
    <3> QED BY <3>1, <3>2, <1>5
  <2> QED BY <2>1 DEF Moves
<1> QED BY <1>4, <1>6, <1>7 DEF Closing

LEMMA LoopOver ==
  ASSUME NEW q \in Proc, Phase(q).op = "loop",
         \/ Phase(q).n # Forever \/ Phase(q).until # {} \/ Phase(q).lossy \/ ~Stopless(program.code)
  PROVE  Over(q)
BY DEF Over, Ends

LEMMA SteppedAdvances ==
  ASSUME NEW role, Inv(role), NEW p \in Proc, NEW op, Turn(Code(p), proc[p], op)
  PROVE  Advances(p, Stepped(p, proc[p]))
<1>1. Phase(p).op = "loop" /\ Len(Phase(p).pattern) \in Nat \ {0}
  BY LoopFits
<1> DEFINE y == Stepped(p, proc[p])
<1>2. y.at = proc[p].at \/ (y.at = proc[p].at + 1 /\ Phase(p).n # Forever)
  BY <1>1, SteppedFacts, InvFacts
<1> QED BY <1>1, <1>2, LoopOver DEF Advances

LEMMA SentAdvances ==
  ASSUME NEW role, Inv(role), NEW p \in Proc, Turn(Code(p), proc[p], "s")
  PROVE  Advances(p, HasSent(p))
<1> DEFINE x == Stepped(p, proc[p])
<1>1. Advances(p, x) /\ ProcType(Proc, x)
  BY SteppedAdvances, SteppedFacts, LoopFits, InvFacts
<1>2. HasSent(p) = IF Phase(p).relay THEN x ELSE [x EXCEPT !.sent = @ + 1]
  BY DEF HasSent
<1> HIDE DEF x
<1>3. \A s : [x EXCEPT !.sent = s].at = x.at
  BY <1>1 DEF ProcType
<1> QED BY <1>1, <1>2, <1>3 DEF Advances

LEMMA KeepsAdvances ==
  ASSUME NEW role, Inv(role), NEW p \in Proc, Turn(Code(p), proc[p], "r"), NEW i \in Item(Proc),
         Stopless(program.code) => Phase(p).lossy \/ i.seq # 0
  PROVE  Advances(p, Keeps(p, i))
<1> DEFINE x == proc[p]
           y == Keeps(p, i)
<1>1. /\ Phase(p).op = "loop" /\ Len(Phase(p).pattern) \in Nat \ {0}
      /\ FitsLoop(Phase(p), role.reads[p], role.writes[p], role.relays[p])
  BY LoopFits
<1>2. ProcType(Proc, x) /\ Fields(x)
  BY InvFacts
<1>3. CASE i.seq = 0
  <2>1. y = Left(x)
    BY <1>3 DEF Keeps
  <2> HIDE DEF y
  <2>2. y.at = x.at + 1
    BY <2>1, <1>2, LeftFacts
  <2> QED BY <2>2, <1>1, <1>3, LoopOver DEF Advances, y
<1>4. CASE i.seq # 0
  <2> DEFINE u == Stepped(p, x)
             g == Append(u.got, i)
             w == [u EXCEPT !.hand = i, !.got = g]
             v == Stepped(p, w)
  <2>1. y = IF Filtered(p, i) THEN v ELSE w
    BY <1>4 DEF Keeps
  <2>2. /\ ProcType(Proc, u) /\ u.got = x.got /\ Advances(p, u)
        /\ Phase(p).n = Forever => u.at = x.at
    BY <1>1, <1>2, SteppedFacts, SteppedAdvances
  <2>3. g \in Seq(Item(Proc))
    BY <1>2, <2>2, AppendProperties DEF Fields
  <2> HIDE DEF u, g, y
  <2>4. ProcType(Proc, w) /\ w.at = u.at
    BY <2>2, <2>3 DEF ProcType
  <2> HIDE DEF w
  <2>5. CASE ~Filtered(p, i)
    BY <2>1, <2>2, <2>4, <2>5 DEF Advances, y
  <2>6. CASE Filtered(p, i)
    <3>1. Phase(p).n = Forever
      BY <2>6, <1>1 DEF Filtered, FitsLoop
    <3>2. v.at = w.at
      BY <1>1, <2>4, <3>1, SteppedFacts
    <3> HIDE DEF v
    <3> QED BY <3>1, <3>2, <2>1, <2>2, <2>4, <2>6 DEF Advances, y
  <2> QED BY <2>5, <2>6
<1> QED BY <1>3, <1>4

LEMMA GivenAdvances ==
  ASSUME NEW role, Inv(role), NEW p \in Proc, Turn(Code(p), proc[p], "r"),
         NEW S \in SUBSET Item(Proc), S # {}, Stopless(program.code) => \A i \in S : i.seq # 0
  PROVE  Advances(p, Given(p, S))
<1>1. CASE Phase(p).lossy
  <2>1. ProcType(Proc, proc[p])
          /\ Given(p, S) = [proc[p] EXCEPT !.status = "won", !.arrived = @ \cup S]
    BY <1>1, InvFacts DEF Given
  <2>2. [proc[p] EXCEPT !.status = "won", !.arrived = @ \cup S].at = proc[p].at
    BY <2>1 DEF ProcType
  <2> QED BY <2>1, <2>2 DEF Advances
<1>2. CASE ~Phase(p).lossy
  <2> DEFINE i == CHOOSE i \in S : TRUE
  <2>1. i \in S
    OBVIOUS
  <2>2. Given(p, S) = Keeps(p, i)
    BY <1>2 DEF Given
  <2> HIDE DEF i
  <2> QED BY <2>1, <2>2, KeepsAdvances
<1> QED BY <1>1, <1>2

\* Only process p moves, closed is what was, and no stop message comes in.
LEMMA MovesAlone ==
  ASSUME NEW role, Inv(role), Closing(chan, proc), NEW p \in Proc, NEW ch, NEW pr, DOMAIN ch = Chan,
         Advances(p, pr[p]), \A q \in Proc : q # p => pr[q].at = proc[q].at,
         \A c \in Chan : ch[c].closed = chan[c].closed,
         \A c \in Chan : \A i : In(ch[c].buf, i) => In(chan[c].buf, i)
  PROVE  Moves(ch, pr)
<1>1. \A q \in Proc : Advances(q, pr[q])
  BY DEF Advances
<1>2. Stopless(program.code) => NoStop(ch)
  BY DEF Closing, NoStop, Chan
<1> QED BY <1>1, <1>2 DEF Moves

LEMMA LeftAdvances ==
  ASSUME NEW role, Inv(role), NEW p \in Proc, Over(p), NEW y, y.at = Left(proc[p]).at
  PROVE  Advances(p, y)
<1>1. y.at = proc[p].at + 1
  BY InvFacts, LeftFacts
<1> QED BY <1>1 DEF Advances

LEMMA LeftMoves ==
  ASSUME NEW role, Inv(role), Closing(chan, proc), NEW p \in Proc, Over(p),
         NEW ch, ch = chan, NEW pr, pr = [proc EXCEPT ![p] = Left(@)]
  PROVE  Moves(ch, pr)
<1>1. pr[p] = Left(proc[p]) /\ \A q \in Proc : q # p => pr[q] = proc[q]
  BY DEF Proc
<1>2. Advances(p, pr[p])
  BY <1>1, LeftAdvances
<1> QED BY <1>1, <1>2, MovesAlone DEF Chan

\* What is not a loop is over at once, a join when all it waits for have returned.
LEMMA AtOver ==
  ASSUME NEW p \in Proc, NEW op, At(p, op), op # "loop",
         op = "join" => \A r \in Phase(p).procs : Returned(r)
  PROVE  Over(p)
BY DEF At, Over, Ends

LEMMA LoadMoves ==
  ASSUME NEW role, Inv(role), Closing(chan, proc), NEW p \in Proc, LoadPlain(p),
         NEW ch, ch = chan, NEW pr, pr = proc'
  PROVE  Moves(ch, pr)
<1> DEFINE v == shared[Phase(p).var]
           z == Left(proc[p])
           y == [z EXCEPT !.reg = v]
<1>1. pr[p] = y /\ \A q \in Proc : q # p => pr[q] = proc[q]
  BY DEF LoadPlain, Proc
<1>2. ProcType(Proc, z)
  BY InvFacts, LeftFacts
<1> HIDE DEF v
<1>3. y.at = z.at
  <2> HIDE DEF z
  <2> QED BY <1>2 DEF ProcType
<1> HIDE DEF y
<1>4. Over(p)
  BY AtOver DEF LoadPlain
<1>5. Advances(p, pr[p])
  BY <1>1, <1>3, <1>4, LeftAdvances
<1> QED BY <1>1, <1>5, MovesAlone DEF Chan

LEMMA NeverMoves ==
  ASSUME NEW role, Inv(role), Closing(chan, proc), NEW p \in Proc, NeverSpawned(p),
         NEW ch, ch = chan, NEW pr, pr = proc'
  PROVE  Moves(ch, pr)
<1> DEFINE n == Len(Code(p)) + 1
           y == [proc[p] EXCEPT !.at = n]
<1>1. pr[p] = y /\ \A q \in Proc : q # p => pr[q] = proc[q]
  BY DEF NeverSpawned, Proc
<1>2. proc[p].at \in DOMAIN Code(p) /\ proc[p].at <= Len(Code(p)) /\ Phase(p).op = "spawned"
  BY AtFacts DEF NeverSpawned
<1>3. ~Steady(Code(p))
  BY <1>2 DEF Steady, Phase
<1>4. n >= proc[p].at
  BY <1>2, InvFacts DEF Fields
<1> HIDE DEF n
<1>5. y.at = n
  BY InvFacts DEF ProcType
<1>6. Advances(p, pr[p])
  BY <1>1, <1>3, <1>4, <1>5 DEF Advances
<1> QED BY <1>1, <1>6, MovesAlone DEF Chan

LEMMA TickMoves ==
  ASSUME NEW role, Inv(role), Closing(chan, proc), NEW p \in Proc, Tick(p),
         NEW ch, ch = chan, NEW pr, pr = proc'
  PROVE  Moves(ch, pr)
<1>1. Turn(Code(p), proc[p], "t")
  BY AtOpTurn DEF Tick
<1>2. pr[p] = Stepped(p, proc[p]) /\ \A q \in Proc : q # p => pr[q] = proc[q]
  BY DEF Tick, Proc
<1>3. Advances(p, pr[p])
  BY <1>1, <1>2, SteppedAdvances
<1> QED BY <1>2, <1>3, MovesAlone DEF Chan

LEMMA LeaveOver ==
  ASSUME NEW role, Inv(role), NEW p \in Proc, Leave(p)
  PROVE  Over(p)
<1>1. Turn(Code(p), proc[p], "r") /\ \A c \in Inputs(p) : chan[c].closed
  BY AtOpTurn DEF Leave
<1>2. Phase(p).op = "loop"
  BY <1>1, LoopFits
<1>3. ASSUME NEW c \in Chan, Ends(Phase(p), c) PROVE chan[c].closed
  BY <1>1, <1>3 DEF Ends, Inputs
<1> QED BY <1>2, <1>3 DEF Over

\* Who leaves a channel changes neither its values nor whether it is closed.
LEMMA RemovedSame ==
  ASSUME NEW y, ChanType(Proc, y), NEW s
  PROVE  /\ [y EXCEPT !.receivers = s].buf = y.buf /\ [y EXCEPT !.receivers = s].closed = y.closed
         /\ [y EXCEPT !.senders = s].buf = y.buf /\ [y EXCEPT !.senders = s].closed = y.closed
BY DEF ChanType

LEMMA WithoutSame ==
  ASSUME NEW role, Inv(role), NEW p, NEW c \in Chan
  PROVE  Without(p, chan[c]).buf = chan[c].buf /\ Without(p, chan[c]).closed = chan[c].closed
<1>1. ChanType(Proc, chan[c])
  BY InvFacts
<1>2. PICK s : s = Removed(p, chan[c].receivers)
  OBVIOUS
<1>3. Without(p, chan[c]) = [chan[c] EXCEPT !.receivers = s]
  BY <1>2 DEF Without
<1> QED BY <1>1, <1>3, RemovedSame

LEMMA CancelledMoves ==
  ASSUME NEW role, Inv(role), Closing(chan, proc), NEW p \in Proc, Cancelled(p),
         NEW ch, ch = chan', NEW pr, pr = proc'
  PROVE  Moves(ch, pr)
<1>1. /\ Phase(p).op = "loop" /\ Phase(p).until # {}
      /\ pr = [proc EXCEPT ![p] = Left(@)]
      /\ ch = [c \in Chan |-> [Without(p, chan[c]) EXCEPT !.senders = Removed(p, @)]]
  BY DEF Cancelled
<1>2. pr[p] = Left(proc[p]) /\ \A q \in Proc : q # p => pr[q] = proc[q]
  BY <1>1 DEF Proc
<1>3. Advances(p, pr[p])
  BY <1>1, <1>2, LoopOver, LeftAdvances
<1>4. ASSUME NEW c \in Chan PROVE ch[c].buf = chan[c].buf /\ ch[c].closed = chan[c].closed
  <2> DEFINE s == Removed(p, chan[c].receivers)
             w == [chan[c] EXCEPT !.receivers = s]
  <2>1. ChanType(Proc, chan[c]) /\ s \in Seq(Proc)
    BY InvFacts, RemovedFacts DEF ChanType, ChanOK
  <2>2. w = Without(p, chan[c])
    BY DEF Without
  <2> HIDE DEF s
  <2>3. ChanType(Proc, w) /\ w.buf = chan[c].buf /\ w.closed = chan[c].closed
    BY <2>1 DEF ChanType
  <2> HIDE DEF w
  <2>4. PICK t : ch[c] = [w EXCEPT !.senders = t]
    BY <1>1, <2>2
  <2> QED BY <2>3, <2>4, RemovedSame
<1>5. DOMAIN ch = Chan
  BY <1>1
<1> QED BY <1>2, <1>3, <1>4, <1>5, MovesAlone

LEMMA ChooseMoves ==
  ASSUME NEW role, Inv(role), Closing(chan, proc), NEW p \in Proc, Choose(p),
         NEW ch, ch = chan', NEW pr, pr = proc'
  PROVE  Moves(ch, pr)
<1>1. ProcType(Proc, proc[p]) /\ ProcOK(p, Code(p), proc[p], role) /\ Fields(proc[p])
  BY InvFacts
<1>2. Turn(Code(p), proc[p], "r") /\ Phase(p).lossy
  BY <1>1 DEF Choose, ProcOK, Phase
<1>3. PICK i \in proc[p].arrived :
        proc' = [proc EXCEPT ![p] = [Keeps(p, i) EXCEPT
                   !.arrived = {}, !.lost = @ \cup (proc[p].arrived \ {i})]]
  BY DEF Choose
<1>4. ch = [c \in Chan |-> Without(p, chan[c])]
  BY DEF Choose
<1> DEFINE z == Keeps(p, i)
           lost == z.lost \cup (proc[p].arrived \ {i})
           y == [z EXCEPT !.arrived = {}, !.lost = lost]
<1>5. pr[p] = y /\ \A q \in Proc : q # p => pr[q] = proc[q]
  BY <1>3 DEF Proc
<1>6. i \in Item(Proc)
  BY <1>1 DEF Fields
<1>7. ProcType(Proc, z) /\ Advances(p, z)
  BY <1>2, <1>6, KeepsFacts, KeepsAdvances
<1> HIDE DEF z, lost
<1>8. y.at = z.at
  BY <1>7 DEF ProcType
<1> HIDE DEF y
<1>9. Advances(p, pr[p])
  BY <1>5, <1>7, <1>8 DEF Advances
<1>10. DOMAIN ch = Chan /\ \A c \in Chan : ch[c].buf = chan[c].buf /\ ch[c].closed = chan[c].closed
  BY <1>4, WithoutSame
<1> QED BY <1>5, <1>9, <1>10, MovesAlone

\* A wait begins.
LEMMA WaitsMove ==
  ASSUME NEW role, Inv(role), Closing(chan, proc), NEW p \in Proc,
          WaitToSend(p) \/ WaitToReceive(p),
         NEW ch, ch = chan', NEW pr, pr = proc'
  PROVE  Moves(ch, pr)
<1>1. PICK s : pr = [proc EXCEPT ![p].status = s]
  BY DEF WaitToSend, WaitToReceive
<1>2. /\ pr[p] = [proc[p] EXCEPT !.status = s]
      /\ \A q \in Proc : q # p => pr[q] = proc[q]
  BY <1>1 DEF Proc
<1>3. Advances(p, pr[p])
  BY <1>2, InvFacts DEF Advances, ProcType
<1>4. DOMAIN ch = Chan
  BY DEF WaitToSend, WaitToReceive, Chan
<1>5. ASSUME NEW c \in Chan PROVE ch[c].buf = chan[c].buf /\ ch[c].closed = chan[c].closed
  <2>1. ChanType(Proc, chan[c])
    BY InvFacts
  <2>2. \/ ch[c] = chan[c]
        \/ ch[c] = [chan[c] EXCEPT !.senders = Append(chan[c].senders, p)]
        \/ ch[c] = [chan[c] EXCEPT !.receivers = Append(chan[c].receivers, p)]
    BY DEF WaitToSend, WaitToReceive, Chan
  <2>3. CASE ch[c] = chan[c]
    BY <2>3
  <2>4. CASE ch[c] = [chan[c] EXCEPT !.senders = Append(chan[c].senders, p)]
    <3>1. PICK u : u = Append(chan[c].senders, p)
      OBVIOUS
    <3>2. ch[c] = [chan[c] EXCEPT !.senders = u]
      BY <2>4, <3>1
    <3> QED BY <3>2, <2>1, RemovedSame
  <2>5. CASE ch[c] = [chan[c] EXCEPT !.receivers = Append(chan[c].receivers, p)]
    <3>1. PICK u : u = Append(chan[c].receivers, p)
      OBVIOUS
    <3>2. ch[c] = [chan[c] EXCEPT !.receivers = u]
      BY <2>5, <3>1
    <3> QED BY <3>2, <2>1, RemovedSame
  <2> QED BY <2>2, <2>3, <2>4, <2>5
<1> QED BY <1>2, <1>3, <1>4, <1>5, MovesAlone

LEMMA CloseMoves ==
  ASSUME NEW role, Inv(role), Closing(chan, proc), NEW p \in Proc, CloseChannel(p),
         NEW ch, ch = chan', NEW pr, pr = proc'
  PROVE  Moves(ch, pr)
<1> DEFINE c == Phase(p).chan
           woken == SE!ToSet(chan[c].receivers)
<1>1. /\ proc[p].at \in DOMAIN Code(p) /\ Phase(p).op = "close"
      /\ FitsPhase(Phase(p), role.reads[p], role.writes[p], role.closes[p], role.relays[p])
  BY AtFacts DEF CloseChannel
<1>2. c \in Chan
  <2>1. c \in role.closes[p]
    BY <1>1 DEF FitsPhase
  <2>2. Linked(Proc, Chan, role)
    BY InvFacts DEF Inv, InvAt, Tidy
  <2> QED BY <2>1, <2>2 DEF Linked
<1>3. Closes(Code(p)[proc[p].at], c)
  BY <1>1 DEF Closes, Phase
<1>4. Over(p)
  BY AtOver DEF CloseChannel
<1>5. /\ ch = [d \in Chan |-> IF d = c THEN [chan[c] EXCEPT !.closed = TRUE, !.receivers = <<>>]
                              ELSE chan[d]]
      /\ pr = [q \in Proc |-> IF q = p THEN Left(proc[p])
                              ELSE IF q \in woken THEN [proc[q] EXCEPT !.status = "run"]
                              ELSE proc[q]]
  BY DEF CloseChannel
<1> HIDE DEF c, woken
<1>6. pr[p] = Left(proc[p]) /\ pr[p].at = proc[p].at + 1
  <2>1. pr[p] = Left(proc[p])
    BY <1>5
  <2> QED BY <2>1, InvFacts, LeftFacts
<1>7. ASSUME NEW q \in Proc PROVE Advances(q, pr[q])
  <2>1. CASE q = p
    BY <2>1, <1>4, <1>6 DEF Advances
  <2>2. CASE q # p
    <3>1. pr[q] = [proc[q] EXCEPT !.status = "run"] \/ pr[q] = proc[q]
      BY <2>2, <1>5
    <3>2. ProcType(Proc, proc[q])
      BY InvFacts
    <3>3. pr[q].at = proc[q].at
      BY <3>1, <3>2 DEF ProcType
    <3> QED BY <3>3 DEF Advances
  <2> QED BY <2>1, <2>2
<1>8. \A d \in Chan : d # c => ch[d] = chan[d]
  BY <1>5
<1>9. ch[c].buf = chan[c].buf /\ ch[c].closed
  <2>1. ch[c] = [chan[c] EXCEPT !.closed = TRUE, !.receivers = <<>>] /\ ChanType(Proc, chan[c])
    BY <1>2, <1>5, InvFacts
  <2> QED BY <2>1 DEF ChanType
<1>10. ASSUME NEW d \in Chan, ch[d].closed, ~chan[d].closed
       PROVE  \E q \in Proc : \E k \in DOMAIN Code(q) : Closes(Code(q)[k], d) /\ k < pr[q].at
  <2>1. d = c
    BY <1>8, <1>10
  <2>2. proc[p].at < pr[p].at
    BY <1>6, InvFacts DEF Fields
  <2> QED BY <2>1, <2>2, <1>1, <1>3
<1>11. Stopless(program.code) => NoStop(ch)
  <2>1. DOMAIN ch = Chan
    BY <1>5
  <2>2. \A d \in Chan : ch[d].buf = chan[d].buf
    BY <1>8, <1>9
  <2> QED BY <2>1, <2>2 DEF Closing, NoStop, Chan
<1>12. \A d \in Chan : chan[d].closed => ch[d].closed
  BY <1>8, <1>9
<1> QED BY <1>7, <1>10, <1>11, <1>12 DEF Moves

\* What is sent goes to a buffer or to somebody who waits.
LEMMA StoredMoves ==
  ASSUME NEW role, Inv(role), Closing(chan, proc), NEW p \in Proc, NEW c \in Chan,
          NEW i \in Item(Proc),
         Stopless(program.code) => i.seq # 0,
         NEW y, Advances(p, y), NEW ch, NEW pr, Stored(p, c, i, y, ch, pr)
  PROVE  Moves(ch, pr)
<1>1. /\ DOMAIN ch = Chan /\ ch[c] = [chan[c] EXCEPT !.buf = Append(@, i)]
      /\ \A d \in Chan : d # c => ch[d] = chan[d]
      /\ pr[p] = y /\ \A q \in Proc : q # p => pr[q] = proc[q]
  BY DEF Stored
<1>2. \A q \in Proc : Advances(q, pr[q])
  BY <1>1 DEF Advances
<1>3. PICK b : b = Append(chan[c].buf, i)
  OBVIOUS
<1>4. ch[c].closed = chan[c].closed /\ ch[c].buf = b
  <2>1. ChanType(Proc, chan[c]) /\ ch[c] = [chan[c] EXCEPT !.buf = b]
    BY <1>1, <1>3, InvFacts
  <2> QED BY <2>1 DEF ChanType
<1>5. \A d \in Chan : ch[d].closed = chan[d].closed
  BY <1>1, <1>4
<1>6. ASSUME Stopless(program.code) PROVE NoStop(ch)
  <2>1. \A h : In(b, h) => In(chan[c].buf, h) \/ h = i
    <3>1. chan[c].buf \in Seq(Item(Proc))
      BY InvFacts DEF ChanType
    <3> QED BY <3>1, <1>3 DEF In
  <2>2. ASSUME NEW d \in Chan, NEW h, In(ch[d].buf, h) PROVE h.seq # 0
    <3>1. In(chan[d].buf, h) \/ h = i
      BY <2>1, <2>2, <1>1, <1>4
    <3> QED BY <3>1, <1>6 DEF Closing, NoStop, Chan
  <2> QED BY <2>2, <1>1 DEF NoStop
<1> QED BY <1>2, <1>5, <1>6 DEF Moves

LEMMA HandedMoves ==
  ASSUME NEW role, Inv(role), Closing(chan, proc), NEW p \in Proc, NEW c \in Chan,
          NEW i \in Item(Proc),
         Stopless(program.code) => i.seq # 0,
         NEW y, Advances(p, y), NEW r, NEW ch, NEW pr, HandedOver(p, c, i, y, r, ch, pr)
  PROVE  Moves(ch, pr)
<1>1. /\ chan[c].receivers # <<>> /\ r = Head(chan[c].receivers)
      /\ DOMAIN ch = Chan /\ pr[r] = Given(r, {i}) /\ (r # p => pr[p] = y)
      /\ \A d \in Chan : ch[d] = Without(r, chan[d]) \/ ch[d] = chan[d]
      /\ \A q \in Proc : q # p /\ q # r => pr[q] = proc[q]
  BY DEF HandedOver
<1>2. r \in Proc /\ In(chan[c].receivers, r)
  <2>1. chan[c].receivers \in Seq(Proc)
    BY InvFacts DEF ChanType
  <2>2. r = chan[c].receivers[1] /\ 1 \in DOMAIN chan[c].receivers /\ r \in Proc
    BY <1>1, <2>1
  <2> QED BY <2>2 DEF In
<1>3. Turn(Code(r), proc[r], "r")
  BY <1>2, InvFacts DEF Waits
<1>4. Advances(r, pr[r])
  <2>1. PICK S : S = {i}
    OBVIOUS
  <2>2. S \in SUBSET Item(Proc) /\ S # {} /\ (Stopless(program.code) => \A h \in S : h.seq # 0)
    BY <2>1
  <2>3. Advances(r, Given(r, S))
    BY <1>2, <1>3, <2>2, GivenAdvances
  <2> QED BY <2>1, <2>3, <1>1
<1>5. \A q \in Proc : Advances(q, pr[q])
  BY <1>1, <1>4 DEF Advances
<1>6. \A d \in Chan : ch[d].buf = chan[d].buf /\ ch[d].closed = chan[d].closed
  BY <1>1, WithoutSame
<1>7. Stopless(program.code) => NoStop(ch)
  BY <1>1, <1>6 DEF Closing, NoStop, Chan
<1> QED BY <1>5, <1>6, <1>7 DEF Moves

LEMMA SentMoves ==
  ASSUME NEW role, Inv(role), Closing(chan, proc), NEW p \in Proc, NEW c \in Chan,
          NEW i \in Item(Proc),
         Stopless(program.code) => i.seq # 0, NEW y, Advances(p, y),
         LET after == [proc EXCEPT ![p] = y] IN HandOver(c, i, after) \/ Store(c, i, after),
         NEW ch, ch = chan', NEW pr, pr = proc'
  PROVE  Moves(ch, pr)
<1> DEFINE after == [proc EXCEPT ![p] = y]
           r == Head(chan[c].receivers)
<1>1. DOMAIN after = Proc /\ after[p] = y /\ \A q \in Proc : q # p => after[q] = proc[q]
  BY DEF Proc
<1>2. CASE HandOver(c, i, after)
  <2>1. chan[c].receivers # <<>> /\ ch = Unregistered(r, c)
          /\ pr = [after EXCEPT ![r] = Given(r, {i})]
    BY <1>2 DEF HandOver
  <2>2. r \in Proc
    BY <2>1, InvFacts DEF ChanType
  <2>3. /\ DOMAIN ch = Chan
        /\ \A d \in Chan : ch[d] = IF d = c \/ ~Phase(r).lossy THEN Without(r, chan[d]) ELSE chan[d]
    BY <2>1 DEF Unregistered
  <2> HIDE DEF after, r
  <2>4. /\ DOMAIN pr = Proc /\ pr[r] = Given(r, {i})
        /\ \A q \in Proc : q # p /\ q # r => pr[q] = proc[q]
    BY <1>1, <2>1, <2>2
  <2>5. r # p => pr[p] = y
    BY <1>1, <2>1, <2>2
  <2>6. r = Head(chan[c].receivers)
    BY DEF r
  <2>7. HandedOver(p, c, i, y, r, ch, pr)
    BY <2>1, <2>3, <2>4, <2>5, <2>6 DEF HandedOver
  <2> QED BY <2>7, HandedMoves
<1>3. CASE Store(c, i, after)
  <2>1. /\ chan[c].receivers = <<>> /\ Len(chan[c].buf) < Cap(c)
        /\ ch = [chan EXCEPT ![c].buf = Append(@, i)] /\ pr = after
    BY <1>3 DEF Store, Room
  <2>2. /\ DOMAIN ch = Chan /\ \A d \in Chan : d # c => ch[d] = chan[d]
        /\ ch[c] = [chan[c] EXCEPT !.buf = Append(@, i)]
    BY <2>1 DEF Chan
  <2> HIDE DEF after
  <2>3. Stored(p, c, i, y, ch, pr)
    BY <1>1, <2>1, <2>2 DEF Stored
  <2> QED BY <2>3, StoredMoves
<1> QED BY <1>2, <1>3

LEMMA SendMoves ==
  ASSUME NEW role, Inv(role), Closing(chan, proc), NEW p \in Proc, Send(p),
         NEW ch, ch = chan', NEW pr, pr = proc'
  PROVE  Moves(ch, pr)
<1>1. Turn(Code(p), proc[p], "s")
  BY AtOpTurn DEF Send
<1>2. Phase(p).out \in Chan
  BY <1>1, WriterTurn
<1>3. Outgoing(p) \in Item(Proc) /\ Outgoing(p).seq # 0
  BY <1>1, OutgoingFacts
<1>4. Advances(p, HasSent(p))
  BY <1>1, SentAdvances
<1>5. LET after == [proc EXCEPT ![p] = HasSent(p)]
      IN  HandOver(Phase(p).out, Outgoing(p), after) \/ Store(Phase(p).out, Outgoing(p), after)
  BY DEF Send
<1> QED BY <1>2, <1>3, <1>4, <1>5, SentMoves

LEMMA SendStopMoves ==
  ASSUME NEW role, Inv(role), Closing(chan, proc), NEW p \in Proc, SendStop(p),
         NEW ch, ch = chan', NEW pr, pr = proc'
  PROVE  Moves(ch, pr)
<1> DEFINE c == Phase(p).chan
           i == [from |-> p, seq |-> 0, by |-> p]
           y == Left(proc[p])
<1>1. /\ proc[p].at \in DOMAIN Code(p) /\ Phase(p).op = "stop"
      /\ FitsPhase(Phase(p), role.reads[p], role.writes[p], role.closes[p], role.relays[p])
  BY AtFacts DEF SendStop
<1>2. c \in Chan
  <2>1. c \in role.writes[p]
    BY <1>1 DEF FitsPhase
  <2> QED BY <2>1, InvFacts
<1>3. ~Stopless(program.code)
  <2>1. p \in DOMAIN program.code /\ Code(p) = program.code[p]
    BY InvFacts DEF Code
  <2> QED BY <2>1, <1>1 DEF Stopless, Phase
<1>4. Advances(p, y)
  BY AtOver, LeftAdvances DEF SendStop
<1>5. i \in Item(Proc)
  BY DEF Item
<1>6. LET after == [proc EXCEPT ![p] = y] IN HandOver(c, i, after) \/ Store(c, i, after)
  BY DEF SendStop
<1> HIDE DEF i, y, c
<1> QED BY <1>2, <1>3, <1>4, <1>5, <1>6, SentMoves

LEMMA ReceivedMoves ==
  ASSUME NEW role, Inv(role), Closing(chan, proc),
         NEW p \in Proc, Turn(Code(p), proc[p], "r"), proc[p].status = "run",
         NEW cs, NEW S, Taking(p, cs, S), NEW ch, NEW pr, Received(p, cs, S, ch, pr)
  PROVE  Moves(ch, pr)
<1> DEFINE Head1(c) == Head(Queue(c))
<1>1. /\ DOMAIN ch = Chan /\ pr[p] = Given(p, S)
      /\ \A c \in cs : ch[c] = Popped(c)
      /\ \A c \in Chan : c \notin cs =>
           ch[c] = IF Phase(p).lossy /\ c \in Inputs(p)
                   THEN [chan[c] EXCEPT !.receivers = Append(@, p)] ELSE chan[c]
      /\ \A q \in Proc : q # p =>
           pr[q] = IF \E c \in cs : q \in Freed(c) THEN HasSent(q) ELSE proc[q]
  BY DEF Received, Taking
<1>2. /\ \A c \in cs : c \in Chan
      /\ \A i : i \in S <=> \E c \in cs : i = Head1(c)
      /\ cs # {}
  BY DEF Taking
<1>3. \A c \in cs : TakenFrom(c, Head1(c), Popped(c), role)
  BY TakenIsTimely
<1> HIDE DEF Head1
\* What is taken, or moves into a buffer, was in one or is what a suspended sender sends.
<1>4. ASSUME NEW c \in cs, NEW f \in Freed(c)
      PROVE  f \in Proc /\ Turn(Code(f), proc[f], "s")
  BY <1>2, FreedFacts DEF Suspended
<1>5. ASSUME Stopless(program.code), NEW c \in cs, NEW h,
             In(chan[c].buf, h) \/ \E f \in Freed(c) : h = Outgoing(f)
      PROVE  h.seq # 0
  <2>1. CASE In(chan[c].buf, h)
    BY <2>1, <1>2, <1>5 DEF Closing, NoStop, Chan
  <2>2. CASE \E f \in Freed(c) : h = Outgoing(f)
    BY <2>2, <1>4, OutgoingFacts
  <2> QED BY <2>1, <2>2, <1>5
<1>6. Advances(p, pr[p])
  <2>1. S \in SUBSET Item(Proc) /\ S # {}
    BY <1>2, <1>3 DEF TakenFrom
  <2>2. Stopless(program.code) => \A i \in S : i.seq # 0
    BY <1>2, <1>3, <1>5 DEF TakenFrom
  <2>3. Advances(p, Given(p, S))
    BY <2>1, <2>2, GivenAdvances
  <2> QED BY <2>3, <1>1
<1>7. ASSUME NEW q \in Proc PROVE Advances(q, pr[q])
  <2>1. CASE q = p
    BY <2>1, <1>6
  <2>2. CASE q # p /\ \E c \in cs : q \in Freed(c)
    <3>1. Advances(q, HasSent(q))
      BY <2>2, <1>4, SentAdvances
    <3> QED BY <2>2, <3>1, <1>1
  <2>3. CASE q # p /\ ~\E c \in cs : q \in Freed(c)
    BY <2>3, <1>1 DEF Advances
  <2> QED BY <2>1, <2>2, <2>3
<1>8. ASSUME NEW c \in Chan
      PROVE  /\ ch[c].closed = chan[c].closed
             /\ \A h : In(ch[c].buf, h) =>
                  In(chan[c].buf, h) \/ (c \in cs /\ \E f \in Freed(c) : h = Outgoing(f))
  <2>1. ChanType(Proc, chan[c])
    BY InvFacts
  <2>2. CASE c \in cs
    <3>1. PICK b, s : Popped(c) = [chan[c] EXCEPT !.buf = b, !.senders = s]
      BY DEF Popped
    <3>2. Popped(c).closed = chan[c].closed
      BY <3>1, <2>1 DEF ChanType
    <3>3. \A h : In(Popped(c).buf, h) => In(chan[c].buf, h) \/ (\E f \in Freed(c) : h = Outgoing(f))
      BY <2>2, <1>3 DEF TakenFrom
    <3> QED BY <2>2, <3>2, <3>3, <1>1
  <2>3. CASE c \notin cs
    <3>1. PICK u : u = Append(chan[c].receivers, p)
      OBVIOUS
    <3>2. ch[c] = [chan[c] EXCEPT !.receivers = u] \/ ch[c] = chan[c]
      BY <2>3, <3>1, <1>1
    <3>3. CASE ch[c] = [chan[c] EXCEPT !.receivers = u]
      BY <2>1, <3>3, RemovedSame
    <3>4. CASE ch[c] = chan[c]
      BY <3>4
    <3> QED BY <3>2, <3>3, <3>4
  <2> QED BY <2>2, <2>3
<1>9. ASSUME Stopless(program.code) PROVE NoStop(ch)
  <2> SUFFICES ASSUME NEW c \in Chan, NEW h, In(ch[c].buf, h) PROVE h.seq # 0
    BY <1>1 DEF NoStop
  <2>1. In(chan[c].buf, h) \/ (c \in cs /\ \E f \in Freed(c) : h = Outgoing(f))
    BY <1>8
  <2>2. In(chan[c].buf, h) => h.seq # 0
    BY <1>9 DEF Closing, NoStop, Chan
  <2> QED BY <2>1, <2>2, <1>5, <1>9
<1> QED BY <1>7, <1>8, <1>9 DEF Moves

LEMMA ReceiveMoves ==
  ASSUME NEW role, Inv(role), Closing(chan, proc), NEW p \in Proc, Receive(p),
         NEW ch, ch = chan', NEW pr, pr = proc'
  PROVE  Moves(ch, pr)
<1>1. PICK cs, S : Taking(p, cs, S) /\ Received(p, cs, S, ch, pr)
  BY ReceptionOf
<1>2. Turn(Code(p), proc[p], "r") /\ proc[p].status = "run"
  BY AtOpTurn DEF Receive
<1> QED BY <1>1, <1>2, ReceivedMoves

LEMMA StepMoves ==
  ASSUME NEW role, Inv(role), Closing(chan, proc), NEW p \in Proc, Step(p),
         NEW ch, ch = chan', NEW pr, pr = proc'
  PROVE  Moves(ch, pr)
<1>1. CASE Send(p)
  BY <1>1, SendMoves
<1>2. CASE WaitToSend(p) \/ WaitToReceive(p)
  BY <1>2, WaitsMove
<1>3. CASE Receive(p)
  BY <1>3, ReceiveMoves
<1>4. CASE Leave(p)
  <2>1. Over(p)
    BY <1>4, LeaveOver
  <2>2. ch = chan /\ pr = [proc EXCEPT ![p] = Left(@)]
    BY <1>4 DEF Leave
  <2> QED BY <2>1, <2>2, LeftMoves
<1>5. CASE Choose(p)
  BY <1>5, ChooseMoves
<1>6. CASE CloseChannel(p)
  BY <1>6, CloseMoves
<1>7. CASE SendStop(p)
  BY <1>7, SendStopMoves
<1>8. CASE JoinAll(p)
  <2>1. Over(p)
    BY <1>8, AtOver DEF JoinAll
  <2>2. ch = chan /\ pr = [proc EXCEPT ![p] = Left(@)]
    BY <1>8 DEF JoinAll
  <2> QED BY <2>1, <2>2, LeftMoves
<1>9. CASE Tick(p)
  BY <1>9, TickMoves DEF Tick
<1>10. CASE Cancelled(p)
  BY <1>10, CancelledMoves
<1>11. CASE StartSpawned(p)
  <2>1. Over(p)
    BY <1>11, AtOver DEF StartSpawned
  <2>2. ch = chan /\ pr = [proc EXCEPT ![p] = Left(@)]
    BY <1>11 DEF StartSpawned
  <2> QED BY <2>1, <2>2, LeftMoves
<1>12. CASE NeverSpawned(p)
  BY <1>12, NeverMoves DEF NeverSpawned
<1>13. CASE AtomicStep(p)
  <2>1. Over(p)
    BY <1>13, AtOver DEF AtomicStep
  <2>2. ch = chan /\ pr = [proc EXCEPT ![p] = Left(@)]
    BY <1>13 DEF AtomicStep
  <2> QED BY <2>1, <2>2, LeftMoves
<1>14. CASE LoadPlain(p)
  BY <1>14, LoadMoves DEF LoadPlain
<1>15. CASE StorePlain(p)
  <2>1. Over(p)
    BY <1>15, AtOver DEF StorePlain
  <2>2. ch = chan /\ pr = [proc EXCEPT ![p] = Left(@)]
    BY <1>15 DEF StorePlain
  <2> QED BY <2>1, <2>2, LeftMoves
<1> QED BY <1>1, <1>2, <1>3, <1>4, <1>5, <1>6, <1>7, <1>8, <1>9, <1>10, <1>11, <1>12,
           <1>13, <1>14, <1>15 DEF Step

LEMMA NextClosing ==
  ASSUME NEW role, Inv(role), Closing(chan, proc), [Next]_vars
  PROVE  Closing(chan, proc)'
<1>1. PICK ch : ch = chan'
  OBVIOUS
<1>2. PICK pr : pr = proc'
  OBVIOUS
<1>3. InvAt(role, ch, pr) /\ program' = program
  BY <1>1, <1>2, StepInv
<1>4. Closing(ch, pr)
  <2>1. CASE UNCHANGED vars
    BY <1>1, <1>2, <2>1 DEF vars
  <2>2. ASSUME NEW p \in Proc, Step(p) PROVE Closing(ch, pr)
    <3>1. Moves(ch, pr)
      BY <1>1, <1>2, <2>2, StepMoves
    <3> QED BY <1>3, <3>1, ClosingKept
  <2> QED BY <2>1, <2>2 DEF Next
<1>5. Closing(ch, pr)'
  <2>1. \A p : Code(p)' = Code(p)
    BY <1>3 DEF Code
  <2>2. Shut(ch, pr)'
    BY <1>4, <2>1 DEF Closing, Shut
  <2>3. Joined(pr)'
    BY <1>4, <2>1 DEF Closing, Joined
  <2>4. Drained(ch, pr)' <=> Drained(ch, pr)
    BY <2>1 DEF Drained
  <2> QED BY <1>3, <1>4, <2>2, <2>3, <2>4 DEF Closing
<1> QED BY <1>1, <1>2, <1>5

-----------------------------------------------------------------------------
\* A phase, and the code of a process, that keep to channels: those it reads from
\* (R), writes to (W) and closes (C); r: does it relay.  It waits in one at a time.
SoloPhase(ph) == ph.op = "loop" => ~ph.lossy /\ \A a, b \in ph.in : a = b
KeepsTo(ph, R, W, C, r) == FitsPhase(ph, R, W, C, r) /\ SoloPhase(ph)
Formed(code, R, W, C, r) ==
  /\ code \in Seq({code[k] : k \in DOMAIN code})
  /\ \A k \in DOMAIN code : FitsPhase(code[k], R, W, C, r)
Coded(code, R, W, C, r) ==
  /\ code \in Seq({code[k] : k \in DOMAIN code})
  /\ \A k \in DOMAIN code : KeepsTo(code[k], R, W, C, r)

LEMMA FormedFits ==
  ASSUME NEW code, NEW R, NEW W, NEW C, NEW r, Formed(code, R, W, C, r)
  PROVE  Fits(code, R, W, C, r)
<1>1. PICK S : S = {code[k] : k \in DOMAIN code}
  OBVIOUS
<1>2. code \in Seq(S)
  BY <1>1 DEF Formed
<1>3. Len(code) \in Nat /\ DOMAIN code = 1..Len(code)
  BY <1>2, LenProperties
<1> QED BY <1>3 DEF Formed, Fits

LEMMA CodedIsFormed ==
  ASSUME NEW code, NEW R, NEW W, NEW C, NEW r, Coded(code, R, W, C, r)
  PROVE  Formed(code, R, W, C, r) /\ Solo(code)
<1>1. Formed(code, R, W, C, r)
  BY DEF Coded, KeepsTo, Formed
<1>2. Solo(code)
  BY DEF Coded, KeepsTo, SoloPhase, Solo
<1> QED BY <1>1, <1>2

\* Any sequence of such phases is such code.
LEMMA RangeSeq ==
  ASSUME NEW S, NEW code \in Seq(S)
  PROVE  /\ code \in Seq({code[k] : k \in DOMAIN code})
         /\ \A k \in DOMAIN code : code[k] \in S
<1>1. PICK T : T = {code[k] : k \in DOMAIN code}
  OBVIOUS
<1>2. PICK n : n \in Nat /\ code \in [1..n -> S]
  <2>1. Len(code) \in Nat /\ code \in [1..Len(code) -> S]
    BY LenProperties
  <2> QED BY <2>1
<1>3. code \in [1..n -> T] /\ \A k \in DOMAIN code : code[k] \in S
  BY <1>1, <1>2
<1>4. code \in Seq(T)
  BY <1>2, <1>3, IsASeq
<1> QED BY <1>1, <1>3, <1>4

LEMMA CodedSeq ==
  ASSUME NEW S, NEW code \in Seq(S), NEW R, NEW W, NEW C, NEW r,
         \A ph \in S : KeepsTo(ph, R, W, C, r)
  PROVE  Coded(code, R, W, C, r)
BY RangeSeq DEF Coded

LEMMA FormedSeq ==
  ASSUME NEW S, NEW code \in Seq(S), NEW R, NEW W, NEW C, NEW r,
         \A ph \in S : FitsPhase(ph, R, W, C, r)
  PROVE  Formed(code, R, W, C, r)
BY RangeSeq DEF Formed

LEMMA CodedOne ==
  ASSUME NEW a, NEW R, NEW W, NEW C, NEW r, KeepsTo(a, R, W, C, r)
  PROVE  Coded(<<a>>, R, W, C, r)
<1>1. PICK S : S = {a}
  OBVIOUS
<1>2. PICK code : code = <<a>>
  OBVIOUS
<1>3. code \in Seq(S) /\ \A ph \in S : KeepsTo(ph, R, W, C, r)
  BY <1>1, <1>2
<1> QED BY <1>2, <1>3, CodedSeq

LEMMA CodedConcat ==
  ASSUME NEW u, NEW v, NEW R, NEW W, NEW C, NEW r, Coded(u, R, W, C, r), Coded(v, R, W, C, r)
  PROVE  Coded(u \o v, R, W, C, r)
<1>1. PICK A : A = {u[k] : k \in DOMAIN u}
  OBVIOUS
<1>2. PICK B : B = {v[k] : k \in DOMAIN v}
  OBVIOUS
<1>3. PICK S : S = A \cup B
  OBVIOUS
<1>4. u \in Seq(S) /\ v \in Seq(S)
  <2>1. u \in Seq(A) /\ v \in Seq(B) /\ A \subseteq S /\ B \subseteq S
    BY <1>1, <1>2, <1>3 DEF Coded
  <2> QED BY <2>1
<1>5. PICK code : code = u \o v
  OBVIOUS
<1>6. code \in Seq(S)
  BY <1>4, <1>5, ConcatProperties
<1>7. \A ph \in S : KeepsTo(ph, R, W, C, r)
  BY <1>1, <1>2, <1>3 DEF Coded
<1> QED BY <1>5, <1>6, <1>7, CodedSeq

LEMMA CodedTwo ==
  ASSUME NEW a, NEW b, NEW R, NEW W, NEW C, NEW r,
         KeepsTo(a, R, W, C, r), KeepsTo(b, R, W, C, r)
  PROVE  Coded(<<a, b>>, R, W, C, r)
<1>1. PICK S : S = {a, b}
  OBVIOUS
<1>2. PICK code : code = <<a, b>>
  OBVIOUS
<1>3. code \in Seq(S) /\ \A ph \in S : KeepsTo(ph, R, W, C, r)
  BY <1>1, <1>2
<1> QED BY <1>2, <1>3, CodedSeq

LEMMA CodedThree ==
  ASSUME NEW a, NEW b, NEW c, NEW R, NEW W, NEW C, NEW r,
         KeepsTo(a, R, W, C, r), KeepsTo(b, R, W, C, r), KeepsTo(c, R, W, C, r)
  PROVE  Coded(<<a, b, c>>, R, W, C, r)
<1>1. PICK S : S = {a, b, c}
  OBVIOUS
<1>2. PICK code : code = <<a, b, c>>
  OBVIOUS
<1>3. code \in Seq(S) /\ \A ph \in S : KeepsTo(ph, R, W, C, r)
  BY <1>1, <1>2
<1> QED BY <1>2, <1>3, CodedSeq

\* The phases of ChannelKit.
LEMMA PatternFacts ==
  /\ <<"s">> \in Seq({"s", "r", "t"}) /\ <<"s">> # <<>>
  /\ <<"r">> \in Seq({"s", "r", "t"}) /\ <<"r">> # <<>>
       /\ \A k \in DOMAIN <<"r">> : <<"r">>[k] # "s"
  /\ <<"t">> \in Seq({"s", "r", "t"}) /\ <<"t">> # <<>>
       /\ \A k \in DOMAIN <<"t">> : <<"t">>[k] # "s"
OBVIOUS

LEMMA LoopKeeps ==
  ASSUME NEW pattern \in Seq({"s", "r", "t"}), pattern # <<>>, NEW in, NEW out, NEW n, NEW v,
         NEW R, NEW W, NEW C, NEW r,
         in \in SUBSET R, \A a, b \in in : a = b, NEW ph,
         \/ ph = Loop(pattern, in, out, n)
         \/ ph = [Loop(pattern, in, out, n) EXCEPT !.until = v],
         \/ \A k \in DOMAIN pattern : pattern[k] # "s"
         \/ out \in W /\ ~r
  PROVE  KeepsTo(ph, R, W, C, r)
<1>1. /\ ph.op = "loop" /\ ph.pattern = pattern /\ ph.in = in /\ ph.out = out /\ ph.chain = <<>>
      /\ ~ph.relay /\ ~ph.lossy /\ ph.prime = 0
  <2> DEFINE x == Loop(pattern, in, out, n)
  <2>1. /\ x.op = "loop" /\ x.pattern = pattern /\ x.in = in /\ x.out = out /\ x.chain = <<>>
        /\ ~x.relay /\ ~x.lossy /\ x.prime = 0
    BY DEF Loop
  <2>2. LET y == [x EXCEPT !.until = v]
        IN  /\ y.op = "loop" /\ y.pattern = pattern /\ y.in = in /\ y.out = out /\ y.chain = <<>>
            /\ ~y.relay /\ ~y.lossy /\ y.prime = 0
    BY DEF Loop
  <2>3. CASE ph = x
    BY <2>1, <2>3
  <2>4. CASE ph = [x EXCEPT !.until = v]
    BY <2>2, <2>4
  <2> QED BY <2>3, <2>4
<1>2. FitsLoop(ph, R, W, r)
  <2>1. (\E k \in DOMAIN ph.pattern : ph.pattern[k] = "s") => ph.out \in W /\ (ph.relay <=> r)
    BY <1>1
  <2>2. \A k \in DOMAIN ph.chain : ph.chain[k] \in R
    BY <1>1
  <2>3. ph.pattern \in Seq({"s", "r", "t"}) /\ ph.pattern # <<>> /\ ph.in \in SUBSET R
    BY <1>1
  <2>4. ph.relay => ph.pattern = <<"r", "s">>
    BY <1>1
  <2>5. ph.prime > 0 => ph.relay /\ ph.n = Forever
    BY <1>1
  <2>6. ph.lossy => ph.pattern = <<"r">> /\ ph.until = {}
    BY <1>1
  <2> QED BY <2>1, <2>2, <2>3, <2>4, <2>5, <2>6 DEF FitsLoop
<1> QED BY <1>1, <1>2 DEF KeepsTo, FitsPhase, SoloPhase

LEMMA RelayKeeps ==
  ASSUME NEW R, NEW W, NEW C, NEW in \in R, NEW out \in W, NEW n, NEW v, NEW k, NEW ph,
         \/ ph = Relay(in, out, n) \/ ph = Until(Relay(in, out, n), v)
         \/ ph = [Relay(in, out, n) EXCEPT !.prime = k] /\ n = Forever
  PROVE  KeepsTo(ph, R, W, C, TRUE)
<1>1. /\ ph.op = "loop" /\ ph.pattern = <<"r", "s">> /\ ph.in = {in} /\ ph.out = out
        /\ ph.chain = <<>>
      /\ ph.relay /\ ~ph.lossy /\ (ph.prime > 0 => ph.n = Forever)
  <2> DEFINE x == Relay(in, out, n)
  <2>1. /\ x.op = "loop" /\ x.pattern = <<"r", "s">> /\ x.in = {in} /\ x.out = out /\ x.chain = <<>>
        /\ x.relay /\ ~x.lossy /\ x.prime = 0 /\ x.n = n
    BY DEF Relay, Loop
  <2>2. LET y == [x EXCEPT !.until = v]
        IN  /\ y.op = "loop" /\ y.pattern = <<"r", "s">> /\ y.in = {in} /\ y.out = out
                /\ y.chain = <<>>
            /\ y.relay /\ ~y.lossy /\ y.prime = 0
    BY DEF Relay, Loop
  <2>3. LET y == [x EXCEPT !.prime = k]
        IN  /\ y.op = "loop" /\ y.pattern = <<"r", "s">> /\ y.in = {in} /\ y.out = out
                /\ y.chain = <<>>
            /\ y.relay /\ ~y.lossy /\ y.n = n
    BY DEF Relay, Loop
  <2>4. CASE ph = x
    BY <2>1, <2>4
  <2>5. CASE ph = [x EXCEPT !.until = v]
    BY <2>2, <2>5
  <2>6. CASE ph = [x EXCEPT !.prime = k] /\ n = Forever
    BY <2>3, <2>6
  <2> QED BY <2>4, <2>5, <2>6 DEF Until
<1>2. <<"r", "s">> \in Seq({"s", "r", "t"}) /\ <<"r", "s">> # <<>>
  OBVIOUS
<1>3. FitsLoop(ph, R, W, TRUE)
  BY <1>1, <1>2 DEF FitsLoop
<1> QED BY <1>1, <1>3 DEF KeepsTo, FitsPhase, SoloPhase

LEMMA SendAllKeeps ==
  ASSUME NEW R, NEW W, NEW C, NEW c \in W, NEW n PROVE KeepsTo(SendAll(c, n), R, W, C, FALSE)
<1>1. PICK pattern : pattern = <<"s">>
  OBVIOUS
<1> QED BY <1>1, LoopKeeps, PatternFacts DEF SendAll

LEMMA AskKeeps ==
  ASSUME NEW R, NEW W, NEW C, NEW out \in W, NEW in \in R, NEW n, NEW v
  PROVE  KeepsTo(Ask(out, in, n), R, W, C, FALSE)
          /\ KeepsTo(Until(Ask(out, in, n), v), R, W, C, FALSE)
<1>1. PICK pattern : pattern = <<"s", "r">>
  OBVIOUS
<1>2. PICK ins : ins = {in}
  OBVIOUS
<1>3. pattern \in Seq({"s", "r", "t"}) /\ pattern # <<>>
  BY <1>1
<1> QED BY <1>1, <1>2, <1>3, LoopKeeps DEF Ask, Until

LEMMA TakeKeeps ==
  ASSUME NEW R, NEW W, NEW C, NEW r, NEW c \in R, NEW n, NEW v
  PROVE  /\ KeepsTo(Take(c, n), R, W, C, r)
         /\ KeepsTo(Drain(c), R, W, C, r) /\ KeepsTo(Until(Drain(c), v), R, W, C, r)
<1>1. PICK pattern : pattern = <<"r">>
  OBVIOUS
<1>2. PICK ins : ins = {c}
  OBVIOUS
<1>3. pattern \in Seq({"s", "r", "t"}) /\ pattern # <<>>
        /\ \A k \in DOMAIN pattern : pattern[k] # "s"
  BY <1>1, PatternFacts
<1>4. ins \in SUBSET R /\ \A a, b \in ins : a = b
  BY <1>2
<1>5. \A m : KeepsTo(Loop(pattern, ins, "", m), R, W, C, r)
  BY <1>3, <1>4, LoopKeeps
<1>6. KeepsTo([Loop(pattern, ins, "", Forever) EXCEPT !.until = v], R, W, C, r)
  BY <1>3, <1>4, LoopKeeps
<1> QED BY <1>1, <1>2, <1>5, <1>6 DEF Take, Drain, Until

LEMMA TicksKeep ==
  ASSUME NEW R, NEW W, NEW C, NEW r, NEW n, NEW v
  PROVE  KeepsTo(Ticks(n), R, W, C, r) /\ KeepsTo(Until(Ticks(n), v), R, W, C, r)
<1>1. PICK pattern : pattern = <<"t">>
  OBVIOUS
<1>3. pattern \in Seq({"s", "r", "t"}) /\ pattern # <<>>
        /\ \A k \in DOMAIN pattern : pattern[k] # "s"
  BY <1>1, PatternFacts
<1> QED BY <1>1, <1>3, LoopKeeps DEF Ticks, Until

LEMMA CloseKeeps ==
  ASSUME NEW R, NEW W, NEW C, NEW r, NEW c
  PROVE  (c \in C => KeepsTo(Close(c), R, W, C, r)) /\ (c \in W => KeepsTo(Stop(c), R, W, C, r))
BY DEF KeepsTo, FitsPhase, SoloPhase, Close, Stop

LEMMA OtherKeeps ==
  ASSUME NEW R, NEW W, NEW C, NEW r, NEW ph, ph.op \in {"join", "spawned", "atomic", "load", "store"}
  PROVE  KeepsTo(ph, R, W, C, r)
BY DEF KeepsTo, FitsPhase, SoloPhase

LEMMA OtherPhases ==
  ASSUME NEW R, NEW W, NEW C, NEW r, NEW x, NEW y
  PROVE  /\ KeepsTo(Join(x), R, W, C, r) /\ KeepsTo(Spawned(x, y), R, W, C, r)
         /\ KeepsTo(Atomic(x, y), R, W, C, r) /\ KeepsTo(Load(x), R, W, C, r)
         /\ KeepsTo(StoreNext(x), R, W, C, r) /\ KeepsTo(Lock(x), R, W, C, r)
         /\ KeepsTo(Unlock(x), R, W, C, r) /\ KeepsTo(Add(x, y), R, W, C, r)
         /\ KeepsTo(Sub(x, y), R, W, C, r) /\ KeepsTo(RequestStop(x), R, W, C, r)
         /\ KeepsTo(AwaitStop(x), R, W, C, r)
<1>1. \A to : KeepsTo(Atomic(x, to), R, W, C, r)
  BY OtherKeeps DEF Atomic
<1>2. /\ KeepsTo(Join(x), R, W, C, r) /\ KeepsTo(Spawned(x, y), R, W, C, r)
      /\ KeepsTo(Load(x), R, W, C, r) /\ KeepsTo(StoreNext(x), R, W, C, r)
  BY OtherKeeps DEF Join, Spawned, Load, StoreNext
<1> QED BY <1>1, <1>2 DEF Lock, Unlock, Add, Sub, RequestStop, AwaitStop

\* Who is linked to whom: processes P, channels Q, and for each process the channels
\* it reads from, writes to and closes; L: those that relay.
Wired(P, Q, R, W, D, L) ==
  /\ \A p \in P : R[p] \subseteq Q /\ W[p] \subseteq Q /\ D[p] \subseteq Q
  /\ \A p, q \in P : \A c, d \in W[p] \cap R[q] : c = d
  /\ \A p \in L : \A v, w \in P : W[v] \cap R[p] # {} /\ W[w] \cap R[p] # {} => v = w
AllFormed(code, R, W, D, L) ==
  \A p \in DOMAIN code : /\ p \in L => Formed(code[p], R[p], W[p], D[p], TRUE)
                         /\ p \notin L => Formed(code[p], R[p], W[p], D[p], FALSE)
AllCoded(code, R, W, D, L) ==
  \A p \in DOMAIN code : /\ p \in L => Coded(code[p], R[p], W[p], D[p], TRUE)
                         /\ p \notin L => Coded(code[p], R[p], W[p], D[p], FALSE)
Tame(cap, code) == \E role : Tidy([cap |-> cap, code |-> code], role)

LEMMA FormedTame ==
  ASSUME NEW cap, NEW code, NEW R, NEW W, NEW D, NEW L, \A c \in DOMAIN cap : cap[c] \in Nat,
         Wired(DOMAIN code, DOMAIN cap, R, W, D, L), AllFormed(code, R, W, D, L),
         \A p, q \in DOMAIN code : p # q /\ D[p] \cap R[q] # {} => Solo(code[q])
  PROVE  Tame(cap, code)
<1> DEFINE P == DOMAIN code
           role == [reads |-> R, writes |-> W, closes |-> D, relays |-> [p \in P |-> p \in L]]
           pr == [cap |-> cap, code |-> code]
<1>1. role.reads = R /\ role.writes = W /\ role.closes = D
        /\ \A p \in P : role.relays[p] <=> p \in L
  OBVIOUS
<1>3. pr.cap = cap /\ pr.code = code
  OBVIOUS
<1> HIDE DEF role, pr
<1>4. \A p \in P : Fits(code[p], R[p], W[p], D[p], role.relays[p])
  <2> SUFFICES ASSUME NEW p \in P PROVE Fits(code[p], R[p], W[p], D[p], role.relays[p])
    OBVIOUS
  <2>1. CASE p \in L
    <3>1. Fits(code[p], R[p], W[p], D[p], TRUE)
      BY <2>1, FormedFits DEF AllFormed
    <3> QED BY <2>1, <1>1, <3>1 DEF Fits, FitsPhase, FitsLoop
  <2>2. CASE p \notin L
    <3>1. Fits(code[p], R[p], W[p], D[p], FALSE)
      BY <2>2, FormedFits DEF AllFormed
    <3> QED BY <2>2, <1>1, <3>1 DEF Fits, FitsPhase, FitsLoop
  <2> QED BY <2>1, <2>2
<1>5. Linked(P, DOMAIN cap, role)
  <2>1. \A p \in P : R[p] \subseteq DOMAIN cap /\ W[p] \subseteq DOMAIN cap
          /\ D[p] \subseteq DOMAIN cap
    BY DEF Wired
  <2>2. \A p, q \in P : \A c, d \in W[p] \cap R[q] : c = d
    BY DEF Wired
  <2>3. \A p, v, w \in P : p \in L /\ W[v] \cap R[p] # {} /\ W[w] \cap R[p] # {} => v = w
    BY DEF Wired
  <2> QED BY <1>1, <2>1, <2>2, <2>3 DEF Linked
<1>6. Tidy(pr, role)
  BY <1>1, <1>3, <1>4, <1>5 DEF Tidy
<1> QED BY <1>6 DEF Tame, pr

LEMMA CodedTame ==
  ASSUME NEW cap, NEW code, NEW R, NEW W, NEW D, NEW L, \A c \in DOMAIN cap : cap[c] \in Nat,
         Wired(DOMAIN code, DOMAIN cap, R, W, D, L), AllCoded(code, R, W, D, L)
  PROVE  Tame(cap, code)
<1>1. AllFormed(code, R, W, D, L) /\ \A q \in DOMAIN code : Solo(code[q])
  BY CodedIsFormed DEF AllCoded, AllFormed
<1> QED BY <1>1, FormedTame

\* The invariants hold of its code: tame, and channels are closed in order.
Sound(cap, code) == Tame(cap, code) /\ Orderly(code, DOMAIN cap)

\* Code that closes nothing.
LEMMA OpenIsOrderly ==
  ASSUME NEW code, NEW R, NEW W, NEW D, NEW L, AllFormed(code, R, W, D, L),
         \A p \in DOMAIN code : D[p] = {}, NEW C
  PROVE  Orderly(code, C)
<1>1. ASSUME NEW p \in DOMAIN code, NEW k \in DOMAIN code[p], NEW c PROVE ~Closes(code[p][k], c)
  <2>1. \/ FitsPhase(code[p][k], R[p], W[p], D[p], TRUE)
        \/ FitsPhase(code[p][k], R[p], W[p], D[p], FALSE)
    BY DEF AllFormed, Formed
  <2> QED BY <2>1 DEF FitsPhase, Closes
<1> QED BY <1>1 DEF Orderly

LEMMA FormedSound ==
  ASSUME NEW cap, NEW code, NEW R, NEW W, NEW D, NEW L, \A c \in DOMAIN cap : cap[c] \in Nat,
         Wired(DOMAIN code, DOMAIN cap, R, W, D, L), AllFormed(code, R, W, D, L),
         \A p \in DOMAIN code : D[p] = {}
  PROVE  Sound(cap, code)
<1>1. \A p, q \in DOMAIN code : D[p] \cap R[q] = {}
  OBVIOUS
<1>2. Tame(cap, code)
  BY <1>1, FormedTame
<1> QED BY <1>2, OpenIsOrderly DEF Sound

LEMMA CodedSound ==
  ASSUME NEW cap, NEW code, NEW R, NEW W, NEW D, NEW L, \A c \in DOMAIN cap : cap[c] \in Nat,
         Wired(DOMAIN code, DOMAIN cap, R, W, D, L), AllCoded(code, R, W, D, L),
         \A p \in DOMAIN code : D[p] = {}
  PROVE  Sound(cap, code)
<1>1. AllFormed(code, R, W, D, L)
  BY CodedIsFormed DEF AllCoded, AllFormed
<1> QED BY <1>1, FormedSound

LEMMA CodedAppend ==
  ASSUME NEW u, NEW a, NEW R, NEW W, NEW C, NEW r, Coded(u, R, W, C, r), KeepsTo(a, R, W, C, r)
  PROVE  Coded(Append(u, a), R, W, C, r)
<1>1. PICK A : A = {u[k] : k \in DOMAIN u}
  OBVIOUS
<1>2. PICK S : S = A \cup {a}
  OBVIOUS
<1>3. u \in Seq(S)
  <2>1. u \in Seq(A) /\ A \subseteq S
    BY <1>1, <1>2 DEF Coded
  <2> QED BY <2>1
<1>4. PICK code : code = Append(u, a)
  OBVIOUS
<1>5. code \in Seq(S)
  BY <1>2, <1>3, <1>4, AppendProperties
<1>6. \A ph \in S : KeepsTo(ph, R, W, C, r)
  BY <1>1, <1>2 DEF Coded
<1> QED BY <1>4, <1>5, <1>6, CodedSeq

LEMMA CodedFour ==
  ASSUME NEW a, NEW b, NEW c, NEW d, NEW R, NEW W, NEW C, NEW r, KeepsTo(a, R, W, C, r),
         KeepsTo(b, R, W, C, r), KeepsTo(c, R, W, C, r), KeepsTo(d, R, W, C, r)
  PROVE  Coded(<<a, b, c, d>>, R, W, C, r)
<1>1. PICK S : S = {a, b, c, d}
  OBVIOUS
<1>2. PICK code : code = <<a, b, c, d>>
  OBVIOUS
<1>3. code \in Seq(S) /\ \A ph \in S : KeepsTo(ph, R, W, C, r)
  BY <1>1, <1>2
<1> QED BY <1>2, <1>3, CodedSeq

LEMMA CodedFive ==
  ASSUME NEW a, NEW b, NEW c, NEW d, NEW e, NEW R, NEW W, NEW C, NEW r, KeepsTo(a, R, W, C, r),
         KeepsTo(b, R, W, C, r), KeepsTo(c, R, W, C, r), KeepsTo(d, R, W, C, r), KeepsTo(e, R, W, C, r)
  PROVE  Coded(<<a, b, c, d, e>>, R, W, C, r)
<1>1. PICK S : S = {a, b, c, d, e}
  OBVIOUS
<1>2. PICK code : code = <<a, b, c, d, e>>
  OBVIOUS
<1>3. code \in Seq(S) /\ \A ph \in S : KeepsTo(ph, R, W, C, r)
  BY <1>1, <1>2
<1> QED BY <1>2, <1>3, CodedSeq

LEMMA RepeatKeeps ==
  ASSUME NEW u, NEW R, NEW W, NEW C, NEW r, Coded(u, R, W, C, r), u # <<>>, NEW n \in Nat
  PROVE  Coded(Times(n, u), R, W, C, r)
<1>1. PICK S : S = {u[k] : k \in DOMAIN u}
  OBVIOUS
<1>2. u \in Seq(S) /\ \A ph \in S : KeepsTo(ph, R, W, C, r)
  BY <1>1 DEF Coded
<1>3. PICK l : l = Len(u) /\ l \in Nat \ {0} /\ \A j \in 1..l : u[j] \in S
  <2>1. Len(u) \in Nat \ {0} /\ \A j \in 1..Len(u) : u[j] \in S
    BY <1>2, EmptySeq
  <2> QED BY <2>1
<1>4. n * l \in Nat
  BY <1>3
<1>5. \A k \in 1..(n * l) : u[((k - 1) % l) + 1] \in S
  <2> SUFFICES ASSUME NEW k \in 1..(n * l) PROVE u[((k - 1) % l) + 1] \in S
    OBVIOUS
  <2>1. k - 1 \in Nat
    BY <1>4
  <2>2. (k - 1) % l \in 0..(l - 1)
    BY <2>1, <1>3
  <2>3. ((k - 1) % l) + 1 \in 1..l
    BY <2>2, <1>3
  <2> QED BY <2>3, <1>3
<1>6. PICK m : m = n * l
  OBVIOUS
<1>7. Times(n, u) = [k \in 1..m |-> u[((k - 1) % l) + 1]]
  BY <1>3, <1>6 DEF Times
<1>8. PICK code : code = Times(n, u)
  OBVIOUS
<1>9. code \in Seq(S)
  <2>1. code \in [1..m -> S] /\ m \in Nat
    BY <1>4, <1>5, <1>6, <1>7, <1>8
  <2> QED BY <2>1, IsASeq
<1> QED BY <1>2, <1>8, <1>9, CodedSeq

\* Functions written with :> and @@.
LEMMA AllCodedOne ==
  ASSUME NEW a, NEW x, NEW R, NEW W, NEW D, NEW L,
         \/ a \in L /\ Coded(x, R[a], W[a], D[a], TRUE)
         \/ a \notin L /\ Coded(x, R[a], W[a], D[a], FALSE)
  PROVE  AllCoded(a :> x, R, W, D, L)
BY DEF AllCoded, :>

LEMMA AllCodedBoth ==
  ASSUME NEW f, NEW g, NEW R, NEW W, NEW D, NEW L, AllCoded(f, R, W, D, L), AllCoded(g, R, W, D, L)
  PROVE  AllCoded(f @@ g, R, W, D, L)
BY DEF AllCoded, @@

-----------------------------------------------------------------------------
(* The programs that close channels: what a phase uses (U) and closes (D), *)
(* and code that uses nothing which it has closed before.                  *)
Does(ph, U, D) == \A c : (Uses(ph, c) => c \in U) /\ (Closes(ph, c) => c \in D)
Owns(u, D, U) ==
  \A k \in DOMAIN u : /\ Does(u[k], U, D)
                      /\ \A c : Closes(u[k], c) => \A j \in DOMAIN u : Uses(u[j], c) => j < k

\* A phase keeps to what its loop is given.
LEMMA LoopDoes ==
  ASSUME NEW pattern, NEW in, NEW out, NEW n, NEW ph, ph.op = "loop",
          ph.pattern = pattern,
         ph.in = in, ph.out = out, ph.n = n, ph.chain = <<>>,
         NEW U, in \subseteq U \/ n = Forever,
                 out \in U \/ \A k \in DOMAIN pattern : pattern[k] # "s"
  PROVE  Does(ph, U, {})
<1>1. \A c : ~Closes(ph, c)
  BY DEF Closes
<1>2. ASSUME NEW c, SendsTo(ph, c) PROVE c \in U
  BY <1>2 DEF SendsTo
<1>3. ASSUME NEW c, Counts(ph, c) PROVE c \in U
  <2>1. ph.n # Forever /\ (c \in ph.in \/ \E k \in DOMAIN ph.chain : ph.chain[k] = c)
    BY <1>3 DEF Counts
  <2>2. DOMAIN ph.chain = {}
    OBVIOUS
  <2> QED BY <2>1, <2>2
<1> QED BY <1>1, <1>2, <1>3 DEF Does, Uses

LEMMA PhasesDo ==
  ASSUME NEW x, NEW y, NEW n, NEW ps
  PROVE  /\ Does(SendAll(x, n), {x}, {}) /\ Does(Take(x, n), {x}, {})
         /\ Does(Drain(x), {}, {}) /\ Does(Race(ps, n), ps, {})
         /\ Does(Ask(x, y, n), {x, y}, {}) /\ Does(Ask(x, y, Forever), {x}, {})
         /\ Does(Relay(x, y, n), {x, y}, {}) /\ Does(Relay(x, y, Forever), {y}, {})
         /\ Does(Close(x), {}, {x}) /\ Does(Join(ps), {}, {}) /\ Does(Ticks(n), {}, {})
<1> DEFINE F(ph, pattern, in, out, m) == /\ ph.op = "loop" /\ ph.pattern = pattern /\ ph.in = in
                                         /\ ph.out = out /\ ph.n = m /\ ph.chain = <<>>
<1>1. \A pattern, in, out, m : F(Loop(pattern, in, out, m), pattern, in, out, m)
  BY DEF Loop
<1>2. \A in, out, m : F(Relay(in, out, m), <<"r", "s">>, {in}, out, m)
  BY DEF Loop, Relay
<1>3. /\ \A k \in DOMAIN <<"r">> : <<"r">>[k] # "s"
      /\ \A k \in DOMAIN <<"t">> : <<"t">>[k] # "s"
  BY PatternFacts
<1>4. ASSUME NEW ph, NEW pattern, NEW in, NEW out, NEW m, F(ph, pattern, in, out, m), NEW U,
             in \subseteq U \/ m = Forever, out \in U \/ \A k \in DOMAIN pattern : pattern[k] # "s"
      PROVE  Does(ph, U, {})
  BY <1>4, LoopDoes
<1> HIDE DEF F
<1>5. Does(SendAll(x, n), {x}, {})
  BY <1>1, <1>4 DEF SendAll
<1>6. Does(Take(x, n), {x}, {})
  BY <1>1, <1>3, <1>4 DEF Take
<1>7. Does(Drain(x), {}, {})
  BY <1>1, <1>3, <1>4 DEF Drain
<1>8. Does(Race(ps, n), ps, {})
  BY <1>1, <1>3, <1>4 DEF Race
<1>9. Does(Ask(x, y, n), {x, y}, {}) /\ Does(Ask(x, y, Forever), {x}, {})
  BY <1>1, <1>4 DEF Ask
<1>10. Does(Relay(x, y, n), {x, y}, {}) /\ Does(Relay(x, y, Forever), {y}, {})
  BY <1>2, <1>4
<1>11. Does(Ticks(n), {}, {})
  <2>1. PICK t : t = <<"t">>
    OBVIOUS
  <2>2. \A k \in DOMAIN t : t[k] # "s"
    BY <1>3, <2>1
  <2>3. PICK ph, in, out : ph = Loop(t, in, out, n) /\ in = {} /\ out = ""
    OBVIOUS
  <2>4. F(ph, t, in, out, n) /\ in \subseteq in
    BY <2>3, <1>1
  <2>5. Does(ph, in, {})
    BY <1>4, <2>2, <2>4
  <2> QED BY <2>1, <2>3, <2>5 DEF Ticks
<1>12. Does(Close(x), {}, {x}) /\ Does(Join(ps), {}, {})
  BY DEF Does, Uses, SendsTo, Counts, Closes, Close, Join
<1> QED BY <1>5, <1>6, <1>7, <1>8, <1>9, <1>10, <1>11, <1>12

\* A phase more, that uses nothing closed.
LEMMA OwnsAppend ==
  ASSUME NEW S, NEW u \in Seq(S), NEW ph \in S, NEW D, NEW U, Owns(u, D, U), NEW E, NEW V,
          Does(ph, V, E),
         V \cap (D \cup E) = {}
  PROVE  Owns(Append(u, ph), D \cup E, U \cup V)
<1>1. PICK w : w = Append(u, ph)
  OBVIOUS
<1>2. /\ DOMAIN w = 1..(Len(u) + 1) /\ DOMAIN u = 1..Len(u) /\ Len(u) \in Nat
      /\ w[Len(u) + 1] = ph /\ \A k \in DOMAIN u : w[k] = u[k]
  BY <1>1, AppendProperties, LenProperties
<1>3. ASSUME NEW k \in DOMAIN w PROVE Does(w[k], U \cup V, D \cup E)
  <2>1. CASE k \in DOMAIN u
    BY <2>1, <1>2 DEF Owns, Does
  <2>2. CASE k = Len(u) + 1
    BY <2>2, <1>2 DEF Does
  <2> QED BY <2>1, <2>2, <1>2
<1>4. ASSUME NEW k \in DOMAIN w, NEW c, Closes(w[k], c), NEW j \in DOMAIN w, Uses(w[j], c) PROVE j < k
  <2>1. CASE k \in DOMAIN u /\ j \in DOMAIN u
    BY <2>1, <1>2, <1>4 DEF Owns
  <2>2. CASE j = Len(u) + 1
    <3>1. c \in V
      BY <2>2, <1>2, <1>4 DEF Does
    <3>2. c \in D \cup E
      BY <1>3, <1>4 DEF Does
    <3> QED BY <3>1, <3>2
  <2>3. CASE k = Len(u) + 1 /\ j \in DOMAIN u
    BY <2>3, <1>2
  <2> QED BY <2>1, <2>2, <2>3, <1>2
<1>5. Owns(w, D \cup E, U \cup V)
  BY <1>3, <1>4 DEF Owns
<1> QED BY <1>1, <1>5

LEMMA OwnsOne ==
  ASSUME NEW a, NEW U, NEW D, Does(a, U, D), U \cap D = {} PROVE Owns(<<a>>, D, U)
<1>1. PICK w : w = <<a>>
  OBVIOUS
<1>2. DOMAIN w = {1} /\ w[1] = a
  BY <1>1
<1>3. Owns(w, D, U)
  BY <1>2 DEF Owns, Does
<1> QED BY <1>1, <1>3

LEMMA OwnsTwo ==
  ASSUME NEW a, NEW U, NEW D, Does(a, U, D), U \cap D = {},
         NEW b, NEW V, NEW E, Does(b, V, E), V \cap (D \cup E) = {}
  PROVE  Owns(<<a, b>>, D \cup E, U \cup V)
<1>1. PICK S : S = {a, b}
  OBVIOUS
<1>2. PICK u : u = <<a>>
  OBVIOUS
<1>3. u \in Seq(S) /\ b \in S /\ <<a, b>> = Append(u, b)
  BY <1>1, <1>2
<1>4. Owns(u, D, U)
  BY <1>2, OwnsOne
<1>5. Owns(Append(u, b), D \cup E, U \cup V)
  BY <1>3, <1>4, OwnsAppend
<1> QED BY <1>3, <1>5

LEMMA OwnsThree ==
  ASSUME NEW a, NEW U, NEW D, Does(a, U, D), U \cap D = {},
         NEW b, NEW V, NEW E, Does(b, V, E), V \cap (D \cup E) = {},
         NEW c, NEW W, NEW F, Does(c, W, F), W \cap (D \cup E \cup F) = {}
  PROVE  Owns(<<a, b, c>>, D \cup E \cup F, U \cup V \cup W)
<1>1. PICK S : S = {a, b, c}
  OBVIOUS
<1>2. PICK u : u = <<a, b>>
  OBVIOUS
<1>3. u \in Seq(S) /\ c \in S /\ <<a, b, c>> = Append(u, c)
  BY <1>1, <1>2
<1>4. Owns(u, D \cup E, U \cup V)
  BY <1>2, OwnsTwo
<1>5. Owns(Append(u, c), D \cup E \cup F, U \cup V \cup W)
  BY <1>3, <1>4, OwnsAppend
<1> QED BY <1>3, <1>5

LEMMA OwnsFour ==
  ASSUME NEW a, NEW U, NEW D, Does(a, U, D), U \cap D = {},
         NEW b, NEW V, NEW E, Does(b, V, E), V \cap (D \cup E) = {},
         NEW c, NEW W, NEW F, Does(c, W, F), W \cap (D \cup E \cup F) = {},
         NEW d, NEW X, NEW G, Does(d, X, G), X \cap (D \cup E \cup F \cup G) = {}
  PROVE  Owns(<<a, b, c, d>>, D \cup E \cup F \cup G, U \cup V \cup W \cup X)
<1>1. PICK S : S = {a, b, c, d}
  OBVIOUS
<1>2. PICK u : u = <<a, b, c>>
  OBVIOUS
<1>3. u \in Seq(S) /\ d \in S /\ <<a, b, c, d>> = Append(u, d)
  BY <1>1, <1>2
<1>4. Owns(u, D \cup E \cup F, U \cup V \cup W)
  BY <1>2, OwnsThree
<1>5. Owns(Append(u, d), D \cup E \cup F \cup G, U \cup V \cup W \cup X)
  BY <1>3, <1>4, OwnsAppend
<1> QED BY <1>3, <1>5

LEMMA OwnsFive ==
  ASSUME NEW a, NEW U, NEW D, Does(a, U, D), U \cap D = {},
         NEW b, NEW V, NEW E, Does(b, V, E), V \cap (D \cup E) = {},
         NEW c, NEW W, NEW F, Does(c, W, F), W \cap (D \cup E \cup F) = {},
         NEW d, NEW X, NEW G, Does(d, X, G), X \cap (D \cup E \cup F \cup G) = {},
         NEW e, NEW Y, NEW H, Does(e, Y, H), Y \cap (D \cup E \cup F \cup G \cup H) = {}
  PROVE  Owns(<<a, b, c, d, e>>, D \cup E \cup F \cup G \cup H, U \cup V \cup W \cup X \cup Y)
<1>1. PICK S : S = {a, b, c, d, e}
  OBVIOUS
<1>2. PICK u : u = <<a, b, c, d>>
  OBVIOUS
<1>3. u \in Seq(S) /\ e \in S /\ <<a, b, c, d, e>> = Append(u, e)
  BY <1>1, <1>2
<1>4. Owns(u, D \cup E \cup F \cup G, U \cup V \cup W \cup X)
  BY <1>2, OwnsFour
<1>5. Owns(Append(u, e), D \cup E \cup F \cup G \cup H, U \cup V \cup W \cup X \cup Y)
  BY <1>3, <1>4, OwnsAppend
<1> QED BY <1>3, <1>5

\* It is enough that no other process uses what one closes, or that it precedes.
Foreign(code, C, D, U) ==
  \A p, q \in DOMAIN code : \A c \in C : p # q /\ c \in D[p] \cap U[q] =>
    \A k \in DOMAIN code[p], j \in DOMAIN code[q] :
      Closes(code[p][k], c) /\ Uses(code[q][j], c) => Precedes(code, C, q, j, p, k)
AllOwn(code, D, U) == \A p \in DOMAIN code : Owns(code[p], D[p], U[p])

LEMMA OrderlyBy ==
  ASSUME NEW code, NEW C, NEW D, NEW U, AllOwn(code, D, U), Foreign(code, C, D, U)
  PROVE  Orderly(code, C)
<1> SUFFICES ASSUME NEW p \in DOMAIN code, NEW q \in DOMAIN code, NEW k \in DOMAIN code[p],
                    NEW j \in DOMAIN code[q], NEW c \in C, Closes(code[p][k], c),
                            Uses(code[q][j], c)
             PROVE  Precedes(code, C, q, j, p, k)
  BY DEF Orderly
<1>1. CASE p = q
  BY <1>1 DEF AllOwn, Owns, Precedes
<1>2. CASE p # q
  <2>1. c \in D[p] /\ c \in U[q]
    BY DEF AllOwn, Owns, Does
  <2> QED BY <1>2, <2>1 DEF Foreign
<1> QED BY <1>1, <1>2

LEMMA OwnOrderly ==
  ASSUME NEW code, NEW C, NEW D, NEW U, AllOwn(code, D, U),
         \A p, q \in DOMAIN code : p # q => D[p] \cap U[q] = {}
  PROVE  Orderly(code, C)
<1>1. Foreign(code, C, D, U)
  BY DEF Foreign
<1> QED BY <1>1, OrderlyBy

\* csp_channel, csp_duo: the rendezvous.
LEMMA RendezvousSound == Sound(Rendezvous.cap, Rendezvous.code)
<1> DEFINE R == [sender |-> {}, receiver |-> {"c"}]
           W == [sender |-> {"c"}, receiver |-> {}]
           D == [sender |-> {}, receiver |-> {}]
           L == {}
           cap == Rendezvous.cap
           code == Rendezvous.code
<1>1. DOMAIN cap = {"c"} /\ \A c \in DOMAIN cap : cap[c] \in Nat
  BY ChannelConstants DEF Rendezvous
<1>2. DOMAIN code = {"sender", "receiver"}
  BY DEF Rendezvous
<1>open. \A p \in DOMAIN code : D[p] = {}
  BY <1>2
<1>3. Wired(DOMAIN code, DOMAIN cap, R, W, D, L)
  BY <1>1, <1>2 DEF Wired
<1>4. /\ Coded(code["sender"], R["sender"], W["sender"], D["sender"], FALSE)
      /\ Coded(code["receiver"], R["receiver"], W["receiver"], D["receiver"], FALSE)
  BY CodedOne, SendAllKeeps, TakeKeeps DEF Rendezvous
<1> HIDE DEF R, W, D, cap, code
<1>5. AllCoded(code, R, W, D, L)
  BY <1>2, <1>4 DEF AllCoded
<1> QED BY <1>open, <1>1, <1>3, <1>5, CodedSound DEF cap, code

\* csp_channel: the buffered channel.
LEMMA BufferedSound == Sound(Buffered.cap, Buffered.code)
<1> DEFINE R == [producer |-> {}, consumer |-> {"c"}]
           W == [producer |-> {"c"}, consumer |-> {}]
           D == [producer |-> {}, consumer |-> {}]
           L == {}
           cap == Buffered.cap
           code == Buffered.code
<1>1. DOMAIN cap = {"c"} /\ \A c \in DOMAIN cap : cap[c] \in Nat
  BY ChannelConstants DEF Buffered
<1>2. DOMAIN code = {"producer", "consumer"}
  BY DEF Buffered
<1>open. \A p \in DOMAIN code : D[p] = {}
  BY <1>2
<1>3. Wired(DOMAIN code, DOMAIN cap, R, W, D, L)
  BY <1>1, <1>2 DEF Wired
<1>4. /\ Coded(code["producer"], R["producer"], W["producer"], D["producer"], FALSE)
      /\ Coded(code["consumer"], R["consumer"], W["consumer"], D["consumer"], FALSE)
  BY CodedOne, SendAllKeeps, TakeKeeps DEF Buffered
<1> HIDE DEF R, W, D, cap, code
<1>5. AllCoded(code, R, W, D, L)
  BY <1>2, <1>4 DEF AllCoded
<1> QED BY <1>open, <1>1, <1>3, <1>5, CodedSound DEF cap, code

\* spawn_channel: ping and pong.
LEMMA PingPongTame == Tame(PingPong.cap, PingPong.code)
<1> DEFINE R == [ping |-> {"back"}, pong |-> {"there"}]
           W == [ping |-> {"there"}, pong |-> {"back"}]
           D == [ping |-> {"there"}, pong |-> {"back"}]
           L == {"pong"}
           cap == PingPong.cap
           code == PingPong.code
<1>1. DOMAIN cap = {"there", "back"} /\ \A c \in DOMAIN cap : cap[c] \in Nat
  BY ChannelConstants DEF PingPong
<1>2. DOMAIN code = {"ping", "pong"}
  BY DEF PingPong
<1>3. Wired(DOMAIN code, DOMAIN cap, R, W, D, L)
  BY <1>1, <1>2 DEF Wired
<1>4. Coded(code["ping"], R["ping"], W["ping"], D["ping"], FALSE)
  BY CodedTwo, AskKeeps, RelayKeeps, CloseKeeps DEF PingPong
<1>5. Coded(code["pong"], R["pong"], W["pong"], D["pong"], TRUE)
  BY CodedTwo, AskKeeps, RelayKeeps, CloseKeeps DEF PingPong
<1> HIDE DEF R, W, D, cap, code
<1>6. AllCoded(code, R, W, D, L)
  BY <1>2, <1>4, <1>5 DEF AllCoded
<1> QED BY <1>1, <1>3, <1>6, CodedTame DEF cap, code

\* actor_pingpong.
LEMMA PingPongActorsSound == Sound(PingPongActors.cap, PingPongActors.code)
<1> DEFINE R == [ping |-> {"ping"}, pong |-> {"pong"}]
           W == [ping |-> {"pong"}, pong |-> {"ping"}]
           D == [ping |-> {}, pong |-> {}]
           L == {"pong"}
           cap == PingPongActors.cap
           code == PingPongActors.code
<1>1. DOMAIN cap = {"pong", "ping"} /\ \A c \in DOMAIN cap : cap[c] \in Nat
  BY ChannelConstants DEF PingPongActors
<1>2. DOMAIN code = {"ping", "pong"}
  BY DEF PingPongActors
<1>open. \A p \in DOMAIN code : D[p] = {}
  BY <1>2
<1>3. Wired(DOMAIN code, DOMAIN cap, R, W, D, L)
  BY <1>1, <1>2 DEF Wired
<1>4. Coded(code["ping"], R["ping"], W["ping"], D["ping"], FALSE)
  BY CodedOne, CodedTwo, AskKeeps, RelayKeeps, CloseKeeps DEF PingPongActors
<1>5. Coded(code["pong"], R["pong"], W["pong"], D["pong"], TRUE)
  BY CodedOne, CodedTwo, AskKeeps, RelayKeeps, CloseKeeps DEF PingPongActors
<1> HIDE DEF R, W, D, cap, code
<1>6. AllCoded(code, R, W, D, L)
  BY <1>2, <1>4, <1>5 DEF AllCoded
<1> QED BY <1>open, <1>1, <1>3, <1>6, CodedSound DEF cap, code

\* csp_duo: odd and even.
LEMMA AlternateTame == Tame(Alternate.cap, Alternate.code)
<1> DEFINE R == [odd |-> {"odd"}, even |-> {"even"}]
           W == [odd |-> {"even"}, even |-> {"odd"}]
           D == [odd |-> {}, even |-> {"odd"}]
           L == {"even"}
           cap == Alternate.cap
           code == Alternate.code
<1>1. DOMAIN cap = {"even", "odd"} /\ \A c \in DOMAIN cap : cap[c] \in Nat
  BY ChannelConstants DEF Alternate
<1>2. DOMAIN code = {"odd", "even"}
  BY DEF Alternate
<1>3. Wired(DOMAIN code, DOMAIN cap, R, W, D, L)
  BY <1>1, <1>2 DEF Wired
<1>4. Coded(code["odd"], R["odd"], W["odd"], D["odd"], FALSE)
  BY CodedOne, CodedThree, AskKeeps, RelayKeeps, TakeKeeps, CloseKeeps DEF Alternate
<1>5. Coded(code["even"], R["even"], W["even"], D["even"], TRUE)
  BY CodedOne, CodedThree, AskKeeps, RelayKeeps, TakeKeeps, CloseKeeps DEF Alternate
<1> HIDE DEF R, W, D, cap, code
<1>6. AllCoded(code, R, W, D, L)
  BY <1>2, <1>4, <1>5 DEF AllCoded
<1> QED BY <1>1, <1>3, <1>6, CodedTame DEF cap, code

\* csp_duo: requests and responses.
LEMMA DuplexTame == Tame(Duplex.cap, Duplex.code)
<1> DEFINE R == [calculator |-> {"requests"}, user |-> {"responses"}]
           W == [calculator |-> {"responses"}, user |-> {"requests"}]
           D == [calculator |-> {}, user |-> {"requests"}]
           L == {"calculator"}
           cap == Duplex.cap
           code == Duplex.code
<1>1. DOMAIN cap = {"requests", "responses"} /\ \A c \in DOMAIN cap : cap[c] \in Nat
  BY ChannelConstants DEF Duplex
<1>2. DOMAIN code = {"calculator", "user"}
  BY DEF Duplex
<1>3. Wired(DOMAIN code, DOMAIN cap, R, W, D, L)
  BY <1>1, <1>2 DEF Wired
<1>4. Coded(code["user"], R["user"], W["user"], D["user"], FALSE)
  BY CodedOne, CodedTwo, AskKeeps, RelayKeeps, CloseKeeps DEF Duplex
<1>5. Coded(code["calculator"], R["calculator"], W["calculator"], D["calculator"], TRUE)
  BY CodedOne, CodedTwo, AskKeeps, RelayKeeps, CloseKeeps DEF Duplex
<1> HIDE DEF R, W, D, cap, code
<1>6. AllCoded(code, R, W, D, L)
  BY <1>2, <1>4, <1>5 DEF AllCoded
<1> QED BY <1>1, <1>3, <1>6, CodedTame DEF cap, code

\* csp_fanin.
LEMMA FanInTame == Tame(FanIn.cap, FanIn.code)
<1> DEFINE R == [dispatcher |-> {}, w1 |-> {"jobs"}, w2 |-> {"jobs"}, closer |-> {},
                 consumer |-> {"merged"}]
           W == [dispatcher |-> {"jobs"}, w1 |-> {"merged"}, w2 |-> {"merged"}, closer |-> {},
                 consumer |-> {}]
           D == [dispatcher |-> {"jobs"}, w1 |-> {}, w2 |-> {}, closer |-> {"merged"},
                 consumer |-> {}]
           L == {"w1", "w2"}
           cap == FanIn.cap
           code == FanIn.code
<1>1. DOMAIN cap = {"jobs", "merged"} /\ \A c \in DOMAIN cap : cap[c] \in Nat
  BY ChannelConstants DEF FanIn
<1>2. DOMAIN code = {"dispatcher", "w1", "w2", "closer", "consumer"}
  BY DEF FanIn
<1>3. Wired(DOMAIN code, DOMAIN cap, R, W, D, L)
  BY <1>1, <1>2 DEF Wired
<1>4. /\ Coded(code["dispatcher"], R["dispatcher"], W["dispatcher"], D["dispatcher"], FALSE)
      /\ Coded(code["closer"], R["closer"], W["closer"], D["closer"], FALSE)
      /\ Coded(code["consumer"], R["consumer"], W["consumer"], D["consumer"], FALSE)
  BY CodedOne, CodedTwo, SendAllKeeps, RelayKeeps, TakeKeeps, CloseKeeps, OtherPhases
       DEF FanIn, FanInWorker
<1>5. /\ Coded(code["w1"], R["w1"], W["w1"], D["w1"], TRUE)
      /\ Coded(code["w2"], R["w2"], W["w2"], D["w2"], TRUE)
  BY CodedOne, CodedTwo, SendAllKeeps, RelayKeeps, TakeKeeps, CloseKeeps, OtherPhases
       DEF FanIn, FanInWorker
<1> HIDE DEF R, W, D, cap, code
<1>6. AllCoded(code, R, W, D, L)
  BY <1>2, <1>4, <1>5 DEF AllCoded
<1> QED BY <1>1, <1>3, <1>6, CodedTame DEF cap, code

\* actor_pool.
LEMMA PoolTame == Tame(Pool.cap, Pool.code)
<1> DEFINE R == [dispatcher |-> {}, w1 |-> {"jobs"}, w2 |-> {"jobs"}, w3 |-> {"jobs"},
                 collector |-> {"results"}]
           W == [dispatcher |-> {"jobs"}, w1 |-> {"results"}, w2 |-> {"results"},
                 w3 |-> {"results"}, collector |-> {}]
           D == [dispatcher |-> {"jobs"}, w1 |-> {}, w2 |-> {}, w3 |-> {}, collector |-> {}]
           L == {"w1", "w2", "w3"}
           cap == Pool.cap
           code == Pool.code
<1>1. DOMAIN cap = {"jobs", "results"} /\ \A c \in DOMAIN cap : cap[c] \in Nat
  BY ChannelConstants DEF Pool
<1>2. DOMAIN code = {"dispatcher", "w1", "w2", "w3", "collector"}
  BY DEF Pool
<1>3. Wired(DOMAIN code, DOMAIN cap, R, W, D, L)
  BY <1>1, <1>2 DEF Wired
<1>4. /\ Coded(code["dispatcher"], R["dispatcher"], W["dispatcher"], D["dispatcher"], FALSE)
      /\ Coded(code["collector"], R["collector"], W["collector"], D["collector"], FALSE)
  BY CodedOne, CodedTwo, SendAllKeeps, RelayKeeps, TakeKeeps, CloseKeeps DEF Pool,Collector
<1>5. /\ Coded(code["w1"], R["w1"], W["w1"], D["w1"], TRUE)
      /\ Coded(code["w2"], R["w2"], W["w2"], D["w2"], TRUE)
      /\ Coded(code["w3"], R["w3"], W["w3"], D["w3"], TRUE)
  BY CodedOne, CodedTwo, SendAllKeeps, RelayKeeps, TakeKeeps, CloseKeeps DEF Pool,Collector
<1> HIDE DEF R, W, D, cap, code
<1>6. AllCoded(code, R, W, D, L)
  BY <1>2, <1>4, <1>5 DEF AllCoded
<1> QED BY <1>1, <1>3, <1>6, CodedTame DEF cap, code

\* actor_pipeline.
LEMMA PipelineTame == Tame(Pipeline.cap, Pipeline.code)
<1> DEFINE R == [producer |-> {}, square |-> {"stage1"}, sink |-> {"stage2"}]
           W == [producer |-> {"stage1"}, square |-> {"stage2"}, sink |-> {}]
           D == [producer |-> {"stage1"}, square |-> {"stage2"}, sink |-> {}]
           L == {"square"}
           cap == Pipeline.cap
           code == Pipeline.code
<1>1. DOMAIN cap = {"stage1", "stage2"} /\ \A c \in DOMAIN cap : cap[c] \in Nat
  BY ChannelConstants DEF Pipeline
<1>2. DOMAIN code = {"producer", "square", "sink"}
  BY DEF Pipeline
<1>3. Wired(DOMAIN code, DOMAIN cap, R, W, D, L)
  BY <1>1, <1>2 DEF Wired
<1>4. /\ Coded(code["producer"], R["producer"], W["producer"], D["producer"], FALSE)
      /\ Coded(code["sink"], R["sink"], W["sink"], D["sink"], FALSE)
  BY CodedOne, CodedTwo, SendAllKeeps, RelayKeeps, TakeKeeps, CloseKeeps DEF Pipeline
<1>5. Coded(code["square"], R["square"], W["square"], D["square"], TRUE)
  BY CodedOne, CodedTwo, SendAllKeeps, RelayKeeps, TakeKeeps, CloseKeeps DEF Pipeline
<1> HIDE DEF R, W, D, cap, code
<1>6. AllCoded(code, R, W, D, L)
  BY <1>2, <1>4, <1>5 DEF AllCoded
<1> QED BY <1>1, <1>3, <1>6, CodedTame DEF cap, code

\* spawn_channel: the pipeline.
LEMMA LongPipelineTame == Tame(LongPipeline.cap, LongPipeline.code)
<1> DEFINE R == [gen |-> {}, square |-> {"nums"}, format |-> {"squares"}, sink |-> {"lines"}]
           W == [gen |-> {"nums"}, square |-> {"squares"}, format |-> {"lines"}, sink |-> {}]
           D == [gen |-> {"nums"}, square |-> {"squares"}, format |-> {"lines"}, sink |-> {}]
           L == {"square", "format"}
           cap == LongPipeline.cap
           code == LongPipeline.code
<1>1. DOMAIN cap = {"nums", "squares", "lines"} /\ \A c \in DOMAIN cap : cap[c] \in Nat
  BY ChannelConstants DEF LongPipeline
<1>2. DOMAIN code = {"gen", "square", "format", "sink"}
  BY DEF LongPipeline
<1>3. Wired(DOMAIN code, DOMAIN cap, R, W, D, L)
  BY <1>1, <1>2 DEF Wired
<1>4. /\ Coded(code["gen"], R["gen"], W["gen"], D["gen"], FALSE)
      /\ Coded(code["sink"], R["sink"], W["sink"], D["sink"], FALSE)
  BY CodedOne, CodedTwo, SendAllKeeps, RelayKeeps, TakeKeeps, CloseKeeps DEF LongPipeline
<1>5. /\ Coded(code["square"], R["square"], W["square"], D["square"], TRUE)
      /\ Coded(code["format"], R["format"], W["format"], D["format"], TRUE)
  BY CodedOne, CodedTwo, SendAllKeeps, RelayKeeps, TakeKeeps, CloseKeeps DEF LongPipeline
<1> HIDE DEF R, W, D, cap, code
<1>6. AllCoded(code, R, W, D, L)
  BY <1>2, <1>4, <1>5 DEF AllCoded
<1> QED BY <1>1, <1>3, <1>6, CodedTame DEF cap, code

\* csp_mpsc: two producers.
LEMMA MpscTame == Tame(Mpsc.cap, Mpsc.code)
<1> DEFINE R == [p1 |-> {}, p2 |-> {}, closer |-> {}, consumer |-> {"c"}]
           W == [p1 |-> {"c"}, p2 |-> {"c"}, closer |-> {}, consumer |-> {}]
           D == [p1 |-> {}, p2 |-> {}, closer |-> {"c"}, consumer |-> {}]
           L == {}
           cap == Mpsc.cap
           code == Mpsc.code
<1>1. DOMAIN cap = {"c"} /\ \A c \in DOMAIN cap : cap[c] \in Nat
  BY ChannelConstants DEF Mpsc
<1>2. DOMAIN code = {"p1", "p2", "closer", "consumer"}
  BY DEF Mpsc
<1>3. Wired(DOMAIN code, DOMAIN cap, R, W, D, L)
  BY <1>1, <1>2 DEF Wired
<1>4. /\ Coded(code["p1"], R["p1"], W["p1"], D["p1"], FALSE)
      /\ Coded(code["p2"], R["p2"], W["p2"], D["p2"], FALSE)
      /\ Coded(code["closer"], R["closer"], W["closer"], D["closer"], FALSE)
      /\ Coded(code["consumer"], R["consumer"], W["consumer"], D["consumer"], FALSE)
  BY CodedOne, CodedTwo, SendAllKeeps, TakeKeeps, CloseKeeps, OtherPhases DEF Mpsc
<1> HIDE DEF R, W, D, cap, code
<1>5. AllCoded(code, R, W, D, L)
  BY <1>2, <1>4 DEF AllCoded
<1> QED BY <1>1, <1>3, <1>5, CodedTame DEF cap, code

\* csp_mpsc: the counting consumer.
LEMMA CountingMpscSound == Sound(CountingMpsc.cap, CountingMpsc.code)
<1> DEFINE R == [p1 |-> {}, p2 |-> {}, consumer |-> {"c"}]
           W == [p1 |-> {"c"}, p2 |-> {"c"}, consumer |-> {}]
           D == [p1 |-> {}, p2 |-> {}, consumer |-> {}]
           L == {}
           cap == CountingMpsc.cap
           code == CountingMpsc.code
<1>1. DOMAIN cap = {"c"} /\ \A c \in DOMAIN cap : cap[c] \in Nat
  BY ChannelConstants DEF CountingMpsc
<1>2. DOMAIN code = {"p1", "p2", "consumer"}
  BY DEF CountingMpsc
<1>open. \A p \in DOMAIN code : D[p] = {}
  BY <1>2
<1>3. Wired(DOMAIN code, DOMAIN cap, R, W, D, L)
  BY <1>1, <1>2 DEF Wired
<1>4. /\ Coded(code["p1"], R["p1"], W["p1"], D["p1"], FALSE)
      /\ Coded(code["p2"], R["p2"], W["p2"], D["p2"], FALSE)
      /\ Coded(code["consumer"], R["consumer"], W["consumer"], D["consumer"], FALSE)
  BY CodedOne, SendAllKeeps, TakeKeeps DEF CountingMpsc
<1> HIDE DEF R, W, D, cap, code
<1>5. AllCoded(code, R, W, D, L)
  BY <1>2, <1>4 DEF AllCoded
<1> QED BY <1>open, <1>1, <1>3, <1>5, CodedSound DEF cap, code

\* csp_select: the done channel.
LEMMA DoneChannelTame == Tame(DoneChannel.cap, DoneChannel.code)
<1> DEFINE R == [w1 |-> {"done"}, w2 |-> {"done"}, closer |-> {}]
           W == [w1 |-> {}, w2 |-> {}, closer |-> {}]
           D == [w1 |-> {}, w2 |-> {}, closer |-> {"done"}]
           L == {}
           cap == DoneChannel.cap
           code == DoneChannel.code
<1>1. DOMAIN cap = {"done"} /\ \A c \in DOMAIN cap : cap[c] \in Nat
  BY ChannelConstants DEF DoneChannel
<1>2. DOMAIN code = {"w1", "w2", "closer"}
  BY DEF DoneChannel
<1>3. Wired(DOMAIN code, DOMAIN cap, R, W, D, L)
  BY <1>1, <1>2 DEF Wired
<1>4. /\ Coded(code["w1"], R["w1"], W["w1"], D["w1"], FALSE)
      /\ Coded(code["w2"], R["w2"], W["w2"], D["w2"], FALSE)
      /\ Coded(code["closer"], R["closer"], W["closer"], D["closer"], FALSE)
  BY CodedOne, TakeKeeps, CloseKeeps DEF DoneChannel
<1> HIDE DEF R, W, D, cap, code
<1>5. AllCoded(code, R, W, D, L)
  BY <1>2, <1>4 DEF AllCoded
<1> QED BY <1>1, <1>3, <1>5, CodedTame DEF cap, code

\* udp_echo.
LEMMA EchoUdpSound == Sound(EchoUdp.cap, EchoUdp.code)
<1> DEFINE R == [server |-> {"there"}, client |-> {"back"}]
           W == [server |-> {"back"}, client |-> {"there"}]
           D == [server |-> {}, client |-> {}]
           L == {"server"}
           cap == EchoUdp.cap
           code == EchoUdp.code
<1>1. DOMAIN cap = {"there", "back"} /\ \A c \in DOMAIN cap : cap[c] \in Nat
  BY ChannelConstants DEF EchoUdp
<1>2. DOMAIN code = {"server", "client"}
  BY DEF EchoUdp
<1>open. \A p \in DOMAIN code : D[p] = {}
  BY <1>2
<1>3. Wired(DOMAIN code, DOMAIN cap, R, W, D, L)
  BY <1>1, <1>2 DEF Wired
<1>4. Coded(code["client"], R["client"], W["client"], D["client"], FALSE)
  BY CodedOne, RelayKeeps, AskKeeps DEF EchoUdp
<1>5. Coded(code["server"], R["server"], W["server"], D["server"], TRUE)
  BY CodedOne, RelayKeeps, AskKeeps DEF EchoUdp
<1> HIDE DEF R, W, D, cap, code
<1>6. AllCoded(code, R, W, D, L)
  BY <1>2, <1>4, <1>5 DEF AllCoded
<1> QED BY <1>open, <1>1, <1>3, <1>6, CodedSound DEF cap, code

LEMMA CloseAndRangeTame == \A n \in Nat : Tame(CloseAndRange(n).cap, CloseAndRange(n).code)
<1> SUFFICES ASSUME NEW n \in Nat PROVE Tame(CloseAndRange(n).cap, CloseAndRange(n).code)
  OBVIOUS
<1> DEFINE R == [producer |-> {}, consumer |-> {"c"}]
           W == [producer |-> {"c"}, consumer |-> {}]
           D == [producer |-> {"c"}, consumer |-> {}]
           cap == CloseAndRange(n).cap
           code == CloseAndRange(n).code
<1>1. DOMAIN cap = {"c"} /\ \A c \in DOMAIN cap : cap[c] \in Nat
  BY DEF CloseAndRange
<1>2. DOMAIN code = {"producer", "consumer"}
  BY DEF CloseAndRange
<1>3. Wired(DOMAIN code, DOMAIN cap, R, W, D, {})
  BY <1>1, <1>2 DEF Wired
<1>4. /\ Coded(code["producer"], R["producer"], W["producer"], D["producer"], FALSE)
      /\ Coded(code["consumer"], R["consumer"], W["consumer"], D["consumer"], FALSE)
  BY CodedOne, CodedTwo, SendAllKeeps, TakeKeeps, CloseKeeps DEF CloseAndRange
<1> HIDE DEF R, W, D, cap, code
<1>5. AllCoded(code, R, W, D, {})
  BY <1>2, <1>4 DEF AllCoded
<1> QED BY <1>1, <1>3, <1>5, CodedTame DEF cap, code

LEMMA CreditTame == Tame(Credit.cap, Credit.code)
<1> DEFINE R == [producer |-> {"demand"}, consumer |-> {"data"}]
           W == [producer |-> {"data"}, consumer |-> {"demand"}]
           D == [producer |-> {}, consumer |-> {"demand"}]
           cap == Credit.cap
           code == Credit.code
<1>1. DOMAIN cap = {"demand", "data"} /\ \A c \in DOMAIN cap : cap[c] \in Nat
  BY DEF Credit
<1>2. DOMAIN code = {"producer", "consumer"}
  BY DEF Credit
<1>3. Wired(DOMAIN code, DOMAIN cap, R, W, D, {})
  BY <1>1, <1>2 DEF Wired
<1>4. Coded(code["producer"], R["producer"], W["producer"], D["producer"], FALSE)
  <2>1. PICK s : s = <<"r", "s", "s">>
    OBVIOUS
  <2>2. s \in Seq({"s", "r", "t"}) /\ s # <<>>
    BY <2>1
  <2>3. KeepsTo(Loop(s, {"demand"}, "data", Forever), {"demand"}, {"data"}, {}, FALSE)
    BY <2>2, LoopKeeps
  <2> QED BY <2>1, <2>3, CodedOne DEF Credit
<1>5. Coded(code["consumer"], R["consumer"], W["consumer"], D["consumer"], FALSE)
  <2>1. PICK s : s = <<"s", "r", "r">>
    OBVIOUS
  <2>2. s \in Seq({"s", "r", "t"}) /\ s # <<>>
    BY <2>1
  <2>3. KeepsTo(Loop(s, {"data"}, "demand", Items), {"data"}, {"demand"}, {"demand"}, FALSE)
    BY <2>2, LoopKeeps
  <2>4. KeepsTo(Close("demand"), {"data"}, {"demand"}, {"demand"}, FALSE)
    BY CloseKeeps
  <2> QED BY <2>1, <2>3, <2>4, CodedTwo DEF Credit
<1> HIDE DEF R, W, D, cap, code
<1>6. AllCoded(code, R, W, D, {})
  BY <1>2, <1>4, <1>5 DEF AllCoded
<1> QED BY <1>1, <1>3, <1>6, CodedTame DEF cap, code

\* spawn_channel: two producers, gathered.
LEMMA GatheredMpscTame == Tame(GatheredMpsc.cap, GatheredMpsc.code)
<1> DEFINE R == [p1 |-> {}, p2 |-> {}, closer |-> {}, consumer |-> {"c"}]
           W == [p1 |-> {"c"}, p2 |-> {"c"}, closer |-> {}, consumer |-> {}]
           D == [p1 |-> {}, p2 |-> {}, closer |-> {"c"}, consumer |-> {}]
           L == {}
           cap == GatheredMpsc.cap
           code == GatheredMpsc.code
<1>1. DOMAIN cap = {"c"} /\ \A c \in DOMAIN cap : cap[c] \in Nat
  BY ChannelConstants DEF GatheredMpsc, Mpsc
<1>2. DOMAIN code = {"p1", "p2", "closer", "consumer"}
  BY DEF GatheredMpsc, Mpsc
<1>3. Wired(DOMAIN code, DOMAIN cap, R, W, D, L)
  BY <1>1, <1>2 DEF Wired
<1>4. /\ Coded(code["p1"], R["p1"], W["p1"], D["p1"], FALSE)
      /\ Coded(code["p2"], R["p2"], W["p2"], D["p2"], FALSE)
      /\ Coded(code["closer"], R["closer"], W["closer"], D["closer"], FALSE)
      /\ Coded(code["consumer"], R["consumer"], W["consumer"], D["consumer"], FALSE)
  BY CodedOne, CodedTwo, CodedAppend, SendAllKeeps, TakeKeeps, CloseKeeps, OtherPhases
       DEF GatheredMpsc, Mpsc
<1> HIDE DEF R, W, D, cap, code
<1>5. AllCoded(code, R, W, D, L)
  BY <1>2, <1>4 DEF AllCoded
<1> QED BY <1>1, <1>3, <1>5, CodedTame DEF cap, code

\* spawn_channel: the sum.
LEMMA ChannelSumTame == Tame(ChannelSum.cap, ChannelSum.code)
<1> DEFINE R == [producer |-> {}, consumer |-> {"c"}]
           W == [producer |-> {"c"}, consumer |-> {}]
           D == [producer |-> {"c"}, consumer |-> {}]
           L == {}
           cap == ChannelSum.cap
           code == ChannelSum.code
<1>1. DOMAIN cap = {"c"} /\ \A c \in DOMAIN cap : cap[c] \in Nat
  BY ChannelConstants DEF ChannelSum, CloseAndRange
<1>2. DOMAIN code = {"producer", "consumer"}
  BY DEF ChannelSum, CloseAndRange
<1>3. Wired(DOMAIN code, DOMAIN cap, R, W, D, L)
  BY <1>1, <1>2 DEF Wired
<1>4. /\ Coded(code["producer"], R["producer"], W["producer"], D["producer"], FALSE)
      /\ Coded(code["consumer"], R["consumer"], W["consumer"], D["consumer"], FALSE)
  BY CodedOne, CodedTwo, CodedAppend, SendAllKeeps, TakeKeeps, CloseKeeps, OtherPhases
       DEF ChannelSum, CloseAndRange
<1> HIDE DEF R, W, D, cap, code
<1>5. AllCoded(code, R, W, D, L)
  BY <1>2, <1>4 DEF AllCoded
<1> QED BY <1>1, <1>3, <1>5, CodedTame DEF cap, code

\* spawn_channel: the worker pool of main().
LEMMA MainPoolTame == Tame(MainPool.cap, MainPool.code)
<1> DEFINE R == [main |-> {"results"}, w1 |-> {"jobs"}, w2 |-> {"jobs"}]
           W == [main |-> {"jobs"}, w1 |-> {"results"}, w2 |-> {"results"}]
           D == [main |-> {"jobs", "results"}, w1 |-> {}, w2 |-> {}]
           L == {"w1", "w2"}
           cap == MainPool.cap
           code == MainPool.code
<1>1. DOMAIN cap = {"jobs", "results"} /\ \A c \in DOMAIN cap : cap[c] \in Nat
  BY ChannelConstants DEF MainPool, ResultsCapacity
<1>2. DOMAIN code = {"main", "w1", "w2"}
  BY DEF MainPool, ResultsCapacity
<1>3. Wired(DOMAIN code, DOMAIN cap, R, W, D, L)
  BY <1>1, <1>2 DEF Wired
<1>4. Coded(code["main"], R["main"], W["main"], D["main"], FALSE)
  BY CodedOne, CodedFive, SendAllKeeps, RelayKeeps, TakeKeeps, CloseKeeps, OtherPhases
       DEF MainPool, ResultsCapacity
<1>5. /\ Coded(code["w1"], R["w1"], W["w1"], D["w1"], TRUE)
      /\ Coded(code["w2"], R["w2"], W["w2"], D["w2"], TRUE)
  BY CodedOne, CodedFive, SendAllKeeps, RelayKeeps, TakeKeeps, CloseKeeps, OtherPhases
       DEF MainPool, ResultsCapacity
<1> HIDE DEF R, W, D, cap, code
<1>6. AllCoded(code, R, W, D, L)
  BY <1>2, <1>4, <1>5 DEF AllCoded
<1> QED BY <1>1, <1>3, <1>6, CodedTame DEF cap, code

\* What a select has to be like.
LossyFits(ph) == ph.lossy => ph.pattern = <<"r">> /\ ph.until = {}

LEMMA ReadingFits ==
  ASSUME NEW R, NEW W, NEW r, NEW ph, NEW pattern \in Seq({"s", "r", "t"}), pattern # <<>>,
         \A k \in DOMAIN pattern : pattern[k] # "s",
         ph.pattern = pattern, ph.in \in SUBSET R, \A k \in DOMAIN ph.chain : ph.chain[k] \in R,
         ~ph.relay, ph.prime = 0, LossyFits(ph)
  PROVE  FitsLoop(ph, R, W, r)
<1>1. ~\E k \in DOMAIN ph.pattern : ph.pattern[k] = "s"
  OBVIOUS
<1>2. ph.pattern # <<>> /\ ph.pattern \in Seq({"s", "r", "t"})
  OBVIOUS
<1>3. ph.prime > 0 => ph.relay /\ ph.n = Forever
  OBVIOUS
<1>4. ph.relay => ph.pattern = <<"r", "s">>
  OBVIOUS
<1>5. ph.lossy => ph.pattern = <<"r">> /\ ph.until = {}
  BY DEF LossyFits
<1> QED BY <1>1, <1>2, <1>3, <1>4, <1>5 DEF FitsLoop

LEMMA WideFits ==
  ASSUME NEW R, NEW W, NEW C, NEW r, NEW in \in SUBSET R, NEW n, NEW ph,
         ph = Select(in, n) \/ ph = Race(in, n)
  PROVE  FitsPhase(ph, R, W, C, r)
<1>1. PICK pattern : pattern = <<"r">>
  OBVIOUS
<1>2. pattern \in Seq({"s", "r", "t"}) /\ pattern # <<>>
        /\ \A k \in DOMAIN pattern : pattern[k] # "s"
  BY <1>1, PatternFacts
<1>3. /\ ph.op = "loop" /\ ph.pattern = pattern /\ ph.in = in /\ ph.chain = <<>> /\ ~ph.relay
      /\ ph.prime = 0 /\ ph.until = {}
  <2>1. LET x == Loop(pattern, in, "", n)
        IN  /\ x.op = "loop" /\ x.pattern = pattern /\ x.in = in /\ x.chain = <<>> /\ ~x.relay
            /\ x.prime = 0 /\ x.until = {}
    BY DEF Loop
  <2>2. LET y == [Loop(pattern, in, "", n) EXCEPT !.lossy = TRUE]
        IN  /\ y.op = "loop" /\ y.pattern = pattern /\ y.in = in /\ y.chain = <<>> /\ ~y.relay
            /\ y.prime = 0 /\ y.until = {}
    BY DEF Loop
  <2> QED BY <1>1, <2>1, <2>2 DEF Select, Race
<1>4. LossyFits(ph)
  <2>1. ph.pattern = <<"r">>
    BY <1>1, <1>3
  <2> QED BY <2>1, <1>3 DEF LossyFits
<1>5. \A e, k : e = <<>> /\ k \in DOMAIN e => e[k] \in R
  OBVIOUS
<1>6. \A k \in DOMAIN ph.chain : ph.chain[k] \in R
  BY <1>3, <1>5
<1>7. FitsLoop(ph, R, W, r)
  BY <1>2, <1>3, <1>4, <1>6, ReadingFits
<1> QED BY <1>3, <1>7 DEF FitsPhase

LEMMA FormedOne ==
  ASSUME NEW a, NEW R, NEW W, NEW C, NEW r, FitsPhase(a, R, W, C, r)
  PROVE  Formed(<<a>>, R, W, C, r)
<1>1. PICK S : S = {a}
  OBVIOUS
<1>2. PICK code : code = <<a>>
  OBVIOUS
<1>3. code \in Seq(S) /\ \A ph \in S : FitsPhase(ph, R, W, C, r)
  BY <1>1, <1>2
<1> QED BY <1>2, <1>3, FormedSeq

LEMMA TimeoutSound == Sound(Timeout.cap, Timeout.code)
<1> DEFINE R == [clock |-> {}, demo |-> {"quiet", "deadline"}]
           W == [clock |-> {"deadline"}, demo |-> {}]
           D == [clock |-> {}, demo |-> {}]
           cap == Timeout.cap
           code == Timeout.code
<1>1. DOMAIN cap = {"quiet", "deadline"} /\ \A c \in DOMAIN cap : cap[c] \in Nat
  BY DEF Timeout
<1>2. DOMAIN code = {"clock", "demo"}
  BY DEF Timeout
<1>open. \A p \in DOMAIN code : D[p] = {}
  BY <1>2
<1>3. Wired(DOMAIN code, DOMAIN cap, R, W, D, {})
  BY <1>1, <1>2 DEF Wired
<1>4. Formed(code["clock"], R["clock"], W["clock"], D["clock"], FALSE)
  BY CodedOne, CodedIsFormed, SendAllKeeps DEF Timeout
<1>5. Formed(code["demo"], R["demo"], W["demo"], D["demo"], FALSE)
  BY FormedOne, WideFits DEF Timeout
<1> HIDE DEF R, W, D, cap, code
<1>6. AllFormed(code, R, W, D, {})
  BY <1>2, <1>4, <1>5 DEF AllFormed
<1> QED BY <1>open, <1>1, <1>3, <1>6, FormedSound DEF cap, code

LEMMA SelectTwoSound == Sound(SelectTwo.cap, SelectTwo.code)
<1> DEFINE R == [tick |-> {}, tock |-> {}, loop |-> {"fast", "slow"}]
           W == [tick |-> {"fast"}, tock |-> {"slow"}, loop |-> {}]
           D == [tick |-> {}, tock |-> {}, loop |-> {}]
           cap == SelectTwo.cap
           code == SelectTwo.code
<1>1. DOMAIN cap = {"fast", "slow"} /\ \A c \in DOMAIN cap : cap[c] \in Nat
  BY DEF SelectTwo
<1>2. DOMAIN code = {"tick", "tock", "loop"}
  BY DEF SelectTwo
<1>open. \A p \in DOMAIN code : D[p] = {}
  BY <1>2
<1>3. Wired(DOMAIN code, DOMAIN cap, R, W, D, {})
  BY <1>1, <1>2 DEF Wired
<1>4. /\ Formed(code["tick"], R["tick"], W["tick"], D["tick"], FALSE)
      /\ Formed(code["tock"], R["tock"], W["tock"], D["tock"], FALSE)
  BY CodedOne, CodedIsFormed, SendAllKeeps DEF SelectTwo
<1>5. Formed(code["loop"], R["loop"], W["loop"], D["loop"], FALSE)
  BY FormedOne, WideFits DEF SelectTwo
<1> HIDE DEF R, W, D, cap, code
<1>6. AllFormed(code, R, W, D, {})
  BY <1>2, <1>4, <1>5 DEF AllFormed
<1> QED BY <1>open, <1>1, <1>3, <1>6, FormedSound DEF cap, code

LEMMA RaceTwoTame == Tame(RaceTwo.cap, RaceTwo.code)
<1> DEFINE R == [f1 |-> {}, f2 |-> {}, main |-> {"fast", "slow"}]
           W == [f1 |-> {"fast"}, f2 |-> {"slow"}, main |-> {}]
           D == [f1 |-> {}, f2 |-> {}, main |-> {"fast", "slow"}]
           cap == RaceTwo.cap
           code == RaceTwo.code
<1>1. DOMAIN cap = {"fast", "slow"} /\ \A c \in DOMAIN cap : cap[c] \in Nat
  BY DEF RaceTwo
<1>2. DOMAIN code = {"f1", "f2", "main"}
  BY DEF RaceTwo
<1>3. Wired(DOMAIN code, DOMAIN cap, R, W, D, {})
  BY <1>1, <1>2 DEF Wired
<1>4. /\ Formed(code["f1"], R["f1"], W["f1"], D["f1"], FALSE)
      /\ Formed(code["f2"], R["f2"], W["f2"], D["f2"], FALSE)
  BY CodedOne, CodedIsFormed, SendAllKeeps DEF RaceTwo
<1>5. Formed(code["main"], R["main"], W["main"], D["main"], FALSE)
  <2>1. PICK S : S = {Race({"fast", "slow"}, 2 * Items), Join({"f1", "f2"}), Close("fast"), Close("slow")}
    OBVIOUS
  <2>2. PICK u : u = code["main"]
    OBVIOUS
  <2>3. u \in Seq(S)
    <3>1. PICK a : a = Race({"fast", "slow"}, 2 * Items)
      OBVIOUS
    <3>2. u = <<a, Join({"f1", "f2"}), Close("fast"), Close("slow")>>
      BY <2>2, <3>1 DEF RaceTwo
    <3> HIDE DEF code
    <3>3. <<a, Join({"f1", "f2"}), Close("fast"), Close("slow")>> \in Seq(S)
      BY <2>1, <3>1
    <3> QED BY <3>2, <3>3
  <2>4. \A ph \in S : FitsPhase(ph, {"fast", "slow"}, {}, {"fast", "slow"}, FALSE)
    <3>1. FitsPhase(Race({"fast", "slow"}, 2 * Items), {"fast", "slow"}, {}, {"fast", "slow"}, FALSE)
      BY WideFits
    <3>2. /\ FitsPhase(Join({"f1", "f2"}), {"fast", "slow"}, {}, {"fast", "slow"}, FALSE)
          /\ FitsPhase(Close("fast"), {"fast", "slow"}, {}, {"fast", "slow"}, FALSE)
          /\ FitsPhase(Close("slow"), {"fast", "slow"}, {}, {"fast", "slow"}, FALSE)
      BY DEF FitsPhase, Join, Close
    <3> QED BY <3>1, <3>2, <2>1
  <2>5. Formed(u, {"fast", "slow"}, {}, {"fast", "slow"}, FALSE)
    BY <2>3, <2>4, FormedSeq
  <2> QED BY <2>2, <2>5
<1>6. \A p, q \in DOMAIN code : p # q => D[p] \cap R[q] = {}
  BY <1>2
<1> HIDE DEF R, W, D, cap, code
<1>7. AllFormed(code, R, W, D, {})
  BY <1>2, <1>4, <1>5 DEF AllFormed
<1> QED BY <1>1, <1>3, <1>6, <1>7, FormedTame DEF cap, code

LEMMA EchoTcpTame == Tame(EchoTcp.cap, EchoTcp.code)
<1> DEFINE R == [handshake |-> {}, server |-> {"there"}, client |-> {"back"}]
           W == [handshake |-> {}, server |-> {"back"}, client |-> {"there"}]
           D == [handshake |-> {}, server |-> {"back"}, client |-> {"there"}]
           L == {"server"}
           cap == EchoTcp.cap
           code == EchoTcp.code
<1>1. DOMAIN cap = {"there", "back"} /\ \A c \in DOMAIN cap : cap[c] \in Nat
  BY ChannelConstants DEF EchoTcp
<1>2. DOMAIN code = {"handshake", "server", "client"}
  BY DEF EchoTcp
<1>3. Wired(DOMAIN code, DOMAIN cap, R, W, D, L)
  BY <1>1, <1>2 DEF Wired
<1>4. Coded(code["handshake"], R["handshake"], W["handshake"], D["handshake"], FALSE)
  BY CodedOne, TicksKeep DEF EchoTcp
<1>5. Coded(code["client"], R["client"], W["client"], D["client"], FALSE)
  <2>1. Coded(<<Connected>>, {"back"}, {"there"}, {"there"}, FALSE)
    BY CodedOne, OtherPhases DEF Connected
  <2>2. Coded(EchoClient, {"back"}, {"there"}, {"there"}, FALSE)
    BY CodedThree, SendAllKeeps, TakeKeeps, CloseKeeps DEF EchoClient
  <2>3. Coded(<<Connected>> \o EchoClient, {"back"}, {"there"}, {"there"}, FALSE)
    BY <2>1, <2>2, CodedConcat
  <2> QED BY <2>3 DEF EchoTcp
<1>6. Coded(code["server"], R["server"], W["server"], D["server"], TRUE)
  <2>1. Coded(<<Connected>>, {"there"}, {"back"}, {"back"}, TRUE)
    BY CodedOne, OtherPhases DEF Connected
  <2>2. Coded(EchoSession, {"there"}, {"back"}, {"back"}, TRUE)
    BY CodedTwo, RelayKeeps, CloseKeeps DEF EchoSession
  <2>3. Coded(<<Connected>> \o EchoSession, {"there"}, {"back"}, {"back"}, TRUE)
    BY <2>1, <2>2, CodedConcat
  <2> QED BY <2>3 DEF EchoTcp
<1> HIDE DEF R, W, D, cap, code
<1>7. AllCoded(code, R, W, D, L)
  BY <1>2, <1>4, <1>5, <1>6 DEF AllCoded
<1> QED BY <1>1, <1>3, <1>7, CodedTame DEF cap, code

\* csp_sieve: the chain of filters.
LEMMA LinkFacts ==
  /\ 1 \in DOMAIN Link
  /\ \A k \in Filters : k \in Nat \ {0} /\ k \in DOMAIN Link /\ k + 1 \in DOMAIN Link
  /\ \A j, k \in DOMAIN Link : Link[j] = Link[k] => j = k
  /\ SieveLimit - 1 \in Nat
<1>1. SieveLimit \in Nat /\ SieveLimit > 5
  BY ChannelConstants DEF SieveLimit
<1>2. PICK n : n = (SieveLimit + 1) \div 2
  OBVIOUS
<1>3. n \in Nat /\ n > 0
  BY <1>1, <1>2
<1>4. Filters = 1..n /\ Link = [k \in 1..(n + 1) |-> <<"link", k>>]
  BY <1>2 DEF Filters, Link
<1>5. 1 \in DOMAIN Link /\ \A k \in Filters : k \in Nat \ {0} /\ k \in DOMAIN Link
        /\ k + 1 \in DOMAIN Link
  BY <1>3, <1>4
<1>6. \A j, k \in DOMAIN Link : Link[j] = Link[k] => j = k
  BY <1>4
<1> QED BY <1>1, <1>5, <1>6

LEMMA SieveTame == Tame(PrimeSieve.cap, PrimeSieve.code)
<1> DEFINE sieve == <<"sieve", 0>>
           generate == <<"generate", 0>>
           filters == {"filter"} \X Filters
           P == {sieve, generate} \cup filters
           Links == {Link[k] : k \in DOMAIN Link}
           R == [p \in P |-> IF p = sieve THEN Links ELSE IF p = generate THEN {} ELSE {Link[p[2]]}]
           W == [p \in P |-> IF p = sieve THEN {}
                             ELSE IF p = generate THEN {Link[1]} ELSE {Link[p[2] + 1]}]
           cap == PrimeSieve.cap
           code == PrimeSieve.code
<1>1. DOMAIN cap = Links /\ \A c \in DOMAIN cap : cap[c] \in Nat
  BY DEF PrimeSieve
<1>2. DOMAIN code = P
  BY DEF PrimeSieve, :>, @@
<1>3. sieve # generate /\ sieve \notin filters /\ generate \notin filters
  OBVIOUS
<1>4. \A p \in filters : p[1] = "filter" /\ p[2] \in Filters /\ p = <<"filter", p[2]>>
  OBVIOUS
<1>5. /\ R[sieve] = Links /\ W[sieve] = {} /\ R[generate] = {} /\ W[generate] = {Link[1]}
      /\ \A p \in filters : R[p] = {Link[p[2]]} /\ W[p] = {Link[p[2] + 1]}
  BY <1>3
<1>6. AllCoded(code, R, W, W, filters)
  <2>1. Coded(<<Sieve>>, Links, {}, {}, FALSE)
    <3>1. PICK pattern : pattern = <<"r">>
      OBVIOUS
    <3>2. pattern \in Seq({"s", "r", "t"}) /\ pattern # <<>>
            /\ \A k \in DOMAIN pattern : pattern[k] # "s"
      BY <3>1, PatternFacts
    <3>3. PICK ph : ph = Sieve
      OBVIOUS
    <3>4. LET y == [Loop(pattern, {}, "", Forever) EXCEPT !.chain = Link]
          IN  /\ y.op = "loop" /\ y.pattern = pattern /\ y.in = {} /\ y.chain = Link /\ ~y.relay
              /\ y.prime = 0 /\ ~y.lossy
      BY DEF Loop
    <3>5. /\ ph.op = "loop" /\ ph.pattern = pattern /\ ph.in = {} /\ ph.chain = Link /\ ~ph.relay
          /\ ph.prime = 0 /\ ~ph.lossy
      BY <3>1, <3>3, <3>4 DEF Sieve
    <3>6. LossyFits(ph)
      BY <3>5 DEF LossyFits
    <3>7. \A k \in DOMAIN ph.chain : ph.chain[k] \in Links
      BY <3>5
    <3> HIDE DEF Links
    <3>8. FitsLoop(ph, Links, {}, FALSE)
      BY <3>2, <3>5, <3>6, <3>7, ReadingFits
    <3>9. KeepsTo(ph, Links, {}, {}, FALSE)
      BY <3>5, <3>8 DEF KeepsTo, FitsPhase, SoloPhase
    <3> QED BY <3>3, <3>9, CodedOne
  <2>2. Coded(<<SendAll(Link[1], SieveLimit - 1), Close(Link[1])>>, {}, {Link[1]}, {Link[1]}, FALSE)
    BY CodedTwo, SendAllKeeps, CloseKeeps
  <2>3. ASSUME NEW k \in Filters
        PROVE  Coded(Filter(k), {Link[k]}, {Link[k + 1]}, {Link[k + 1]}, TRUE)
    <3>1. PICK a : a = Link[k]
      OBVIOUS
    <3>2. PICK b : b = Link[k + 1]
      OBVIOUS
    <3>3. KeepsTo([Relay(a, b, Forever) EXCEPT !.prime = k], {a}, {b}, {b}, TRUE)
      BY RelayKeeps
    <3>4. KeepsTo(Spawned(<<"sieve", 0>>, k), {a}, {b}, {b}, TRUE)
            /\ KeepsTo(Close(b), {a}, {b}, {b}, TRUE)
      BY OtherPhases, CloseKeeps
    <3> QED BY <3>1, <3>2, <3>3, <3>4, CodedThree DEF Filter
  <2>4. /\ code[sieve] = <<Sieve>>
        /\ code[generate] = <<SendAll(Link[1], SieveLimit - 1), Close(Link[1])>>
        /\ \A p \in filters : code[p] = Filter(p[2])
    BY <1>3 DEF PrimeSieve, :>, @@
  <2> HIDE DEF R, W, code, sieve, generate, filters, Links
  <2>5. \A p \in filters : Coded(code[p], R[p], W[p], W[p], TRUE)
    BY <1>4, <1>5, <2>3, <2>4
  <2>6. Coded(code[sieve], R[sieve], W[sieve], W[sieve], FALSE)
    BY <1>5, <2>1, <2>4
  <2>7. Coded(code[generate], R[generate], W[generate], W[generate], FALSE)
    BY <1>5, <2>2, <2>4
  <2> QED BY <1>2, <1>3, <2>5, <2>6, <2>7 DEF AllCoded
<1>7. Wired(DOMAIN code, DOMAIN cap, R, W, W, filters)
  <2>1. 1 \in DOMAIN Link /\ \A p \in filters : p[2] \in DOMAIN Link /\ p[2] + 1 \in DOMAIN Link
    BY <1>4, LinkFacts
  <2> HIDE DEF R, W, cap, code
  <2>2. \A p \in P : R[p] \subseteq Links /\ W[p] \subseteq Links
    BY <1>5, <2>1
  <2>3. \A p, q \in P : \A c, d \in W[p] \cap R[q] : c = d
    BY <1>5
  <2>4. ASSUME NEW p \in filters, NEW v \in P, NEW w \in P, W[v] \cap R[p] # {}, W[w] \cap R[p] # {}
        PROVE  v = w
    <3>1. Link[p[2]] \in W[v] /\ Link[p[2]] \in W[w]
      BY <1>5, <2>4
    <3>2. \A u \in filters : Link[p[2]] \in W[u] => p[2] = u[2] + 1
      BY <1>5, <2>1, LinkFacts
    <3>3. Link[p[2]] \in W[generate] => p[2] = 1
      BY <1>5, <2>1, LinkFacts
    <3>4. \A u \in filters : u[2] \in Nat \ {0}
      BY <1>4, LinkFacts
    <3>5. \A u \in filters : u[2] + 1 # 1
      BY <3>4
    <3>6. \A t, u \in filters : t[2] + 1 = u[2] + 1 => t = u
      BY <1>4, <3>4
    <3> HIDE DEF sieve, generate, filters
    <3>7. v # sieve /\ w # sieve
      BY <1>5, <3>1
    <3>8. CASE v \in filters /\ w \in filters
      BY <3>1, <3>2, <3>6, <3>8
    <3>9. CASE v = generate \/ w = generate
      <4>1. p[2] = 1
        BY <3>1, <3>3, <3>9
      <4>2. v \notin filters /\ w \notin filters
        BY <3>1, <3>2, <3>5, <4>1
      <4> QED BY <3>7, <4>2
    <3> QED BY <3>7, <3>8, <3>9
  <2> QED BY <1>1, <1>2, <2>2, <2>3, <2>4 DEF Wired
<1> HIDE DEF R, W, cap, code
<1> QED BY <1>1, <1>6, <1>7, CodedTame DEF cap, code

-----------------------------------------------------------------------------
(* The programs that close channels do so in order.                        *)

\* Tuples written in two ways.
LEMMA TuplesAppended ==
  ASSUME NEW a, NEW b, NEW c PROVE Append(<<a, b>>, c) = <<a, b, c>>
<1>1. PICK S, t, u : S = {a, b, c} /\ t = <<a, b>> /\ u = <<a, b, c>>
  OBVIOUS
<1>2. t \in Seq(S) /\ c \in S /\ u = Append(t, c)
  BY <1>1
<1> QED BY <1>1, <1>2

LEMMA TuplesJoined ==
  ASSUME NEW i, NEW t, NEW a, NEW b, t = <<a, b>> PROVE <<i>> \o t = <<i, a, b>>
<1>1. PICK S, s, x, y : S = {i, a, b} /\ s = <<i>> /\ x = s \o t /\ y = <<i, a, b>>
  OBVIOUS
<1>2. s \in Seq(S) /\ t \in Seq(S) /\ y \in Seq(S)
  BY <1>1
<1>3. x \in Seq(S) /\ Len(x) = 3 /\ x[1] = i /\ x[2] = a /\ x[3] = b
  BY <1>1, <1>2, ConcatProperties
<1>4. Len(y) = 3 /\ y[1] = i /\ y[2] = a /\ y[3] = b
  BY <1>1, <1>2
<1>5. \A k \in 1..3 : x[k] = y[k]
  BY <1>3, <1>4
<1>6. x = y
  BY <1>2, <1>3, <1>4, <1>5, SeqEqual
<1> QED BY <1>1, <1>6

LEMMA LongTuplesJoined ==
  ASSUME NEW i, NEW t, NEW a, NEW b, NEW c, t = <<a, b, c>> PROVE <<i>> \o t = <<i, a, b, c>>
<1>1. PICK S, s, x, y : S = {i, a, b, c} /\ s = <<i>> /\ x = s \o t /\ y = <<i, a, b, c>>
  OBVIOUS
<1>2. s \in Seq(S) /\ t \in Seq(S) /\ y \in Seq(S)
  BY <1>1
<1>3. x \in Seq(S) /\ Len(x) = 4 /\ x[1] = i /\ x[2] = a /\ x[3] = b /\ x[4] = c
  BY <1>1, <1>2, ConcatProperties
<1>4. Len(y) = 4 /\ y[1] = i /\ y[2] = a /\ y[3] = b /\ y[4] = c
  BY <1>1, <1>2
<1>5. \A k \in 1..4 : x[k] = y[k]
  BY <1>3, <1>4
<1>6. x = y
  BY <1>2, <1>3, <1>4, <1>5, SeqEqual
<1> QED BY <1>1, <1>6

\* csp_channel: the range; spawn_channel: one producer.
LEMMA CloseAndRangeSound == \A n \in Nat : Sound(CloseAndRange(n).cap, CloseAndRange(n).code)
<1> SUFFICES ASSUME NEW n \in Nat PROVE Sound(CloseAndRange(n).cap, CloseAndRange(n).code)
  OBVIOUS
<1> DEFINE D == [producer |-> {"c"}, consumer |-> {}]
           U == [producer |-> {"c"}, consumer |-> {}]
           code == CloseAndRange(n).code
<1>1. DOMAIN code = {"producer", "consumer"}
  BY DEF CloseAndRange
<1>2. Owns(code["producer"], D["producer"], U["producer"])
  <2>1. Owns(<<SendAll("c", Items), Close("c")>>, {} \cup {"c"}, {"c"} \cup {})
    BY PhasesDo, OwnsTwo
  <2> QED BY <2>1 DEF CloseAndRange
<1>3. Owns(code["consumer"], D["consumer"], U["consumer"])
  BY PhasesDo, OwnsOne DEF CloseAndRange
<1>4. \A p, q \in DOMAIN code : p # q => D[p] \cap U[q] = {}
  BY <1>1
<1> HIDE DEF D, U, code
<1>5. AllOwn(code, D, U)
  BY <1>1, <1>2, <1>3 DEF AllOwn
<1>6. Orderly(code, DOMAIN CloseAndRange(n).cap)
  BY <1>4, <1>5, OwnOrderly
<1> QED BY <1>6, CloseAndRangeTame DEF Sound, code

\* csp_duo: alternate_demo.
LEMMA AlternateSound == Sound(Alternate.cap, Alternate.code)
<1> DEFINE D == [odd |-> {}, even |-> {"odd"}]
           U == [odd |-> {"even"}, even |-> {"even", "odd"}]
           code == Alternate.code
<1>1. DOMAIN code = {"odd", "even"}
  BY DEF Alternate
<1>own1. Owns(code["odd"], D["odd"], U["odd"])
  BY PhasesDo, OwnsOne DEF Alternate
<1>own2. Owns(code["even"], D["even"], U["even"])
  <2>1. PICK a, b, c : a = Relay("even", "odd", Items - 1) /\ b = Take("even", 1)
          /\ c = Close("odd")
    OBVIOUS
  <2>2. Does(a, {"even", "odd"}, {}) /\ Does(b, {"even"}, {}) /\ Does(c, {}, {"odd"})
    BY <2>1, PhasesDo
  <2>3. Owns(<<a, b, c>>, {} \cup {} \cup {"odd"}, {"even", "odd"} \cup {"even"} \cup {})
    BY <2>2, OwnsThree
  <2> QED BY <2>1, <2>3 DEF Alternate
<1>2. \A p, q \in DOMAIN code : p # q => D[p] \cap U[q] = {}
  BY <1>1
<1> HIDE DEF D, U, code
<1>3. AllOwn(code, D, U)
  BY <1>1, <1>own1, <1>own2 DEF AllOwn
<1>4. Orderly(code, DOMAIN Alternate.cap)
  BY <1>2, <1>3, OwnOrderly
<1> QED BY <1>4, AlternateTame DEF Sound, code

\* csp_duo: duplex_demo.
LEMMA DuplexSound == Sound(Duplex.cap, Duplex.code)
<1> DEFINE D == [calculator |-> {}, user |-> {"requests"}]
           U == [calculator |-> {"responses"}, user |-> {"requests", "responses"}]
           code == Duplex.code
<1>1. DOMAIN code = {"calculator", "user"}
  BY DEF Duplex
<1>own1. Owns(code["calculator"], D["calculator"], U["calculator"])
  BY PhasesDo, OwnsOne DEF Duplex
<1>own2. Owns(code["user"], D["user"], U["user"])
  <2>1. PICK a, b : a = Ask("requests", "responses", Items) /\ b = Close("requests")
    OBVIOUS
  <2>2. Does(a, {"requests", "responses"}, {}) /\ Does(b, {}, {"requests"})
    BY <2>1, PhasesDo
  <2>3. Owns(<<a, b>>, {} \cup {"requests"}, {"requests", "responses"} \cup {})
    BY <2>2, OwnsTwo
  <2> QED BY <2>1, <2>3 DEF Duplex
<1>2. \A p, q \in DOMAIN code : p # q => D[p] \cap U[q] = {}
  BY <1>1
<1> HIDE DEF D, U, code
<1>3. AllOwn(code, D, U)
  BY <1>1, <1>own1, <1>own2 DEF AllOwn
<1>4. Orderly(code, DOMAIN Duplex.cap)
  BY <1>2, <1>3, OwnOrderly
<1> QED BY <1>4, DuplexTame DEF Sound, code

\* actor_pool.
LEMMA PoolSound == Sound(Pool.cap, Pool.code)
<1> DEFINE D == [dispatcher |-> {"jobs"}, w1 |-> {}, w2 |-> {}, w3 |-> {}, collector |-> {}]
           U == [dispatcher |-> {"jobs"},
                 w1 |-> {"results"},
                 w2 |-> {"results"},
                 w3 |-> {"results"},
                 collector |-> {"results"}]
           code == Pool.code
<1>1. DOMAIN code = {"dispatcher", "w1", "w2", "w3", "collector"}
  BY DEF Pool, Collector
<1>own1. Owns(code["dispatcher"], D["dispatcher"], U["dispatcher"])
  <2>1. PICK a, b : a = SendAll("jobs", Items) /\ b = Close("jobs")
    OBVIOUS
  <2>2. Does(a, {"jobs"}, {}) /\ Does(b, {}, {"jobs"})
    BY <2>1, PhasesDo
  <2>3. Owns(<<a, b>>, {} \cup {"jobs"}, {"jobs"} \cup {})
    BY <2>2, OwnsTwo
  <2> QED BY <2>1, <2>3 DEF Pool, Collector
<1>own2. Owns(code["w1"], D["w1"], U["w1"])
  BY PhasesDo, OwnsOne DEF Pool, Collector
<1>own3. Owns(code["w2"], D["w2"], U["w2"])
  BY PhasesDo, OwnsOne DEF Pool, Collector
<1>own4. Owns(code["w3"], D["w3"], U["w3"])
  BY PhasesDo, OwnsOne DEF Pool, Collector
<1>own5. Owns(code["collector"], D["collector"], U["collector"])
  BY PhasesDo, OwnsOne DEF Pool, Collector
<1>2. \A p, q \in DOMAIN code : p # q => D[p] \cap U[q] = {}
  BY <1>1
<1> HIDE DEF D, U, code
<1>3. AllOwn(code, D, U)
  BY <1>1, <1>own1, <1>own2, <1>own3, <1>own4, <1>own5 DEF AllOwn
<1>4. Orderly(code, DOMAIN Pool.cap)
  BY <1>2, <1>3, OwnOrderly
<1> QED BY <1>4, PoolTame DEF Sound, code

\* actor_pipeline.
LEMMA PipelineSound == Sound(Pipeline.cap, Pipeline.code)
<1> DEFINE D == [producer |-> {"stage1"}, square |-> {"stage2"}, sink |-> {}]
           U == [producer |-> {"stage1"}, square |-> {"stage2"}, sink |-> {}]
           code == Pipeline.code
<1>1. DOMAIN code = {"producer", "square", "sink"}
  BY DEF Pipeline
<1>own1. Owns(code["producer"], D["producer"], U["producer"])
  <2>1. PICK a, b : a = SendAll("stage1", Items) /\ b = Close("stage1")
    OBVIOUS
  <2>2. Does(a, {"stage1"}, {}) /\ Does(b, {}, {"stage1"})
    BY <2>1, PhasesDo
  <2>3. Owns(<<a, b>>, {} \cup {"stage1"}, {"stage1"} \cup {})
    BY <2>2, OwnsTwo
  <2> QED BY <2>1, <2>3 DEF Pipeline
<1>own2. Owns(code["square"], D["square"], U["square"])
  <2>1. PICK a, b : a = Relay("stage1", "stage2", Forever) /\ b = Close("stage2")
    OBVIOUS
  <2>2. Does(a, {"stage2"}, {}) /\ Does(b, {}, {"stage2"})
    BY <2>1, PhasesDo
  <2>3. Owns(<<a, b>>, {} \cup {"stage2"}, {"stage2"} \cup {})
    BY <2>2, OwnsTwo
  <2> QED BY <2>1, <2>3 DEF Pipeline
<1>own3. Owns(code["sink"], D["sink"], U["sink"])
  BY PhasesDo, OwnsOne DEF Pipeline
<1>2. \A p, q \in DOMAIN code : p # q => D[p] \cap U[q] = {}
  BY <1>1
<1> HIDE DEF D, U, code
<1>3. AllOwn(code, D, U)
  BY <1>1, <1>own1, <1>own2, <1>own3 DEF AllOwn
<1>4. Orderly(code, DOMAIN Pipeline.cap)
  BY <1>2, <1>3, OwnOrderly
<1> QED BY <1>4, PipelineTame DEF Sound, code

\* spawn_channel: pipeline_demo.
LEMMA LongPipelineSound == Sound(LongPipeline.cap, LongPipeline.code)
<1> DEFINE D == [gen |-> {"nums"}, square |-> {"squares"}, format |-> {"lines"}, sink |-> {}]
           U == [gen |-> {"nums"}, square |-> {"squares"}, format |-> {"lines"}, sink |-> {}]
           code == LongPipeline.code
<1>1. DOMAIN code = {"gen", "square", "format", "sink"}
  BY DEF LongPipeline
<1>own1. Owns(code["gen"], D["gen"], U["gen"])
  <2>1. PICK a, b : a = SendAll("nums", Items) /\ b = Close("nums")
    OBVIOUS
  <2>2. Does(a, {"nums"}, {}) /\ Does(b, {}, {"nums"})
    BY <2>1, PhasesDo
  <2>3. Owns(<<a, b>>, {} \cup {"nums"}, {"nums"} \cup {})
    BY <2>2, OwnsTwo
  <2> QED BY <2>1, <2>3 DEF LongPipeline
<1>own2. Owns(code["square"], D["square"], U["square"])
  <2>1. PICK a, b : a = Relay("nums", "squares", Forever) /\ b = Close("squares")
    OBVIOUS
  <2>2. Does(a, {"squares"}, {}) /\ Does(b, {}, {"squares"})
    BY <2>1, PhasesDo
  <2>3. Owns(<<a, b>>, {} \cup {"squares"}, {"squares"} \cup {})
    BY <2>2, OwnsTwo
  <2> QED BY <2>1, <2>3 DEF LongPipeline
<1>own3. Owns(code["format"], D["format"], U["format"])
  <2>1. PICK a, b : a = Relay("squares", "lines", Forever) /\ b = Close("lines")
    OBVIOUS
  <2>2. Does(a, {"lines"}, {}) /\ Does(b, {}, {"lines"})
    BY <2>1, PhasesDo
  <2>3. Owns(<<a, b>>, {} \cup {"lines"}, {"lines"} \cup {})
    BY <2>2, OwnsTwo
  <2> QED BY <2>1, <2>3 DEF LongPipeline
<1>own4. Owns(code["sink"], D["sink"], U["sink"])
  BY PhasesDo, OwnsOne DEF LongPipeline
<1>2. \A p, q \in DOMAIN code : p # q => D[p] \cap U[q] = {}
  BY <1>1
<1> HIDE DEF D, U, code
<1>3. AllOwn(code, D, U)
  BY <1>1, <1>own1, <1>own2, <1>own3, <1>own4 DEF AllOwn
<1>4. Orderly(code, DOMAIN LongPipeline.cap)
  BY <1>2, <1>3, OwnOrderly
<1> QED BY <1>4, LongPipelineTame DEF Sound, code

\* csp_select: the done channel.
LEMMA DoneChannelSound == Sound(DoneChannel.cap, DoneChannel.code)
<1> DEFINE D == [w1 |-> {}, w2 |-> {}, closer |-> {"done"}]
           U == [w1 |-> {}, w2 |-> {}, closer |-> {}]
           code == DoneChannel.code
<1>1. DOMAIN code = {"w1", "w2", "closer"}
  BY DEF DoneChannel
<1>own1. Owns(code["w1"], D["w1"], U["w1"])
  BY PhasesDo, OwnsOne DEF DoneChannel
<1>own2. Owns(code["w2"], D["w2"], U["w2"])
  BY PhasesDo, OwnsOne DEF DoneChannel
<1>own3. Owns(code["closer"], D["closer"], U["closer"])
  BY PhasesDo, OwnsOne DEF DoneChannel
<1>2. \A p, q \in DOMAIN code : p # q => D[p] \cap U[q] = {}
  BY <1>1
<1> HIDE DEF D, U, code
<1>3. AllOwn(code, D, U)
  BY <1>1, <1>own1, <1>own2, <1>own3 DEF AllOwn
<1>4. Orderly(code, DOMAIN DoneChannel.cap)
  BY <1>2, <1>3, OwnOrderly
<1> QED BY <1>4, DoneChannelTame DEF Sound, code

\* csp_fanin.
LEMMA FanInSound == Sound(FanIn.cap, FanIn.code)
<1> DEFINE D == [dispatcher |-> {"jobs"},
                 w1 |-> {},
                 w2 |-> {},
                 closer |-> {"merged"},
                 consumer |-> {}]
           U == [dispatcher |-> {"jobs"},
                 w1 |-> {"merged"},
                 w2 |-> {"merged"},
                 closer |-> {},
                 consumer |-> {}]
           code == FanIn.code
<1>1. DOMAIN code = {"dispatcher", "w1", "w2", "closer", "consumer"}
  BY DEF FanIn, FanInWorker
<1>own1. Owns(code["dispatcher"], D["dispatcher"], U["dispatcher"])
  <2>1. PICK a, b : a = SendAll("jobs", Items) /\ b = Close("jobs")
    OBVIOUS
  <2>2. Does(a, {"jobs"}, {}) /\ Does(b, {}, {"jobs"})
    BY <2>1, PhasesDo
  <2>3. Owns(<<a, b>>, {} \cup {"jobs"}, {"jobs"} \cup {})
    BY <2>2, OwnsTwo
  <2> QED BY <2>1, <2>3 DEF FanIn, FanInWorker
<1>own2. Owns(code["w1"], D["w1"], U["w1"])
  BY PhasesDo, OwnsOne DEF FanIn, FanInWorker
<1>own3. Owns(code["w2"], D["w2"], U["w2"])
  BY PhasesDo, OwnsOne DEF FanIn, FanInWorker
<1>own4. Owns(code["closer"], D["closer"], U["closer"])
  <2>1. PICK a, b : a = Join({"w1", "w2"}) /\ b = Close("merged")
    OBVIOUS
  <2>2. Does(a, {}, {}) /\ Does(b, {}, {"merged"})
    BY <2>1, PhasesDo
  <2>3. Owns(<<a, b>>, {} \cup {"merged"}, {} \cup {})
    BY <2>2, OwnsTwo
  <2> QED BY <2>1, <2>3 DEF FanIn, FanInWorker
<1>own5. Owns(code["consumer"], D["consumer"], U["consumer"])
  BY PhasesDo, OwnsOne DEF FanIn, FanInWorker
<1>2. \A p, q \in DOMAIN code : \A c \in D[p] \cap U[q] :
        p # q => p = "closer" /\ c \in {"merged"} /\ q \in {"w1", "w2"}
  BY <1>1
<1>3. Steady(code["closer"]) /\ \A k \in DOMAIN code["closer"] : \A c \in {"merged"} :
        Closes(code["closer"][k], c) => \A q \in {"w1", "w2"} : Awaited(code["closer"], k, q)
  <2>1. PICK a, b, u :
          u = code["closer"] /\ a = Join({"w1", "w2"}) /\ b = Close("merged")
    OBVIOUS
  <2>2. a.op = "join" /\ a.procs = {"w1", "w2"} /\ b.op = "close" /\ b.chan = "merged"
    BY <2>1 DEF Join, Close, SendAll, Take, Race, Loop
  <2>3. u = <<a, b>>
    BY <2>1 DEF FanIn
  <2>4. DOMAIN u = 1..2 /\ u[1] = a /\ u[2] = b
    BY <2>3
  <2>5. Steady(u)
    BY <2>2, <2>4 DEF Steady
  <2>6. \A k \in DOMAIN u : \A c \in {"merged"} : Closes(u[k], c) => k = 2
    BY <2>2, <2>4 DEF Closes
  <2>7. \A q \in {"w1", "w2"} : Awaited(u, 2, q)
    BY <2>2, <2>4 DEF Awaited
  <2> QED BY <2>1, <2>5, <2>6, <2>7
<1> HIDE DEF D, U, code
<1>4. AllOwn(code, D, U)
  BY <1>1, <1>own1, <1>own2, <1>own3, <1>own4, <1>own5 DEF AllOwn
<1>5. Foreign(code, DOMAIN FanIn.cap, D, U)
  BY <1>2, <1>3 DEF Foreign, Precedes
<1>6. Orderly(code, DOMAIN FanIn.cap)
  BY <1>4, <1>5, OrderlyBy
<1> QED BY <1>6, FanInTame DEF Sound, code

\* spawn_channel: worker_pool_demo.
LEMMA MainPoolSound == Sound(MainPool.cap, MainPool.code)
<1> DEFINE D == [main |-> {"jobs", "results"}, w1 |-> {}, w2 |-> {}]
           U == [main |-> {"jobs", "results"}, w1 |-> {"results"}, w2 |-> {"results"}]
           code == MainPool.code
<1>1. DOMAIN code = {"main", "w1", "w2"}
  BY DEF MainPool
<1>own1. Owns(code["main"], D["main"], U["main"])
  <2>1. PICK a, b, c, d, e : a = SendAll("jobs", Items) /\ b = Close("jobs")
          /\ c = Take("results", Items) /\ d = Join({"w1", "w2"}) /\ e = Close("results")
    OBVIOUS
  <2>2. Does(a, {"jobs"}, {}) /\ Does(b, {}, {"jobs"}) /\ Does(c, {"results"}, {})
          /\ Does(d, {}, {}) /\ Does(e, {}, {"results"})
    BY <2>1, PhasesDo
  <2>3. Owns(<<a, b, c, d, e>>, {} \cup {"jobs"} \cup {} \cup {} \cup {"results"}, {"jobs"} \cup {} \cup {"results"} \cup {} \cup {})
    BY <2>2, OwnsFive
  <2> QED BY <2>1, <2>3 DEF MainPool
<1>own2. Owns(code["w1"], D["w1"], U["w1"])
  BY PhasesDo, OwnsOne DEF MainPool
<1>own3. Owns(code["w2"], D["w2"], U["w2"])
  BY PhasesDo, OwnsOne DEF MainPool
<1>2. \A p, q \in DOMAIN code : \A c \in D[p] \cap U[q] :
        p # q => p = "main" /\ c \in {"results"} /\ q \in {"w1", "w2"}
  BY <1>1
<1>3. Steady(code["main"]) /\ \A k \in DOMAIN code["main"] : \A x \in {"results"} :
        Closes(code["main"][k], x) => \A q \in {"w1", "w2"} : Awaited(code["main"], k, q)
  <2>1. PICK a, b, c, d, e, u :
          u = code["main"] /\ a = SendAll("jobs", Items) /\ b = Close("jobs")
                  /\ c = Take("results", Items) /\ d = Join({"w1", "w2"}) /\ e = Close("results")
    OBVIOUS
  <2>2. a.op = "loop" /\ b.op = "close" /\ b.chan = "jobs" /\ c.op = "loop" /\ d.op = "join"
          /\ d.procs = {"w1", "w2"} /\ e.op = "close" /\ e.chan = "results"
    BY <2>1 DEF Join, Close, SendAll, Take, Race, Loop
  <2>3. u = <<a, b, c, d, e>>
    BY <2>1 DEF MainPool
  <2>4. DOMAIN u = 1..5 /\ u[1] = a /\ u[2] = b /\ u[3] = c /\ u[4] = d /\ u[5] = e
    BY <2>3
  <2>5. Steady(u)
    BY <2>2, <2>4 DEF Steady
  <2>6. \A k \in DOMAIN u : \A x \in {"results"} : Closes(u[k], x) => k = 5
    BY <2>2, <2>4 DEF Closes
  <2>7. \A q \in {"w1", "w2"} : Awaited(u, 5, q)
    BY <2>2, <2>4 DEF Awaited
  <2> QED BY <2>1, <2>5, <2>6, <2>7
<1> HIDE DEF D, U, code
<1>4. AllOwn(code, D, U)
  BY <1>1, <1>own1, <1>own2, <1>own3 DEF AllOwn
<1>5. Foreign(code, DOMAIN MainPool.cap, D, U)
  BY <1>2, <1>3 DEF Foreign, Precedes
<1>6. Orderly(code, DOMAIN MainPool.cap)
  BY <1>4, <1>5, OrderlyBy
<1> QED BY <1>6, MainPoolTame DEF Sound, code

\* csp_mpsc: single_thread_demo.
LEMMA MpscSound == Sound(Mpsc.cap, Mpsc.code)
<1> DEFINE D == [p1 |-> {}, p2 |-> {}, closer |-> {"c"}, consumer |-> {}]
           U == [p1 |-> {"c"}, p2 |-> {"c"}, closer |-> {}, consumer |-> {}]
           code == Mpsc.code
<1>1. DOMAIN code = {"p1", "p2", "closer", "consumer"}
  BY DEF Mpsc
<1>own1. Owns(code["p1"], D["p1"], U["p1"])
  BY PhasesDo, OwnsOne DEF Mpsc
<1>own2. Owns(code["p2"], D["p2"], U["p2"])
  BY PhasesDo, OwnsOne DEF Mpsc
<1>own3. Owns(code["closer"], D["closer"], U["closer"])
  <2>1. PICK a, b : a = Join({"p1", "p2"}) /\ b = Close("c")
    OBVIOUS
  <2>2. Does(a, {}, {}) /\ Does(b, {}, {"c"})
    BY <2>1, PhasesDo
  <2>3. Owns(<<a, b>>, {} \cup {"c"}, {} \cup {})
    BY <2>2, OwnsTwo
  <2> QED BY <2>1, <2>3 DEF Mpsc
<1>own4. Owns(code["consumer"], D["consumer"], U["consumer"])
  BY PhasesDo, OwnsOne DEF Mpsc
<1>2. \A p, q \in DOMAIN code : \A x \in D[p] \cap U[q] :
        p # q => p = "closer" /\ x \in {"c"} /\ q \in {"p1", "p2"}
  BY <1>1
<1>3. Steady(code["closer"]) /\ \A k \in DOMAIN code["closer"] : \A x \in {"c"} :
        Closes(code["closer"][k], x) => \A q \in {"p1", "p2"} : Awaited(code["closer"], k, q)
  <2>1. PICK a, b, u :
          u = code["closer"] /\ a = Join({"p1", "p2"}) /\ b = Close("c")
    OBVIOUS
  <2>2. a.op = "join" /\ a.procs = {"p1", "p2"} /\ b.op = "close" /\ b.chan = "c"
    BY <2>1 DEF Join, Close, SendAll, Take, Race, Loop
  <2>3. u = <<a, b>>
    BY <2>1 DEF Mpsc
  <2>4. DOMAIN u = 1..2 /\ u[1] = a /\ u[2] = b
    BY <2>3
  <2>5. Steady(u)
    BY <2>2, <2>4 DEF Steady
  <2>6. \A k \in DOMAIN u : \A x \in {"c"} : Closes(u[k], x) => k = 2
    BY <2>2, <2>4 DEF Closes
  <2>7. \A q \in {"p1", "p2"} : Awaited(u, 2, q)
    BY <2>2, <2>4 DEF Awaited
  <2> QED BY <2>1, <2>5, <2>6, <2>7
<1> HIDE DEF D, U, code
<1>4. AllOwn(code, D, U)
  BY <1>1, <1>own1, <1>own2, <1>own3, <1>own4 DEF AllOwn
<1>5. Foreign(code, DOMAIN Mpsc.cap, D, U)
  BY <1>2, <1>3 DEF Foreign, Precedes
<1>6. Orderly(code, DOMAIN Mpsc.cap)
  BY <1>4, <1>5, OrderlyBy
<1> QED BY <1>6, MpscTame DEF Sound, code

\* spawn_channel: mpsc_demo.
LEMMA GatheredMpscSound == Sound(GatheredMpsc.cap, GatheredMpsc.code)
<1> DEFINE D == [p1 |-> {}, p2 |-> {}, closer |-> {"c"}, consumer |-> {}]
           U == [p1 |-> {"c"}, p2 |-> {"c"}, closer |-> {}, consumer |-> {}]
           code == GatheredMpsc.code
<1>1. DOMAIN code = {"p1", "p2", "closer", "consumer"}
  BY DEF GatheredMpsc, Mpsc
<1>own1. Owns(code["p1"], D["p1"], U["p1"])
  BY PhasesDo, OwnsOne DEF GatheredMpsc, Mpsc
<1>own2. Owns(code["p2"], D["p2"], U["p2"])
  BY PhasesDo, OwnsOne DEF GatheredMpsc, Mpsc
<1>closer. PICK a, b, c : /\ a = Join({"p1", "p2"}) /\ b = Close("c") /\ c = Join({"consumer"})
                          /\ code["closer"] = <<a, b, c>>
  <2>1. PICK a, b, c : a = Join({"p1", "p2"}) /\ b = Close("c") /\ c = Join({"consumer"})
    OBVIOUS
  <2>2. code["closer"] = Append(<<a, b>>, c)
    BY <2>1 DEF GatheredMpsc, Mpsc
  <2>3. Append(<<a, b>>, c) = <<a, b, c>>
    BY TuplesAppended
  <2> QED BY <2>1, <2>2, <2>3
<1>own3. Owns(code["closer"], D["closer"], U["closer"])
  <2>2. Does(a, {}, {}) /\ Does(b, {}, {"c"}) /\ Does(c, {}, {})
    BY <1>closer, PhasesDo
  <2>3. Owns(<<a, b, c>>, {} \cup {"c"} \cup {}, {} \cup {} \cup {})
    BY <2>2, OwnsThree
  <2> QED BY <1>closer, <2>3
<1>own4. Owns(code["consumer"], D["consumer"], U["consumer"])
  BY PhasesDo, OwnsOne DEF GatheredMpsc, Mpsc
<1>2. \A p, q \in DOMAIN code : \A x \in D[p] \cap U[q] :
        p # q => p = "closer" /\ x \in {"c"} /\ q \in {"p1", "p2"}
  BY <1>1
<1>3. Steady(code["closer"]) /\ \A k \in DOMAIN code["closer"] : \A x \in {"c"} :
        Closes(code["closer"][k], x) => \A q \in {"p1", "p2"} : Awaited(code["closer"], k, q)
  <2>1. PICK u : u = code["closer"]
    OBVIOUS
  <2>2. a.op = "join" /\ a.procs = {"p1", "p2"} /\ b.op = "close" /\ b.chan = "c" /\ c.op = "join"
    BY <1>closer DEF Join, Close
  <2>3. u = <<a, b, c>>
    BY <2>1, <1>closer
  <2>4. DOMAIN u = 1..3 /\ u[1] = a /\ u[2] = b /\ u[3] = c
    BY <2>3
  <2>5. Steady(u)
    BY <2>2, <2>4 DEF Steady
  <2>6. \A k \in DOMAIN u : \A x \in {"c"} : Closes(u[k], x) => k = 2
    BY <2>2, <2>4 DEF Closes
  <2>7. \A q \in {"p1", "p2"} : Awaited(u, 2, q)
    BY <2>2, <2>4 DEF Awaited
  <2> QED BY <2>1, <2>5, <2>6, <2>7
<1> HIDE DEF D, U, code
<1>4. AllOwn(code, D, U)
  BY <1>1, <1>own1, <1>own2, <1>own3, <1>own4 DEF AllOwn
<1>5. Foreign(code, DOMAIN GatheredMpsc.cap, D, U)
  BY <1>2, <1>3 DEF Foreign, Precedes
<1>6. Orderly(code, DOMAIN GatheredMpsc.cap)
  BY <1>4, <1>5, OrderlyBy
<1> QED BY <1>6, GatheredMpscTame DEF Sound, code

\* spawn_channel: select_demo.
LEMMA RaceTwoSound == Sound(RaceTwo.cap, RaceTwo.code)
<1> DEFINE D == [f1 |-> {}, f2 |-> {}, main |-> {"fast", "slow"}]
           U == [f1 |-> {"fast"}, f2 |-> {"slow"}, main |-> {"fast", "slow"}]
           code == RaceTwo.code
<1>1. DOMAIN code = {"f1", "f2", "main"}
  BY DEF RaceTwo
<1>own1. Owns(code["f1"], D["f1"], U["f1"])
  BY PhasesDo, OwnsOne DEF RaceTwo
<1>own2. Owns(code["f2"], D["f2"], U["f2"])
  BY PhasesDo, OwnsOne DEF RaceTwo
<1>own3. Owns(code["main"], D["main"], U["main"])
  <2>1. PICK a, b, c, d : a = Race({"fast", "slow"}, 2 * Items) /\ b = Join({"f1", "f2"})
          /\ c = Close("fast") /\ d = Close("slow")
    OBVIOUS
  <2>2. Does(a, {"fast", "slow"}, {}) /\ Does(b, {}, {}) /\ Does(c, {}, {"fast"})
          /\ Does(d, {}, {"slow"})
    BY <2>1, PhasesDo
  <2>3. Owns(<<a, b, c, d>>, {} \cup {} \cup {"fast"} \cup {"slow"}, {"fast", "slow"} \cup {} \cup {} \cup {})
    BY <2>2, OwnsFour
  <2> QED BY <2>1, <2>3 DEF RaceTwo
<1>2. \A p, q \in DOMAIN code : \A x \in D[p] \cap U[q] :
        p # q => p = "main" /\ x \in {"fast", "slow"} /\ q \in {"f1", "f2"}
  BY <1>1
<1>3. Steady(code["main"]) /\ \A k \in DOMAIN code["main"] : \A x \in {"fast", "slow"} :
        Closes(code["main"][k], x) => \A q \in {"f1", "f2"} : Awaited(code["main"], k, q)
  <2>1. PICK a, b, c, d, u :
          u = code["main"] /\ a = Race({"fast", "slow"}, 2 * Items) /\ b = Join({"f1", "f2"})
                  /\ c = Close("fast") /\ d = Close("slow")
    OBVIOUS
  <2>2. a.op = "loop" /\ b.op = "join" /\ b.procs = {"f1", "f2"} /\ c.op = "close"
          /\ c.chan = "fast" /\ d.op = "close" /\ d.chan = "slow"
    BY <2>1 DEF Join, Close, SendAll, Take, Race, Loop
  <2>3. u = <<a, b, c, d>>
    BY <2>1 DEF RaceTwo
  <2>4. DOMAIN u = 1..4 /\ u[1] = a /\ u[2] = b /\ u[3] = c /\ u[4] = d
    BY <2>3
  <2>5. Steady(u)
    BY <2>2, <2>4 DEF Steady
  <2>6. \A k \in DOMAIN u : \A x \in {"fast", "slow"} : Closes(u[k], x) => k = 3 \/ k = 4
    BY <2>2, <2>4 DEF Closes
  <2>7. \A q \in {"f1", "f2"} : Awaited(u, 3, q) /\ Awaited(u, 4, q)
    BY <2>2, <2>4 DEF Awaited
  <2> QED BY <2>1, <2>5, <2>6, <2>7
<1> HIDE DEF D, U, code
<1>4. AllOwn(code, D, U)
  BY <1>1, <1>own1, <1>own2, <1>own3 DEF AllOwn
<1>5. Foreign(code, DOMAIN RaceTwo.cap, D, U)
  BY <1>2, <1>3 DEF Foreign, Precedes
<1>6. Orderly(code, DOMAIN RaceTwo.cap)
  BY <1>4, <1>5, OrderlyBy
<1> QED BY <1>6, RaceTwoTame DEF Sound, code

\* spawn_channel: channel_sum.
LEMMA ChannelSumSound == Sound(ChannelSum.cap, ChannelSum.code)
<1> DEFINE D == [producer |-> {"c"}, consumer |-> {}]
           U == [producer |-> {"c"}, consumer |-> {}]
           code == ChannelSum.code
<1>1. DOMAIN code = {"producer", "consumer"}
  BY DEF ChannelSum, CloseAndRange
<1>own1. Owns(code["producer"], D["producer"], U["producer"])
  <2>1. PICK a, b : a = SendAll("c", Items) /\ b = Close("c")
    OBVIOUS
  <2>2. Does(a, {"c"}, {}) /\ Does(b, {}, {"c"})
    BY <2>1, PhasesDo
  <2>3. Owns(<<a, b>>, {} \cup {"c"}, {"c"} \cup {})
    BY <2>2, OwnsTwo
  <2> QED BY <2>1, <2>3 DEF ChannelSum, CloseAndRange
<1>own2. Owns(code["consumer"], D["consumer"], U["consumer"])
  <2>1. PICK a, b : a = Drain("c") /\ b = Join({"producer"})
    OBVIOUS
  <2>2. Does(a, {}, {}) /\ Does(b, {}, {})
    BY <2>1, PhasesDo
  <2>3. Owns(<<a, b>>, {} \cup {}, {} \cup {})
    BY <2>2, OwnsTwo
  <2> QED BY <2>1, <2>3 DEF ChannelSum, CloseAndRange
<1>2. \A p, q \in DOMAIN code : p # q => D[p] \cap U[q] = {}
  BY <1>1
<1> HIDE DEF D, U, code
<1>3. AllOwn(code, D, U)
  BY <1>1, <1>own1, <1>own2 DEF AllOwn
<1>4. Orderly(code, DOMAIN ChannelSum.cap)
  BY <1>2, <1>3, OwnOrderly
<1> QED BY <1>4, ChannelSumTame DEF Sound, code

\* csp_duo: credit_demo.
LEMMA CreditSound == Sound(Credit.cap, Credit.code)
<1> DEFINE D == [producer |-> {}, consumer |-> {"demand"}]
           U == [producer |-> {"data"}, consumer |-> {"data", "demand"}]
           code == Credit.code
<1>1. DOMAIN code = {"producer", "consumer"}
  BY DEF Credit
<1>2. ASSUME NEW s, NEW in, NEW out, NEW n, NEW V, in \subseteq V \/ n = Forever, out \in V
      PROVE  Does(Loop(s, in, out, n), V, {})
  <2>1. PICK ph : ph = Loop(s, in, out, n)
    OBVIOUS
  <2>2. /\ ph.op = "loop" /\ ph.pattern = s /\ ph.in = in /\ ph.out = out /\ ph.n = n
          /\ ph.chain = <<>>
    BY <2>1 DEF Loop
  <2> QED BY <1>2, <2>1, <2>2, LoopDoes
<1>3. Owns(code["producer"], D["producer"], U["producer"])
  <2>1. PICK s : s = <<"r", "s", "s">>
    OBVIOUS
  <2>2. Does(Loop(s, {"demand"}, "data", Forever), {"data"}, {})
    BY <1>2
  <2> QED BY <2>1, <2>2, OwnsOne DEF Credit
<1>4. Owns(code["consumer"], D["consumer"], U["consumer"])
  <2>1. PICK s : s = <<"s", "r", "r">>
    OBVIOUS
  <2>2. PICK a, b : a = Loop(s, {"data"}, "demand", Items) /\ b = Close("demand")
    OBVIOUS
  <2>3. Does(a, {"data", "demand"}, {}) /\ Does(b, {}, {"demand"})
    BY <1>2, <2>2, PhasesDo
  <2>4. Owns(<<a, b>>, {} \cup {"demand"}, {"data", "demand"} \cup {})
    BY <2>3, OwnsTwo
  <2> QED BY <2>1, <2>2, <2>4 DEF Credit
<1>5. \A p, q \in DOMAIN code : p # q => D[p] \cap U[q] = {}
  BY <1>1
<1> HIDE DEF D, U, code
<1>6. AllOwn(code, D, U)
  BY <1>1, <1>3, <1>4 DEF AllOwn
<1>7. Orderly(code, DOMAIN Credit.cap)
  BY <1>5, <1>6, OwnOrderly
<1> QED BY <1>7, CreditTame DEF Sound, code

\* A loop that drains its channel.
LEMMA RelayEnds ==
  ASSUME NEW x, NEW y PROVE Ends(Relay(x, y, Forever), x)
<1>1. PICK ph : ph = Relay(x, y, Forever)
  OBVIOUS
<1>2. ph.op = "loop" /\ ph.n = Forever /\ ph.until = {} /\ ph.lossy = FALSE /\ ph.chain = <<>>
        /\ ph.in = {x}
  BY <1>1 DEF Relay, Loop
<1> QED BY <1>1, <1>2 DEF Ends

\* spawn_channel: pingpong_demo.
LEMMA PingPongSound == Sound(PingPong.cap, PingPong.code)
<1> DEFINE D == [ping |-> {"there"}, pong |-> {"back"}]
           U == [ping |-> {"there", "back"}, pong |-> {"back"}]
           code == PingPong.code
<1>1. DOMAIN code = {"ping", "pong"} /\ "there" \in DOMAIN PingPong.cap
  BY DEF PingPong
<1>2. PICK a, b, c, d : /\ a = Ask("there", "back", Items) /\ b = Close("there")
                        /\ c = Relay("there", "back", Forever) /\ d = Close("back")
  OBVIOUS
<1>3. /\ Does(a, {"there", "back"}, {}) /\ Does(b, {}, {"there"})
      /\ Does(c, {"back"}, {}) /\ Does(d, {}, {"back"})
  BY <1>2, PhasesDo
<1>4. code["ping"] = <<a, b>> /\ code["pong"] = <<c, d>>
  BY <1>2 DEF PingPong
<1>5. a.op = "loop" /\ b.op = "close" /\ c.op = "loop" /\ d.op = "close" /\ b.chan = "there"
        /\ d.chan = "back"
  BY <1>2 DEF Ask, Relay, Loop, Close
<1>6. Ends(c, "there")
  BY <1>2, RelayEnds
<1>7. Owns(code["ping"], D["ping"], U["ping"])
  <2>1. Owns(<<a, b>>, {} \cup {"there"}, {"there", "back"} \cup {})
    BY <1>3, OwnsTwo
  <2> QED BY <1>4, <2>1
<1>8. Owns(code["pong"], D["pong"], U["pong"])
  <2>1. Owns(<<c, d>>, {} \cup {"back"}, {"back"} \cup {})
    BY <1>3, OwnsTwo
  <2> QED BY <1>4, <2>1
<1>9. \A p, q \in DOMAIN code : \A x \in D[p] \cap U[q] : p # q => p = "pong" /\ q = "ping"
        /\ x = "back"
  BY <1>1
<1>10. PICK u, v : u = code["ping"] /\ v = code["pong"]
  OBVIOUS
<1>11. /\ DOMAIN u = 1..2 /\ u[1] = a /\ u[2] = b
       /\ DOMAIN v = 1..2 /\ v[1] = c /\ v[2] = d
  BY <1>4, <1>10
<1> HIDE DEF D, U, code
<1>12. AllOwn(code, D, U)
  BY <1>1, <1>7, <1>8 DEF AllOwn
<1>13. Steady(v) /\ Stopless(code)
  BY <1>1, <1>5, <1>10, <1>11 DEF Steady, Stopless
<1>14. ClosedLater(code, "there", "ping", 1)
  BY <1>1, <1>5, <1>10, <1>11 DEF ClosedLater, Closes
<1>15. ASSUME NEW k \in DOMAIN v, Closes(v[k], "back"), NEW j \in DOMAIN u, Uses(u[j], "back")
       PROVE  Exhausted(code, v, k, "ping", j, DOMAIN PingPong.cap)
  <2>1. k = 2
    BY <1>5, <1>11, <1>15 DEF Closes
  <2>2. j = 1
    BY <1>3, <1>11, <1>15 DEF Does
  <2> QED BY <2>1, <2>2, <1>1, <1>6, <1>11, <1>14 DEF Exhausted
<1>16. Foreign(code, DOMAIN PingPong.cap, D, U)
  BY <1>9, <1>10, <1>13, <1>15 DEF Foreign, Precedes
<1>17. Orderly(code, DOMAIN PingPong.cap)
  BY <1>12, <1>16, OrderlyBy
<1> QED BY <1>17, PingPongTame DEF Sound, code

\* echo_tcp.
LEMMA EchoTcpSound == Sound(EchoTcp.cap, EchoTcp.code)
<1> DEFINE D == [handshake |-> {}, server |-> {"back"}, client |-> {"there"}]
           U == [handshake |-> {}, server |-> {"back"}, client |-> {"there", "back"}]
           code == EchoTcp.code
<1>1. DOMAIN code = {"handshake", "server", "client"} /\ "there" \in DOMAIN EchoTcp.cap
  BY DEF EchoTcp
<1>2. PICK i, a, b, e, c, d, t :
        /\ i = Connected /\ a = SendAll("there", Items) /\ e = Take("back", Items)
             /\ b = Close("there")
        /\ c = Relay("there", "back", Forever) /\ d = Close("back") /\ t = Ticks(1)
  OBVIOUS
<1>3. /\ Does(a, {"there"}, {}) /\ Does(e, {"back"}, {}) /\ Does(b, {}, {"there"})
      /\ Does(c, {"back"}, {}) /\ Does(d, {}, {"back"}) /\ Does(i, {}, {}) /\ Does(t, {}, {})
  BY <1>2, PhasesDo DEF Connected
<1>4. code["client"] = <<i, a, e, b>> /\ code["server"] = <<i, c, d>> /\ code["handshake"] = <<t>>
  <2>1. /\ code["client"] = <<Connected>> \o EchoClient
          /\ code["server"] = <<Connected>> \o EchoSession
        /\ code["handshake"] = <<t>>
    BY <1>2 DEF EchoTcp
  <2>2. EchoClient = <<a, e, b>> /\ EchoSession = <<c, d>>
    BY <1>2 DEF EchoClient, EchoSession
  <2>3. <<i>> \o EchoClient = <<i, a, e, b>>
    BY <2>2, LongTuplesJoined
  <2>4. <<i>> \o EchoSession = <<i, c, d>>
    BY <2>2, TuplesJoined
  <2> QED BY <1>2, <2>1, <2>3, <2>4
<1>5. /\ a.op = "loop" /\ b.op = "close" /\ c.op = "loop" /\ d.op = "close" /\ e.op = "loop"
        /\ i.op = "join"
      /\ t.op = "loop" /\ b.chan = "there" /\ d.chan = "back"
  BY <1>2 DEF SendAll, Take, Ticks, Connected, Join, Relay, Loop, Close
<1>6. Ends(c, "there")
  BY <1>2, RelayEnds
<1>7. Owns(code["client"], D["client"], U["client"])
  <2>1. Owns(<<i, a, e, b>>, {} \cup {} \cup {} \cup {"there"}, {} \cup {"there"} \cup {"back"} \cup {})
    BY <1>3, OwnsFour
  <2> QED BY <1>4, <2>1
<1>8. Owns(code["server"], D["server"], U["server"])
  <2>1. Owns(<<i, c, d>>, {} \cup {} \cup {"back"}, {} \cup {"back"} \cup {})
    BY <1>3, OwnsThree
  <2> QED BY <1>4, <2>1
<1>9. Owns(code["handshake"], D["handshake"], U["handshake"])
  BY <1>3, <1>4, OwnsOne
<1>10. \A p, q \in DOMAIN code : \A x \in D[p] \cap U[q] : p # q => p = "server"
        /\ q = "client" /\ x = "back"
  BY <1>1
<1>11. PICK u, v, w : u = code["client"] /\ v = code["server"] /\ w = code["handshake"]
  OBVIOUS
<1>12. /\ DOMAIN u = 1..4 /\ u[1] = i /\ u[2] = a /\ u[3] = e /\ u[4] = b
       /\ DOMAIN v = 1..3 /\ v[1] = i /\ v[2] = c /\ v[3] = d
       /\ DOMAIN w = {1} /\ w[1] = t
  BY <1>4, <1>11
<1> HIDE DEF D, U, code
<1>13. AllOwn(code, D, U)
  BY <1>1, <1>7, <1>8, <1>9 DEF AllOwn
<1>14. Steady(v) /\ Stopless(code)
  BY <1>1, <1>5, <1>11, <1>12 DEF Steady, Stopless
<1>15. ClosedLater(code, "there", "client", 3)
  <2>1. ASSUME NEW r \in DOMAIN code, NEW l \in DOMAIN code[r], Closes(code[r][l], "there")
        PROVE  r = "client" /\ l = 4
    <3>1. CASE r = "client"
      BY <2>1, <3>1, <1>5, <1>11, <1>12 DEF Closes
    <3>2. CASE r = "server"
      BY <2>1, <3>2, <1>5, <1>11, <1>12 DEF Closes
    <3>3. CASE r = "handshake"
      BY <2>1, <3>3, <1>5, <1>11, <1>12 DEF Closes
    <3> QED BY <3>1, <3>2, <3>3, <1>1
  <2> QED BY <2>1 DEF ClosedLater
<1>16. ASSUME NEW k \in DOMAIN v, Closes(v[k], "back"), NEW j \in DOMAIN u, Uses(u[j], "back")
       PROVE  Exhausted(code, v, k, "client", j, DOMAIN EchoTcp.cap)
  <2>1. k = 3
    BY <1>5, <1>12, <1>16 DEF Closes
  <2>2. j = 3
    BY <1>3, <1>12, <1>16 DEF Does
  <2> QED BY <2>1, <2>2, <1>1, <1>6, <1>12, <1>15 DEF Exhausted
<1>17. Foreign(code, DOMAIN EchoTcp.cap, D, U)
  BY <1>10, <1>11, <1>14, <1>16 DEF Foreign, Precedes
<1>18. Orderly(code, DOMAIN EchoTcp.cap)
  BY <1>13, <1>17, OrderlyBy
<1> QED BY <1>18, EchoTcpTame DEF Sound, code

\* csp_sieve.
LEMMA SieveSound == Sound(PrimeSieve.cap, PrimeSieve.code)
<1> DEFINE sieve == <<"sieve", 0>>
           generate == <<"generate", 0>>
           filters == {"filter"} \X Filters
           P == {sieve, generate} \cup filters
           W == [p \in P |-> IF p = sieve THEN {}
                             ELSE IF p = generate THEN {Link[1]} ELSE {Link[p[2] + 1]}]
           code == PrimeSieve.code
<1>1. DOMAIN code = P
  BY DEF PrimeSieve, :>, @@
<1>2. sieve # generate /\ sieve \notin filters /\ generate \notin filters
  OBVIOUS
<1>3. \A p \in filters : p[1] = "filter" /\ p[2] \in Filters /\ p = <<"filter", p[2]>>
  OBVIOUS
<1>4. W[sieve] = {} /\ W[generate] = {Link[1]} /\ \A p \in filters : W[p] = {Link[p[2] + 1]}
  BY <1>2
<1>5. Owns(<<Sieve>>, {}, {})
  <2>1. PICK pattern : pattern = <<"r">>
    OBVIOUS
  <2>2. \A k \in DOMAIN pattern : pattern[k] # "s"
    BY <2>1, PatternFacts
  <2>3. PICK ph : ph = Sieve
    OBVIOUS
  <2>4. ph.op = "loop" /\ ph.pattern = pattern /\ ph.n = Forever
    BY <2>1, <2>3 DEF Sieve, Loop
  <2>5. Does(ph, {}, {})
    BY <2>2, <2>4 DEF Does, Uses, SendsTo, Counts, Closes
  <2> QED BY <2>3, <2>5, OwnsOne
<1>6. Owns(<<SendAll(Link[1], SieveLimit - 1), Close(Link[1])>>, {Link[1]}, {Link[1]})
  <2>1. PICK x, a, b : x = Link[1] /\ a = SendAll(x, SieveLimit - 1) /\ b = Close(x)
    OBVIOUS
  <2>2. Does(a, {x}, {}) /\ Does(b, {}, {x})
    BY <2>1, PhasesDo
  <2>3. Owns(<<a, b>>, {} \cup {x}, {x} \cup {})
    BY <2>2, OwnsTwo
  <2> QED BY <2>1, <2>3
<1>7. ASSUME NEW k \in Filters
      PROVE  Owns(Filter(k), {Link[k + 1]}, {Link[k + 1]})
  <2>1. PICK x, y, a, b, c : /\ x = Link[k] /\ y = Link[k + 1] /\ a = Spawned(<<"sieve", 0>>, k)
                             /\ b = [Relay(x, y, Forever) EXCEPT !.prime = k] /\ c = Close(y)
    OBVIOUS
  <2>2. Does(a, {}, {}) /\ Does(c, {}, {y})
    <3>1. a.op = "spawned"
      BY <2>1 DEF Spawned
    <3>2. Does(a, {}, {})
      BY <3>1 DEF Does, Uses, SendsTo, Counts, Closes
    <3> QED BY <2>1, <3>2, PhasesDo
  <2>3. Does(b, {y}, {})
    <3>1. b.op = "loop" /\ b.out = y /\ b.n = Forever
      BY <2>1 DEF Relay, Loop
    <3> QED BY <3>1 DEF Does, Uses, SendsTo, Counts, Closes
  <2>4. Owns(<<a, b, c>>, {} \cup {} \cup {y}, {} \cup {y} \cup {})
    BY <2>2, <2>3, OwnsThree
  <2>5. Filter(k) = <<a, b, c>>
    BY <2>1 DEF Filter
  <2> QED BY <2>1, <2>4, <2>5
<1>8. /\ code[sieve] = <<Sieve>>
      /\ code[generate] = <<SendAll(Link[1], SieveLimit - 1), Close(Link[1])>>
      /\ \A p \in filters : code[p] = Filter(p[2])
  BY <1>2 DEF PrimeSieve, :>, @@
<1>9. \A p, q \in P : p # q => W[p] \cap W[q] = {}
  <2>1. 1 \in DOMAIN Link /\ \A p \in filters : p[2] \in Nat \ {0} /\ p[2] + 1 \in DOMAIN Link
    BY <1>3, LinkFacts
  <2>2. \A p, q \in filters : Link[p[2] + 1] = Link[q[2] + 1] => p = q
    <3>1. \A p, q \in filters : Link[p[2] + 1] = Link[q[2] + 1] => p[2] + 1 = q[2] + 1
      BY <2>1, LinkFacts
    <3>2. \A p, q \in filters : p[2] + 1 = q[2] + 1 => p = q
      BY <1>3, <2>1
    <3> QED BY <3>1, <3>2
  <2>3. \A p \in filters : Link[p[2] + 1] # Link[1]
    <3>1. \A p \in filters : p[2] + 1 # 1
      BY <2>1
    <3> QED BY <3>1, <2>1, LinkFacts
  <2> HIDE DEF W, sieve, generate, filters
  <2> QED BY <1>4, <2>2, <2>3
<1> HIDE DEF W, code, sieve, generate, filters
<1>10. AllOwn(code, W, W)
  <2>1. \A p \in filters : Owns(code[p], W[p], W[p])
    BY <1>3, <1>4, <1>7, <1>8
  <2> QED BY <1>1, <1>4, <1>5, <1>6, <1>8, <2>1 DEF AllOwn
<1>11. Orderly(code, DOMAIN PrimeSieve.cap)
  BY <1>1, <1>9, <1>10, OwnOrderly
<1> QED BY <1>11, SieveTame DEF Sound, code

-----------------------------------------------------------------------------
LEMMA CodedSix ==
  ASSUME NEW a, NEW b, NEW c, NEW d, NEW e, NEW f, NEW R, NEW W, NEW C, NEW r,
         KeepsTo(a, R, W, C, r), KeepsTo(b, R, W, C, r), KeepsTo(c, R, W, C, r),
         KeepsTo(d, R, W, C, r), KeepsTo(e, R, W, C, r), KeepsTo(f, R, W, C, r)
  PROVE  Coded(<<a, b, c, d, e, f>>, R, W, C, r)
<1>1. PICK S : S = {a, b, c, d, e, f}
  OBVIOUS
<1>2. PICK code : code = <<a, b, c, d, e, f>>
  OBVIOUS
<1>3. code \in Seq(S) /\ \A ph \in S : KeepsTo(ph, R, W, C, r)
  BY <1>1, <1>2
<1> QED BY <1>2, <1>3, CodedSeq

-----------------------------------------------------------------------------
\* The programs without channels.
IdleCode(u) == Coded(u, {}, {}, {}, FALSE)
Idle(code) == \A p \in DOMAIN code : IdleCode(code[p])

LEMMA IdleSound == ASSUME NEW code, Idle(code) PROVE Sound(NoChannels, code)
<1> DEFINE R == [p \in DOMAIN code |-> {}]
<1>1. DOMAIN NoChannels = {}
  BY DEF NoChannels
<1>2. \A p \in DOMAIN code : R[p] = {}
  OBVIOUS
<1> HIDE DEF R
<1>3. Wired(DOMAIN code, DOMAIN NoChannels, R, R, R, {})
  BY <1>2 DEF Wired
<1>4. AllCoded(code, R, R, R, {})
  BY <1>2 DEF AllCoded, Idle, IdleCode
<1> QED BY <1>1, <1>2, <1>3, <1>4, CodedSound

LEMMA IdleOne == ASSUME NEW a, NEW x, IdleCode(x) PROVE Idle(a :> x)
  BY DEF Idle, :>
LEMMA IdleMain == ASSUME NEW x, IdleCode(x) PROVE Idle(Main(x))
  BY IdleOne DEF Main
LEMMA IdleBoth == ASSUME NEW f, NEW g, Idle(f), Idle(g) PROVE Idle(f @@ g)
  BY DEF Idle, @@
LEMMA IdleEach == ASSUME NEW a, NEW x, IdleCode(x) PROVE Idle(Each(a, x))
  BY DEF Idle, Each
LEMMA IdleConcat == ASSUME NEW u, NEW v, IdleCode(u), IdleCode(v) PROVE IdleCode(u \o v)
  BY CodedConcat DEF IdleCode

\* One to three phases that use no channel.
IdlePhase(ph) == KeepsTo(ph, {}, {}, {}, FALSE)
LEMMA IdleShort ==
  ASSUME NEW a, NEW b, NEW c, IdlePhase(a), IdlePhase(b), IdlePhase(c)
  PROVE  IdleCode(<<a>>) /\ IdleCode(<<a, b>>) /\ IdleCode(<<a, b, c>>)
BY CodedOne, CodedTwo, CodedThree DEF IdleCode, IdlePhase

LEMMA IdlePhases ==
  ASSUME NEW x, NEW y
  PROVE  /\ IdlePhase(Join(x)) /\ IdlePhase(Atomic(x, y)) /\ IdlePhase(Load(x))
         /\ IdlePhase(StoreNext(x)) /\ IdlePhase(Lock(x)) /\ IdlePhase(Unlock(x))
         /\ IdlePhase(Add(x, y)) /\ IdlePhase(RequestStop(x)) /\ IdlePhase(AwaitStop(x))
         /\ IdlePhase(Ticks(x)) /\ IdlePhase(Until(Ticks(x), y))
BY OtherPhases, TicksKeep DEF IdlePhase

LEMMA IdleParts ==
  ASSUME NEW x, NEW y
  PROVE  /\ IdleCode(<<>>) /\ IdleCode(PlainIncrement(x)) /\ IdleCode(Destroy(x, y))
          /\ IdleCode(GetA(x))
         /\ IdleCode(AwaitGetA(x, y)) /\ IdleCode(TickPromise(x, y))
<1>1. IdleCode(<<>>)
  BY DEF IdleCode, Coded
<1> QED BY <1>1, IdlePhases, IdleShort DEF PlainIncrement, Destroy, GetA, AwaitGetA, TickPromise

\* jthread.
LEMMA JthreadIdle ==
  /\ Idle(CooperativeStop.code) /\ Idle(StopCallback.code) /\ Idle(AutoJoin.code)
  /\ Idle(InterruptibleWait.code) /\ Idle(CoordinatedShutdown.code) /\ Idle(ExternalStop.code)
<1>1. Idle(CooperativeStop.code)
  BY IdleOne, IdleMain, IdleBoth, IdleConcat, IdleParts, IdleShort, IdlePhases DEF CooperativeStop
<1>2. Idle(StopCallback.code)
  BY IdleOne, IdleMain, IdleBoth, IdleShort, IdlePhases DEF StopCallback
<1>3. Idle(AutoJoin.code)
  BY IdleOne, IdleMain, IdleBoth, IdleParts, IdleShort, IdlePhases DEF AutoJoin
<1>4. Idle(InterruptibleWait.code)
  <2>1. IdleCode(<<Lock("mutex"), Unlock("mutex"), AwaitStop("stop"), Lock("mutex"), Unlock("mutex")>>)
    BY CodedFive, IdlePhases DEF IdleCode, IdlePhase
  <2> QED BY <2>1, IdleOne, IdleMain, IdleBoth, IdleConcat, IdleParts, IdleShort, IdlePhases
          DEF InterruptibleWait
<1>5. Idle(CoordinatedShutdown.code)
  BY IdleEach, IdleMain, IdleBoth, IdleShort, IdlePhases DEF CoordinatedShutdown, Poll
<1>6. Idle(ExternalStop.code)
  BY IdleOne, IdleMain, IdleBoth, IdleConcat, IdleParts, IdleShort, IdlePhases DEF ExternalStop
<1> QED BY <1>1, <1>2, <1>3, <1>4, <1>5, <1>6

\* strand, and folly_task_example.
LEMMA StrandIdle == Idle(Strand.code) /\ Idle(FollyTasks.code) /\ Idle(FollyLocks.code)
<1>1. Idle(Strand.code)
  <2>1. IdleCode(Serialized(PlainIncrement("counter")))
    BY IdleConcat, IdleParts, IdleShort, IdlePhases DEF Serialized
  <2> QED BY <2>1, IdleEach, IdleMain, IdleBoth, IdleShort, IdlePhases DEF Strand
<1>2. Idle(FollyTasks.code)
  <2>1. IdleCode(<<AwaitStop("go")>> \o PlainIncrement("global"))
    BY IdleConcat, IdleParts, IdleShort, IdlePhases
  <2>2. PICK x : x = <<AwaitStop("go")>> \o PlainIncrement("global")
    OBVIOUS
  <2>3. \A ts : Idle([t \in ts |-> x])
    BY <2>1, <2>2 DEF Idle
  <2>4. IdleCode(Times(8, PlainIncrement("global")))
    <3>1. PICK u : u = PlainIncrement("global")
      OBVIOUS
    <3>2. u # <<>>
      BY <3>1 DEF PlainIncrement
    <3>3. IdleCode(u)
      BY <3>1, IdleParts
    <3> QED BY <3>1, <3>2, <3>3, RepeatKeeps DEF IdleCode
  <2>5. \A ts : IdleCode(Times(8, PlainIncrement("global")) \o <<RequestStop("go"), Join(ts)>>)
    BY <2>4, IdleConcat, IdleShort, IdlePhases
  <2> QED BY <2>2, <2>3, <2>5, IdleMain, IdleBoth DEF FollyTasks
<1>3. Idle(FollyLocks.code)
  BY IdleOne, IdleMain, IdleBoth, IdleConcat, IdleParts, IdleShort, IdlePhases DEF FollyLocks
<1> QED BY <1>1, <1>2, <1>3

\* timer, and the spawned tasks of spawn_channel.
LEMMA TaskIdle ==
  Idle(Timers.code) /\ Idle(SpawnCancellable.code) /\ Idle(SpawnDetached.code)
          /\ Idle(PromiseHandle.code)
<1>1. Idle(Timers.code)
  BY IdleOne, IdleMain, IdleBoth, IdleConcat, IdleShort, IdlePhases DEF Timers
<1>2. Idle(SpawnCancellable.code)
  BY IdleOne, IdleMain, IdleBoth, IdleParts, IdleShort, IdlePhases DEF SpawnCancellable
<1>3. Idle(SpawnDetached.code)
  BY IdleEach, IdleMain, IdleBoth, IdleParts, IdleShort, IdlePhases DEF SpawnDetached
<1>4. Idle(PromiseHandle.code)
  <2>1. PICK es : es = {<<"eager", 1>>}
    OBVIOUS
  <2>2. PICK vs : vs = {<<"victim", 1>>}
    OBVIOUS
  <2>3. /\ IdleCode(<<AwaitStop("begin")>> \o TickPromise(Forever, "cancel"))
        /\ IdleCode(TickPromise(3, "never"))
    BY IdleConcat, IdleParts, IdleShort, IdlePhases
  <2>4. IdleCode(<<Ticks(1), Join(es), RequestStop("begin"), Ticks(1), RequestStop("cancel"), Join(vs)>>)
    BY CodedSix, IdlePhases DEF IdleCode, IdlePhase
  <2> QED BY <2>1, <2>2, <2>3, <2>4, IdleOne, IdleMain, IdleBoth DEF PromiseHandle
<1> QED BY <1>1, <1>2, <1>3, <1>4

-----------------------------------------------------------------------------
\* The threads that share channels as well.
LEMMA AllCodedOwn ==
  ASSUME NEW a, NEW x, NEW R, NEW W, NEW D, NEW r, NEW w,
         R[a] = r, W[a] = w, D[a] = {}, Coded(x, r, w, {}, FALSE)
  PROVE  AllCoded(a :> x, R, W, D, {})
BY DEF AllCoded, :>

LEMMA FlowSound == \A n \in Nat : Sound(FlowPipeline(n).cap, FlowPipeline(n).code)
<1> SUFFICES ASSUME NEW n \in Nat PROVE Sound(FlowPipeline(n).cap, FlowPipeline(n).code)
  OBVIOUS
<1> DEFINE main == <<"main", 0>>
           consumer == <<"consumer", 1>>
           P == {main, consumer}
           R == [p \in P |-> IF p = main THEN {} ELSE {"edge"}]
           W == [p \in P |-> IF p = main THEN {"edge"} ELSE {}]
           D == [p \in P |-> {}]
           cap == FlowPipeline(n).cap
           code == FlowPipeline(n).code
<1>1. DOMAIN cap = {"edge"} /\ \A c \in DOMAIN cap : cap[c] \in Nat
  BY DEF FlowPipeline
<1>2. DOMAIN code = P
  BY DEF FlowPipeline, Main, :>, @@
<1>open. \A p \in DOMAIN code : D[p] = {}
  BY <1>2
<1>3. Wired(DOMAIN code, DOMAIN cap, R, W, D, {})
  BY <1>1, <1>2 DEF Wired
<1>4. /\ R[main] = {} /\ W[main] = {"edge"} /\ D[main] = {}
      /\ R[consumer] = {"edge"} /\ W[consumer] = {} /\ D[consumer] = {}
  OBVIOUS
<1>5. Coded(Times(n, <<Limited, SendAll("edge", 1)>>), {}, {"edge"}, {}, FALSE)
  <2>1. Coded(<<Limited, SendAll("edge", 1)>>, {}, {"edge"}, {}, FALSE)
    BY CodedTwo, SendAllKeeps, OtherPhases DEF Limited
  <2> QED BY <2>1, RepeatKeeps
<1>6. Coded(Times(n, <<Take("edge", 1), Sub("flight", 1)>>), {"edge"}, {}, {}, FALSE)
  <2>1. Coded(<<Take("edge", 1), Sub("flight", 1)>>, {"edge"}, {}, {}, FALSE)
    BY CodedTwo, TakeKeeps, OtherPhases
  <2> QED BY <2>1, RepeatKeeps
<1> HIDE DEF R, W, D
<1>7. AllCoded(code, R, W, D, {})
  BY <1>4, <1>5, <1>6, AllCodedOne, AllCodedBoth DEF FlowPipeline, Main
<1> HIDE DEF cap, code
<1> QED BY <1>open, <1>1, <1>3, <1>7, CodedSound DEF cap, code

LEMMA FutureSound == Sound(SpawnFuture.cap, SpawnFuture.code)
<1> DEFINE main == <<"main", 0>>
           square == <<"square", 1>>
           P == {main, square}
           R == [p \in P |-> IF p = main THEN {"future"} ELSE {}]
           W == [p \in P |-> IF p = main THEN {} ELSE {"future"}]
           D == [p \in P |-> {}]
           cap == SpawnFuture.cap
           code == SpawnFuture.code
<1>1. DOMAIN cap = {"future"} /\ \A c \in DOMAIN cap : cap[c] \in Nat
  BY DEF SpawnFuture
<1>2. DOMAIN code = P
  BY DEF SpawnFuture, Main, :>, @@
<1>open. \A p \in DOMAIN code : D[p] = {}
  BY <1>2
<1>3. Wired(DOMAIN code, DOMAIN cap, R, W, D, {})
  BY <1>1, <1>2 DEF Wired
<1>4. /\ R[main] = {"future"} /\ W[main] = {} /\ D[main] = {}
      /\ R[square] = {} /\ W[square] = {"future"} /\ D[square] = {}
  OBVIOUS
<1>5. Coded(ComputeSquare, {}, {"future"}, {}, FALSE)
  BY CodedTwo, TicksKeep, SendAllKeeps DEF ComputeSquare
<1>6. Coded(<<Join({square}), Take("future", 1)>>, {"future"}, {}, {}, FALSE)
  BY CodedTwo, TakeKeeps, OtherPhases
<1> HIDE DEF R, W, D
<1>7. AllCoded(code, R, W, D, {})
  BY <1>4, <1>5, <1>6, AllCodedOne, AllCodedBoth DEF SpawnFuture, Main
<1> HIDE DEF cap, code
<1> QED BY <1>open, <1>1, <1>3, <1>7, CodedSound DEF cap, code

LEMMA BridgeSound == Sound(TokioBridge.cap, TokioBridge.code)
<1> DEFINE main == <<"main", 0>>
           demo == <<"demo", 1>>
           add1 == <<"add", 1>>
           add2 == <<"add", 2>>
           greet == <<"greet", 1>>
           P == {main, demo, add1, add2, greet}
           Q == {"sum", "next_sum", "greeting"}
           R == [p \in P |-> IF p = demo THEN Q ELSE {}]
           W == [p \in P |-> IF p = add1 THEN {"sum"} ELSE IF p = add2 THEN {"next_sum"}
                             ELSE IF p = greet THEN {"greeting"} ELSE {}]
           D == [p \in P |-> {}]
           cap == TokioBridge.cap
           code == TokioBridge.code
<1>1. DOMAIN cap = Q /\ \A c \in DOMAIN cap : cap[c] \in Nat
  BY DEF TokioBridge
<1>2. DOMAIN code = P
  BY DEF TokioBridge, Main, :>, @@
<1>open. \A p \in DOMAIN code : D[p] = {}
  BY <1>2
<1>3. Wired(DOMAIN code, DOMAIN cap, R, W, D, {})
  BY <1>1, <1>2 DEF Wired
<1>4. /\ R[main] = {} /\ W[main] = {} /\ R[demo] = Q /\ W[demo] = {}
      /\ R[add1] = {} /\ W[add1] = {"sum"} /\ R[add2] = {} /\ W[add2] = {"next_sum"}
      /\ R[greet] = {} /\ W[greet] = {"greeting"} /\ \A p \in P : D[p] = {}
  OBVIOUS
<1>5. \A go, c : Coded(RustTask(go, c), {}, {c}, {}, FALSE)
  BY CodedTwo, SendAllKeeps, OtherPhases DEF RustTask
<1>6. Coded(<<Atomic("work", 0 :> 0)>>, {}, {}, {}, FALSE)
  BY CodedOne, OtherPhases
<1>7. Coded(AwaitRust("go1", "sum") \o AwaitBoth("go2", "next_sum", "go3", "greeting")
            \o <<Sub("work", 1)>>, Q, {}, {}, FALSE)
  <2>1. Coded(<<Sub("work", 1)>>, Q, {}, {}, FALSE) /\ \A go : Coded(Park(go), Q, {}, {}, FALSE)
    BY CodedOne, CodedTwo, OtherPhases DEF Park
  <2>2. \A c \in Q : Coded(Resumed(c), Q, {}, {}, FALSE)
    BY CodedTwo, TakeKeeps, OtherPhases DEF Resumed
  <2>3. Coded(AwaitRust("go1", "sum"), Q, {}, {}, FALSE)
    BY <2>1, <2>2, CodedConcat DEF AwaitRust
  <2>4. Coded(AwaitBoth("go2", "next_sum", "go3", "greeting"), Q, {}, {}, FALSE)
    BY <2>1, <2>2, CodedConcat DEF AwaitBoth
  <2> QED BY <2>1, <2>3, <2>4, CodedConcat
<1> HIDE DEF R, W, D
<1>8. /\ AllCoded(Main(<<Atomic("work", 0 :> 0)>>), R, W, D, {})
      /\ AllCoded(demo :> (AwaitRust("go1", "sum") \o AwaitBoth("go2", "next_sum", "go3", "greeting")
                           \o <<Sub("work", 1)>>), R, W, D, {})
      /\ AllCoded(add1 :> RustTask("go1", "sum"), R, W, D, {})
      /\ AllCoded(add2 :> RustTask("go2", "next_sum"), R, W, D, {})
      /\ AllCoded(greet :> RustTask("go3", "greeting"), R, W, D, {})
  <2>1. AllCoded(Main(<<Atomic("work", 0 :> 0)>>), R, W, D, {})
    BY <1>4, <1>6, AllCodedOne DEF Main
  <2> HIDE DEF main, demo, add1, add2, greet, Q
  <2>2. AllCoded(demo :> (AwaitRust("go1", "sum") \o AwaitBoth("go2", "next_sum", "go3", "greeting")
                          \o <<Sub("work", 1)>>), R, W, D, {})
    BY <1>4, <1>7, AllCodedOne
  <2>3. /\ AllCoded(add1 :> RustTask("go1", "sum"), R, W, D, {})
        /\ AllCoded(add2 :> RustTask("go2", "next_sum"), R, W, D, {})
        /\ AllCoded(greet :> RustTask("go3", "greeting"), R, W, D, {})
    BY <1>4, <1>5, AllCodedOwn
  <2> QED BY <2>1, <2>2, <2>3
<1>9. AllCoded(code, R, W, D, {})
  BY <1>8, AllCodedBoth DEF TokioBridge
<1> HIDE DEF cap, code
<1>10. Sound(cap, code)
  BY <1>open, <1>1, <1>3, <1>9, CodedSound
<1> QED BY <1>10 DEF cap, code

LEMMA TenAsSeq ==
  ASSUME NEW S, NEW a \in S, NEW b \in S, NEW c \in S, NEW d \in S, NEW e \in S, NEW f \in S,
         NEW g \in S, NEW h \in S, NEW i \in S, NEW j \in S
  PROVE  <<a, b, c, d, e, f, g, h, i, j>> \in Seq(S)
OBVIOUS

LEMMA AwaitablesSound == Sound(Awaitables.cap, Awaitables.code)
<1> DEFINE main == <<"main", 0>>
           first == <<"first", 1>>
           second == <<"second", 1>>
           fast == <<"fast", 1>>
           slow == <<"slow", 1>>
           left == <<"left", 1>>
           right == <<"right", 1>>
           P == {main, first, second, fast, slow, left, right}
           Q == {"first", "second", "fast", "left", "right"}
           R == [p \in P |-> IF p = main THEN Q ELSE {}]
           W == [p \in P |-> {p[1]} \cap Q]
           D == [p \in P |-> {}]
           body == <<Take("first", 1), RequestStop("one"), Take("second", 1), RequestStop("two"),
                     Take("fast", 1), RequestStop("cancel"), Join({slow}),
                     RequestStop("three"), Take("left", 1), Take("right", 1)>>
           one == DelayedMessage("first")
           two == <<AwaitStop("one")>> \o DelayedMessage("second")
           three == <<AwaitStop("two")>> \o DelayedMessage("fast")
           four == <<AwaitStop("two"), Until(Ticks(1), {"cancel"})>>
           five == <<AwaitStop("three")>> \o DelayedMessage("left")
           six == <<AwaitStop("three")>> \o DelayedMessage("right")
           cap == Awaitables.cap
           code == Awaitables.code
<1>1. DOMAIN cap = Q /\ \A c \in DOMAIN cap : cap[c] \in Nat
  BY DEF Awaitables
<1>2. DOMAIN code = P
  <2>1. DOMAIN code = DOMAIN Main(body) \cup DOMAIN (first :> one) \cup DOMAIN (second :> two)
                      \cup DOMAIN (fast :> three) \cup DOMAIN (slow :> four)
                              \cup DOMAIN (left :> five)
                      \cup DOMAIN (right :> six)
    <3>1. code = Main(body) @@ (first :> one) @@ (second :> two) @@ (fast :> three) @@ (slow :> four)
                 @@ (left :> five) @@ (right :> six)
      BY DEF Awaitables
    <3> HIDE DEF code, main, first, second, fast, slow, left, right, body, one, two, three, four,
            five, six
    <3> QED BY <3>1 DEF @@
  <2> HIDE DEF body, one, two, three, four, five, six
  <2> QED BY <2>1 DEF Main, :>
<1>open. \A p \in DOMAIN code : D[p] = {}
  BY <1>2
<1>3. /\ R[main] = Q /\ W[main] = {} /\ W[slow] = {} /\ \A p \in P : D[p] = {}
      /\ R[first] = {} /\ R[second] = {} /\ R[fast] = {} /\ R[slow] = {} /\ R[left] = {}
           /\ R[right] = {}
      /\ W[first] = {"first"} /\ W[second] = {"second"} /\ W[fast] = {"fast"}
      /\ W[left] = {"left"} /\ W[right] = {"right"}
  OBVIOUS
<1>4. Wired(DOMAIN code, DOMAIN cap, R, W, D, {})
  BY <1>1, <1>2 DEF Wired
<1>5. \A c : Coded(DelayedMessage(c), {}, {c}, {}, FALSE)
  BY CodedTwo, TicksKeep, SendAllKeeps DEF DelayedMessage
<1>6. \A go, c : Coded(<<AwaitStop(go)>> \o DelayedMessage(c), {}, {c}, {}, FALSE)
  <2>1. \A go, c : Coded(<<AwaitStop(go)>>, {}, {c}, {}, FALSE)
    BY CodedOne, OtherPhases
  <2> QED BY <1>5, <2>1, CodedConcat
<1>7. Coded(<<AwaitStop("two"), Until(Ticks(1), {"cancel"})>>, {}, {}, {}, FALSE)
  BY CodedTwo, TicksKeep, OtherPhases
<1>8. Coded(body, Q, {}, {}, FALSE)
  <2>1. PICK S : S = {Take(c, 1) : c \in Q}
          \cup {RequestStop(v) : v \in {"one", "two", "three", "cancel"}}
                     \cup {Join({slow})}
    OBVIOUS
  <2>2. \A ph \in S : KeepsTo(ph, Q, {}, {}, FALSE)
    <3>1. \A c \in Q : KeepsTo(Take(c, 1), Q, {}, {}, FALSE)
      BY TakeKeeps
    <3>2. \A v : KeepsTo(RequestStop(v), Q, {}, {}, FALSE) /\ KeepsTo(Join(v), Q, {}, {}, FALSE)
      BY OtherPhases
    <3> HIDE DEF Q
    <3> QED BY <2>1, <3>1, <3>2
  <2>3. body \in Seq(S)
    BY <2>1, TenAsSeq
  <2> HIDE DEF body
  <2> QED BY <2>2, <2>3, CodedSeq
<1>9. /\ Coded(one, {}, {"first"}, {}, FALSE) /\ Coded(two, {}, {"second"}, {}, FALSE)
      /\ Coded(three, {}, {"fast"}, {}, FALSE) /\ Coded(four, {}, {}, {}, FALSE)
      /\ Coded(five, {}, {"left"}, {}, FALSE) /\ Coded(six, {}, {"right"}, {}, FALSE)
  BY <1>5, <1>6, <1>7
<1> HIDE DEF R, W, D, body, one, two, three, four, five, six
<1>10. /\ AllCoded(Main(body), R, W, D, {}) /\ AllCoded(first :> one, R, W, D, {})
      /\ AllCoded(second :> two, R, W, D, {}) /\ AllCoded(fast :> three, R, W, D, {})
      /\ AllCoded(slow :> four, R, W, D, {}) /\ AllCoded(left :> five, R, W, D, {})
      /\ AllCoded(right :> six, R, W, D, {})
  <2>1. AllCoded(Main(body), R, W, D, {})
    BY <1>3, <1>8, AllCodedOwn DEF Main
  <2> HIDE DEF main, first, second, fast, slow, left, right, Q
  <2>2. AllCoded(first :> one, R, W, D, {}) /\ AllCoded(second :> two, R, W, D, {})
    BY <1>3, <1>9, AllCodedOwn
  <2>3. AllCoded(fast :> three, R, W, D, {}) /\ AllCoded(slow :> four, R, W, D, {})
    BY <1>3, <1>9, AllCodedOwn
  <2>4. AllCoded(left :> five, R, W, D, {}) /\ AllCoded(right :> six, R, W, D, {})
    BY <1>3, <1>9, AllCodedOwn
  <2> QED BY <2>1, <2>2, <2>3, <2>4
<1>11. AllCoded(code, R, W, D, {})
  BY <1>10, AllCodedBoth DEF Awaitables, body, one, two, three, four, five, six
<1> HIDE DEF cap, code
<1> QED BY <1>open, <1>1, <1>4, <1>11, CodedSound DEF cap, code

\* The echo server: who it hears connect, and the two channels of each session.
LEMMA EchoServerSound == Sound(EchoServer.cap, EchoServer.code)
<1> DEFINE connect == <<"connect", 0>>
           listen == <<"listen", 0>>
           signal == <<"signal", 0>>
           sessions == {"session"} \X Worker
           clients == {"client"} \X Worker
           users == {"user"} \X Worker
           P == {listen, signal} \cup sessions \cup clients \cup users
           Q == {connect} \cup ({"lines", "replies"} \X Worker)
           R == [p \in P |-> IF p = listen THEN {connect} ELSE IF p \in {signal} \cup users THEN {}
                             ELSE IF p[1] = "session" THEN {<<"lines", p[2]>>} ELSE {<<"replies", p[2]>>}]
           W == [p \in P |-> IF p \in {listen, signal} \cup users THEN {}
                             ELSE IF p[1] = "session" THEN {<<"replies", p[2]>>}
                             ELSE {connect, <<"lines", p[2]>>}]
           D == [p \in P |-> {}]
           cap == EchoServer.cap
           code == EchoServer.code
<1>1. DOMAIN cap = Q /\ \A c \in DOMAIN cap : cap[c] \in Nat
  BY ChannelConstants DEF EchoServer
<1>2. DOMAIN code = P
  BY DEF EchoServer, :>, @@
<1>open. \A p \in DOMAIN code : D[p] = {}
  BY <1>2
<1>3. /\ listen # signal /\ listen \notin sessions /\ signal \notin sessions
      /\ listen \notin clients /\ signal \notin clients /\ sessions \cap clients = {}
      /\ listen \notin users /\ signal \notin users
      /\ users \cap clients = {} /\ users \cap sessions = {}
  OBVIOUS
<1>4. /\ \A p \in sessions : p[1] = "session" /\ p[2] \in Worker /\ p = <<"session", p[2]>>
      /\ \A p \in clients : p[1] = "client" /\ p[2] \in Worker /\ p = <<"client", p[2]>>
      /\ \A p \in users : p[1] = "user" /\ p[2] \in Worker
  OBVIOUS
<1>5. /\ R[listen] = {connect} /\ W[listen] = {} /\ R[signal] = {} /\ W[signal] = {}
      /\ \A p \in sessions : R[p] = {<<"lines", p[2]>>} /\ W[p] = {<<"replies", p[2]>>}
      /\ \A p \in clients : R[p] = {<<"replies", p[2]>>} /\ W[p] = {connect, <<"lines", p[2]>>}
      /\ \A p \in users : R[p] = {} /\ W[p] = {}
      /\ \A p \in P : D[p] = {}
  BY <1>3, <1>4
<1>6. AllCoded(code, R, W, D, sessions)
  <2>1. Coded(Listen, {connect}, {}, {}, FALSE)
    <3>1. PICK c : c = connect
      OBVIOUS
    <3>2. KeepsTo(Until(Drain(c), {AcceptEnds}), {c}, {}, {}, FALSE)
      BY TakeKeeps
    <3>3. KeepsTo(RequestStop(CancelAll), {c}, {}, {}, FALSE)
            /\ KeepsTo(Join(All("session")), {c}, {}, {}, FALSE)
      BY OtherPhases
    <3> QED BY <3>1, <3>2, <3>3, CodedThree DEF Listen
  <2>2. Coded(<<RequestStop(AcceptEnds)>>, {}, {}, {}, FALSE)
    BY CodedOne, OtherPhases
  <2>3. ASSUME NEW k PROVE Coded(Session(k), {<<"lines", k>>}, {<<"replies", k>>}, {}, TRUE)
    <3>1. PICK a : a = <<"lines", k>>
      OBVIOUS
    <3>2. PICK b : b = <<"replies", k>>
      OBVIOUS
    <3>3. KeepsTo(Until(Relay(a, b, Forever), {CancelAll, Down(k)}), {a}, {b}, {}, TRUE)
      BY RelayKeeps
    <3>4. KeepsTo(Spawned(listen, k), {a}, {b}, {}, TRUE)
      BY OtherPhases
    <3> QED BY <3>1, <3>2, <3>3, <3>4, CodedTwo DEF Session
  <2>4. ASSUME NEW k
        PROVE  Coded(TelnetClient(k), {<<"replies", k>>}, {connect, <<"lines", k>>}, {}, FALSE)
    <3>1. PICK a : a = <<"lines", k>>
      OBVIOUS
    <3>2. PICK b : b = <<"replies", k>>
      OBVIOUS
    <3>3. PICK c : c = connect
      OBVIOUS
    <3>4. KeepsTo(Until(Ask(a, b, 2), {CancelAll, Down(k)}), {b}, {c, a}, {}, FALSE)
      BY AskKeeps
    <3>5. KeepsTo(SendAll(c, 1), {b}, {c, a}, {}, FALSE)
      BY SendAllKeeps
    <3> QED BY <3>1, <3>2, <3>3, <3>4, <3>5, CodedTwo DEF TelnetClient
  <2>5. /\ code[listen] = Listen /\ code[signal] = <<RequestStop(AcceptEnds)>>
        /\ \A p \in sessions : code[p] = Session(p[2])
        /\ \A p \in clients : code[p] = TelnetClient(p[2])
        /\ \A p \in users : code[p] = HangUp(p[2])
    BY <1>3, <1>4 DEF EchoServer, :>, @@
  <2>open. ASSUME NEW k PROVE Coded(HangUp(k), {}, {}, {}, FALSE)
    BY CodedOne, OtherPhases DEF HangUp
  <2> HIDE DEF R, W, D, code, listen, signal, connect, sessions, clients, users
  <2>6. ASSUME NEW p \in sessions PROVE Coded(code[p], R[p], W[p], D[p], TRUE)
    <3>1. /\ code[p] = Session(p[2]) /\ R[p] = {<<"lines", p[2]>>}
          /\ W[p] = {<<"replies", p[2]>>} /\ D[p] = {}
      BY <1>5, <2>5
    <3> QED BY <3>1, <2>3
  <2>7. ASSUME NEW p \in clients PROVE Coded(code[p], R[p], W[p], D[p], FALSE)
    <3>1. /\ code[p] = TelnetClient(p[2]) /\ R[p] = {<<"replies", p[2]>>}
          /\ W[p] = {connect, <<"lines", p[2]>>} /\ D[p] = {}
      BY <1>5, <2>5
    <3> QED BY <3>1, <2>4
  <2>8. Coded(code[listen], R[listen], W[listen], D[listen], FALSE)
    BY <1>5, <2>1, <2>5
  <2>9. Coded(code[signal], R[signal], W[signal], D[signal], FALSE)
    BY <1>5, <2>2, <2>5
  <2>10. ASSUME NEW p \in users PROVE Coded(code[p], R[p], W[p], D[p], FALSE)
    <3>1. code[p] = HangUp(p[2]) /\ R[p] = {} /\ W[p] = {} /\ D[p] = {}
      BY <1>5, <2>5
    <3> QED BY <3>1, <2>open
  <2> QED BY <1>2, <1>3, <2>6, <2>7, <2>8, <2>9, <2>10 DEF AllCoded
<1>7. Wired(DOMAIN code, DOMAIN cap, R, W, D, sessions)
  <2> HIDE DEF R, W, D, cap, code
  <2>1. \A p \in P : R[p] \subseteq Q /\ W[p] \subseteq Q /\ D[p] \subseteq Q
    BY <1>4, <1>5
  <2>2. \A j, k : <<"lines", j>> # connect /\ <<"replies", j>> # connect
          /\ <<"lines", j>> # <<"replies", k>>
    OBVIOUS
  <2>3. \A p, q \in P : \A c, d \in W[p] \cap R[q] : c = d
    <3> HIDE DEF connect
    <3> QED BY <1>5, <2>2
  <2>4. ASSUME NEW p \in sessions, NEW v \in P, W[v] \cap R[p] # {}
        PROVE  v = <<"client", p[2]>>
    <3>1. <<"lines", p[2]>> \in W[v]
      BY <1>5, <2>4
    <3>2. v \in clients /\ <<"lines", p[2]>> \in {connect, <<"lines", v[2]>>}
      BY <1>5, <2>2, <3>1
    <3>3. p[2] = v[2]
      BY <3>2
    <3> QED BY <1>4, <3>2, <3>3
  <2>5. \A p \in sessions : \A v, w \in P : W[v] \cap R[p] # {} /\ W[w] \cap R[p] # {} => v = w
    BY <2>4
  <2> QED BY <1>1, <1>2, <2>1, <2>3, <2>5 DEF Wired
<1> HIDE DEF R, W, D, cap, code
<1>8. Sound(cap, code)
  BY <1>open, <1>1, <1>6, <1>7, CodedSound
<1> QED BY <1>8 DEF cap, code

-----------------------------------------------------------------------------
\* Every program is sound.
ChannelSound(n) == Sound(ChannelProgram(n).cap, ChannelProgram(n).code)

LEMMA ChannelProgramsSound == \A n \in ChannelNames : ChannelSound(n)
<1>1. /\ ChannelSound("rendezvous")
      /\ ChannelSound("buffered")
      /\ ChannelSound("spsc")
      /\ ChannelSound("backpressure")
      /\ ChannelSound("range")
  BY ChannelConstants, RendezvousSound, BufferedSound, CloseAndRangeSound
       DEF ChannelSound, ChannelProgram, Spsc, Backpressure
<1>2. /\ ChannelSound("sum")
      /\ ChannelSound("alternate")
      /\ ChannelSound("duplex")
      /\ ChannelSound("credit")
      /\ ChannelSound("pingpong")
  BY ChannelConstants, ChannelSumSound, AlternateSound, DuplexSound, CreditSound, PingPongSound
       DEF ChannelSound, ChannelProgram
<1>3. /\ ChannelSound("pingpong actors")
      /\ ChannelSound("fanin")
      /\ ChannelSound("pool")
      /\ ChannelSound("main pool")
      /\ ChannelSound("pipeline")
  BY ChannelConstants, PingPongActorsSound, FanInSound, PoolSound, MainPoolSound, PipelineSound
       DEF ChannelSound, ChannelProgram
<1>4. /\ ChannelSound("long pipeline")
      /\ ChannelSound("mpsc")
      /\ ChannelSound("gathered mpsc")
      /\ ChannelSound("counting mpsc")
      /\ ChannelSound("done")
  BY ChannelConstants, LongPipelineSound, MpscSound, GatheredMpscSound, CountingMpscSound,
          DoneChannelSound DEF ChannelSound, ChannelProgram
<1>5. /\ ChannelSound("timeout")
      /\ ChannelSound("select")
      /\ ChannelSound("race")
      /\ ChannelSound("sieve")
      /\ ChannelSound("echo tcp")
  BY ChannelConstants, TimeoutSound, SelectTwoSound, RaceTwoSound, SieveSound, EchoTcpSound
       DEF ChannelSound, ChannelProgram
<1>6. /\ ChannelSound("echo udp")
  BY ChannelConstants, EchoUdpSound DEF ChannelSound, ChannelProgram
<1> QED BY <1>1, <1>2, <1>3, <1>4, <1>5, <1>6 DEF ChannelNames

ThreadSound(n) == Sound(ThreadProgram(n).cap, ThreadProgram(n).code)

LEMMA SharedFields ==
  ASSUME NEW s, NEW r, NEW pr PROVE WithShared(s, r, pr).cap = pr.cap
          /\ WithShared(s, r, pr).code = pr.code
BY DEF WithShared

LEMMA ThreadProgramsSound == \A n \in ThreadNames : ThreadSound(n)
<1>1. /\ ThreadSound("cooperative stop")
      /\ ThreadSound("stop callback")
      /\ ThreadSound("auto join")
      /\ ThreadSound("interruptible wait")
      /\ ThreadSound("coordinated shutdown")
      /\ ThreadSound("external stop")
  <2>1. /\ CooperativeStop.cap = NoChannels /\ StopCallback.cap = NoChannels
          /\ AutoJoin.cap = NoChannels
        /\ InterruptibleWait.cap = NoChannels /\ CoordinatedShutdown.cap = NoChannels
             /\ ExternalStop.cap = NoChannels
    BY DEF CooperativeStop, StopCallback, AutoJoin, InterruptibleWait, CoordinatedShutdown,
            ExternalStop
  <2> QED BY <2>1, JthreadIdle, IdleSound, SharedFields DEF ThreadSound, ThreadProgram
<1>2. /\ ThreadSound("strand")
      /\ ThreadSound("folly tasks")
      /\ ThreadSound("folly locks")
  <2>1. Strand.cap = NoChannels /\ FollyTasks.cap = NoChannels /\ FollyLocks.cap = NoChannels
    BY DEF Strand, FollyTasks, FollyLocks
  <2> QED BY <2>1, StrandIdle, IdleSound, SharedFields DEF ThreadSound, ThreadProgram
<1>3. /\ ThreadSound("timers")
      /\ ThreadSound("cancellable")
      /\ ThreadSound("detached")
      /\ ThreadSound("promise handle")
  <2>1. /\ Timers.cap = NoChannels /\ SpawnCancellable.cap = NoChannels
          /\ SpawnDetached.cap = NoChannels
        /\ PromiseHandle.cap = NoChannels
    BY DEF Timers, SpawnCancellable, SpawnDetached, PromiseHandle
  <2> QED BY <2>1, TaskIdle, IdleSound, SharedFields DEF ThreadSound, ThreadProgram
<1>4. ThreadSound("flow")
  <2>1. PICK k : k = Workers + 1
    OBVIOUS
  <2>2. k \in Nat
    BY <2>1, ChannelConstants
  <2>3. Sound(FlowPipeline(k).cap, FlowPipeline(k).code)
    BY <2>2, FlowSound
  <2> QED BY <2>1, <2>3, SharedFields DEF ThreadSound, ThreadProgram
<1>5. ThreadSound("bridge") /\ ThreadSound("awaitables")
  BY BridgeSound, AwaitablesSound, SharedFields DEF ThreadSound, ThreadProgram
<1>6. ThreadSound("future")
  BY FutureSound, SharedFields DEF ThreadSound, ThreadProgram
<1>7. ThreadSound("echo server")
  <2>1. PICK pr : pr = ThreadProgram("echo server")
    OBVIOUS
  <2>2. pr = WithShared(Zeros({AcceptEnds, CancelAll} \cup {Down(k) : k \in Worker}), <<>>, EchoServer)
    BY <2>1 DEF ThreadProgram
  <2>3. pr.cap = EchoServer.cap /\ pr.code = EchoServer.code
    BY <2>2, SharedFields
  <2> QED BY <2>1, <2>3, EchoServerSound DEF ThreadSound
<1> QED BY <1>1, <1>2, <1>3, <1>4, <1>5, <1>6, <1>7 DEF ThreadNames

LEMMA TidyOf ==
  ASSUME NEW pr, NEW role, NEW q, pr.cap = q.cap, pr.code = q.code, Tidy(q, role)
  PROVE  Tidy(pr, role)
BY DEF Tidy

LEMMA ProgramsTidy ==
  \A n \in Programs : /\ \E role : Tidy(Program(n), role)
                      /\ Orderly(Program(n).code, DOMAIN Program(n).cap)
<1> SUFFICES ASSUME NEW n \in Programs
             PROVE  /\ \E role : Tidy(Program(n), role)
                    /\ Orderly(Program(n).code, DOMAIN Program(n).cap)
  OBVIOUS
<1>1. PICK pr : pr = IF n \in ThreadNames THEN ThreadProgram(n) ELSE WithShared(<<>>, <<>>, ChannelProgram(n))
  OBVIOUS
<1>2. Program(n).cap = pr.cap /\ Program(n).code = pr.code
  BY <1>1 DEF Program
<1>3. Sound(pr.cap, pr.code)
  <2>1. CASE n \in ThreadNames
    BY <2>1, <1>1, ThreadProgramsSound DEF ThreadSound
  <2>2. CASE n \notin ThreadNames
    <3>1. n \in ChannelNames
      BY <2>2, ChannelConstants
    <3>2. pr.cap = ChannelProgram(n).cap /\ pr.code = ChannelProgram(n).code
      BY <1>1, <2>2, SharedFields
    <3> QED BY <3>1, <3>2, ChannelProgramsSound DEF ChannelSound
  <2> QED BY <2>1, <2>2
<1>4. PICK q : q = [cap |-> pr.cap, code |-> pr.code]
  OBVIOUS
<1>5. q.cap = pr.cap /\ q.code = pr.code
  BY <1>4
<1>6. PICK role : Tidy(q, role)
  BY <1>3, <1>4 DEF Sound, Tame
<1>7. Orderly(Program(n).code, DOMAIN Program(n).cap)
  BY <1>2, <1>3 DEF Sound
<1> QED BY <1>2, <1>5, <1>6, <1>7, TidyOf

\* Init: nobody has moved, nothing is in a channel.
LEMMA InitInv == Init => \E role : Inv(role)
<1> SUFFICES ASSUME Init PROVE \E role : Inv(role)
  OBVIOUS
<1>1. PICK n \in Programs :
        /\ program = Program(n)
        /\ chan = [c \in DOMAIN program.cap |->
                     [buf |-> <<>>, senders |-> <<>>, receivers |-> <<>>, closed |-> FALSE]]
        /\ proc = [p \in DOMAIN program.code |->
                     [at |-> 1, k |-> 0, status |-> "run", hand |-> <<>>, sent |-> 0,
                      got |-> <<>>, arrived |-> {}, lost |-> {}, reg |-> 0]]
  BY DEF Init
<1>2. PICK role : Tidy(program, role)
  BY <1>1, ProgramsTidy
<1>3. Shape(chan, proc)
  BY <1>1 DEF Shape, Program
<1>4. \A p \in Proc : LET x == proc[p]
                     IN  /\ x.at = 1 /\ x.k = 0 /\ x.status = "run" /\ x.sent = 0 /\ x.got = <<>>
                         /\ x.arrived = {} /\ x.lost = {} /\ ProcType(Proc, x)
  <2> SUFFICES ASSUME NEW p \in Proc
               PROVE  LET x == proc[p]
                      IN  /\ x.at = 1 /\ x.k = 0 /\ x.status = "run" /\ x.sent = 0 /\ x.got = <<>>
                          /\ x.arrived = {} /\ x.lost = {} /\ ProcType(Proc, x)
    OBVIOUS
  <2>1. proc[p] = [at |-> 1, k |-> 0, status |-> "run", hand |-> <<>>, sent |-> 0,
                   got |-> <<>>, arrived |-> {}, lost |-> {}, reg |-> 0]
    BY <1>1 DEF Proc
  <2> QED BY <2>1 DEF ProcType
<1>5. \A c \in Chan : LET y == chan[c]
                     IN  /\ y.buf = <<>> /\ y.senders = <<>> /\ y.receivers = <<>>
                             /\ ChanType(Proc, y)
  <2> SUFFICES ASSUME NEW c \in Chan
               PROVE  LET y == chan[c]
                      IN  /\ y.buf = <<>> /\ y.senders = <<>> /\ y.receivers = <<>>
                              /\ ChanType(Proc, y)
    OBVIOUS
  <2>1. chan[c] = [buf |-> <<>>, senders |-> <<>>, receivers |-> <<>>, closed |-> FALSE]
    BY <1>1 DEF Chan
  <2> QED BY <2>1 DEF ChanType
<1>6. \A e : ~In(<<>>, e)
  BY DEF In
<1>7. \A i : ~Holding(chan, proc, i)
  BY <1>4, <1>5, <1>6 DEF Holding, Has, Proc, Chan
<1>8. Procs(role, proc)
  <2> SUFFICES ASSUME NEW p \in Proc PROVE ProcOK(p, Code(p), proc[p], role)
    BY <1>4 DEF Procs, Proc
  <2>1. \A op : Turn(Code(p), proc[p], op) => op # "s" \/ ~role.relays[p]
    <3> SUFFICES ASSUME role.relays[p], Turn(Code(p), proc[p], "s") PROVE FALSE
      OBVIOUS
    <3>1. Fits(Code(p), role.reads[p], role.writes[p], role.closes[p], role.relays[p])
      BY <1>2, <1>3 DEF Tidy, Code, Shape, Proc
    <3>2. Code(p)[1].op = "loop" /\ 1 \in DOMAIN Code(p) /\ proc[p].at = 1 /\ proc[p].k = 0
      BY <1>4, <3>1 DEF Turn, Fits
    <3> DEFINE ph == Code(p)[1]
    <3>3. FitsLoop(ph, role.reads[p], role.writes[p], role.relays[p])
      BY <3>1, <3>2 DEF Fits, FitsPhase
    <3>4. Len(ph.pattern) \in Nat \ {0} /\ ph.pattern \in Seq({"s", "r", "t"})
      BY <3>3, EmptySeq DEF FitsLoop
    <3>5. ph.pattern[1] = "s" /\ 1 \in DOMAIN ph.pattern
      BY <3>2, <3>4 DEF Turn
    <3>6. ph.pattern = <<"r", "s">>
      BY <3>3, <3>5 DEF FitsLoop
    <3> QED BY <3>5, <3>6
  <2>2. /\ proc[p].at <= Len(Code(p)) + 1
    <3>1. Fits(Code(p), role.reads[p], role.writes[p], role.closes[p], role.relays[p])
      BY <1>2, <1>3 DEF Tidy, Code, Shape, Proc
    <3> QED BY <3>1, <1>4 DEF Fits
  <2>3. /\ proc[p].status = "run" /\ proc[p].got = <<>> /\ proc[p].arrived = {}
    BY <1>4
  <2> QED BY <2>1, <2>2, <2>3 DEF ProcOK, Sorted, Has, In
<1>9. Chans(role, chan, proc)
  <2> SUFFICES ASSUME NEW c \in Chan PROVE ChanOK(c, chan[c], Cap(c), role)
    BY <1>5 DEF Chans, Chan, Proc
  <2>1. Cap(c) \in Nat
    BY <1>2, <1>3 DEF Tidy, Cap, Shape, Chan
  <2>2. chan[c].buf = <<>> /\ chan[c].senders = <<>> /\ chan[c].receivers = <<>>
    BY <1>5
  <2> QED BY <2>1, <2>2 DEF ChanOK, Sorted, NoDup
<1>10. Waiting(role, chan, proc) /\ Suspending(chan, proc) /\ Ahead(role, chan, proc)
  <2>1. Waiting(role, chan, proc) /\ Suspending(chan, proc)
    BY <1>5, <1>6 DEF Waiting, Suspending, Chan
  <2>2. Ahead(role, chan, proc)
    BY <1>4, <1>6 DEF Ahead, Has, Proc
  <2> QED BY <2>1, <2>2
<1>11. Accounts(role, chan, proc)
  BY <1>7 DEF Accounts
<1> QED BY <1>2, <1>3, <1>8, <1>9, <1>10, <1>11 DEF Inv, InvAt

LEMMA InitClosing == Init => Closing(chan, proc)
<1> SUFFICES ASSUME Init PROVE Closing(chan, proc)
  OBVIOUS
<1>1. PICK n \in Programs :
        /\ program = Program(n)
        /\ chan = [c \in DOMAIN program.cap |->
                     [buf |-> <<>>, senders |-> <<>>, receivers |-> <<>>, closed |-> FALSE]]
        /\ proc = [p \in DOMAIN program.code |->
                     [at |-> 1, k |-> 0, status |-> "run", hand |-> <<>>, sent |-> 0,
                      got |-> <<>>, arrived |-> {}, lost |-> {}, reg |-> 0]]
  BY DEF Init
<1>2. Orderly(program.code, DOMAIN program.cap)
  BY <1>1, ProgramsTidy
<1>3. \A p \in DOMAIN proc : proc[p].at = 1
  BY <1>1
<1>4. \A c \in DOMAIN chan : chan[c].buf = <<>> /\ ~chan[c].closed
  BY <1>1
<1>5. ASSUME NEW p \in DOMAIN proc, NEW k \in DOMAIN Code(p) PROVE ~(k < proc[p].at)
  <2>1. PICK role : Inv(role)
    BY InitInv
  <2>2. k \in 1..Len(Code(p)) /\ Len(Code(p)) \in Nat
    BY <1>5, <2>1, InvFacts DEF Proc
  <2> QED BY <1>3, <1>5, <2>2
<1>6. Shut(chan, proc) /\ NoStop(chan)
  BY <1>4 DEF Shut, NoStop, In
<1>7. Joined(proc) /\ Drained(chan, proc)
  BY <1>5 DEF Joined, Drained
<1> QED BY <1>2, <1>6, <1>7 DEF Closing

LEMMA TypedByInv == ASSUME NEW role, Inv(role) PROVE TypeOK
<1>1. \A c \in Chan :
        /\ Len(chan[c].buf) <= Cap(c)
        /\ chan[c].receivers # <<>> => chan[c].buf = <<>> /\ chan[c].senders = <<>>
        /\ chan[c].senders # <<>> => Len(chan[c].buf) = Cap(c)
        /\ chan[c].closed \in BOOLEAN
  BY DEF Inv, InvAt, Chans, ChanOK, ChanType, Chan
<1>2. \A p \in Proc : /\ proc[p].status \in {"run", "send", "receive", "won"}
                     /\ proc[p].at \in 1..(Len(Code(p)) + 1)
                     /\ proc[p].k \in Nat /\ proc[p].sent \in Nat
  <2> SUFFICES ASSUME NEW p \in Proc
               PROVE  /\ proc[p].status \in {"run", "send", "receive", "won"}
                      /\ proc[p].at \in 1..(Len(Code(p)) + 1)
                      /\ proc[p].k \in Nat /\ proc[p].sent \in Nat
    OBVIOUS
  <2>1. Fields(proc[p]) /\ proc[p].at <= Len(Code(p)) + 1
    BY TypeFields DEF Inv, InvAt, Procs, ProcOK, Proc
  <2>2. Len(Code(p)) \in Nat
    BY DEF Inv, InvAt, Shape, Tidy, Fits, Code, Proc
  <2> QED BY <2>1, <2>2 DEF Fields
<1>3. program.name \in Programs
  BY DEF Inv, InvAt, Shape
<1> QED BY <1>1, <1>2, <1>3 DEF TypeOK

LEMMA OrderedByInv == ASSUME NEW role, Inv(role) PROVE InOrder
<1> SUFFICES ASSUME NEW p \in Proc, NEW j \in DOMAIN proc[p].got, NEW k \in DOMAIN proc[p].got,
                    j < k, proc[p].got[j].from = proc[p].got[k].from,
                    proc[p].got[j].by = proc[p].got[k].by
             PROVE  proc[p].got[j].seq < proc[p].got[k].seq
  BY DEF InOrder
<1>1. Sorted(proc[p].got) /\ proc[p].got[k].seq # 0
  BY DEF Inv, InvAt, Procs, ProcOK, Proc
<1> QED BY <1>1 DEF Sorted, Less

\* The inductive invariant: in every reachable state some assignment of roles
\* makes the program tidy, channels and processes agree with it, and what is closed
\* or behind somebody is so in order.
THEOREM InductiveInvariant == Spec => []((\E role : Inv(role)) /\ Closing(chan, proc))
<1>1. Init => (\E role : Inv(role)) /\ Closing(chan, proc)
  BY InitInv, InitClosing
<1>2. (\E role : Inv(role)) /\ Closing(chan, proc) /\ [Next]_vars
        => ((\E role : Inv(role)) /\ Closing(chan, proc))'
  <2> SUFFICES ASSUME \E role : Inv(role), Closing(chan, proc), [Next]_vars
               PROVE  ((\E role : Inv(role)) /\ Closing(chan, proc))'
    OBVIOUS
  <2>1. (\E role : Inv(role))'
    BY NextInv
  <2>2. Closing(chan, proc)'
    <3>1. PICK role : Inv(role)
      OBVIOUS
    <3> QED BY <3>1, NextClosing
  <2> QED BY <2>1, <2>2
<1> QED BY <1>1, <1>2, PTL DEF Spec

\* Types, and what a channel keeps to: a value waits only if no receiver does,
\* a sender only at a full buffer, and no buffer holds more than its capacity.
THEOREM TypeCorrect == Spec => []TypeOK
<1>1. (\E role : Inv(role)) => TypeOK
  BY TypedByInv
<1> QED BY <1>1, InductiveInvariant, PTL

\* What a process receives comes in the order in which its maker sent it and not
\* twice, through buffers, suspended senders, selects and chains of relays.
THEOREM ReceivedInOrder == Spec => []InOrder
<1>1. (\E role : Inv(role)) => InOrder
  BY OrderedByInv
<1> QED BY <1>1, InductiveInvariant, PTL

\* Nobody sends to a closed channel, is suspended in one when it is closed, or
\* counts on a value that will not come from it: each program closes a channel
\* when all that write to it, and all that count on it, are past that.
THEOREM NobodyEverFails == Spec => []NobodyFails
<1>1. (\E role : Inv(role)) /\ Closing(chan, proc) => NobodyFails
  BY ClosingIsSafe
<1> QED BY <1>1, InductiveInvariant, PTL

=============================================================================
