----------------------------- MODULE RaftProofs -----------------------------
(***************************************************************************)
(* Proofs about Raft, for any configuration, log, messages of users and    *)
(* whatever an uninitialised leader_commit holds, and about the array      *)
(* under a server's log.                                                   *)
(***************************************************************************)
EXTENDS Raft, RaftLog, FiniteSetTheorems, TLAPS

-----------------------------------------------------------------------------
(* Numbers and entries *)

\* A non-empty set of natural numbers has a least element.
LEMMA LeastNumber ==
    ASSUME NEW T, T \subseteq Nat, T # {}
    PROVE  \E x \in T : \A y \in T : x <= y
<1> DEFINE R == OpToRel(<, Nat)
<1>1. IsWellFoundedOn(R, Nat)
  BY NatLessThanWellFounded, Zenon
<1>2. \A x, y \in Nat : x < y => <<x, y>> \in R
  BY DEF OpToRel
<1> HIDE DEF R
<1>3. PICK x \in T : \A y \in T : ~(<<y, x>> \in R)
  BY <1>1, WFMin, Zenon
<1>4. \A y \in T : ~(y < x)
  BY <1>2, <1>3, Zenon
<1>5. \A y \in T : x <= y
  BY <1>4
<1> QED
  BY <1>5

\* A function on 1 .. n is a sequence.
LEMMA FunctionSequence ==
    ASSUME NEW S, NEW n \in Nat, NEW f \in [1 .. n -> S]
    PROVE  f \in Seq(S) /\ Len(f) = n
  OBVIOUS

\* What is put behind a sequence leaves it as it is.
LEMMA Longer ==
    ASSUME NEW S, NEW a \in Seq(S), NEW b \in Seq(S)
    PROVE  /\ a \o b \in Seq(S) /\ Len(a \o b) = Len(a) + Len(b)
           /\ \A i \in 1 .. Len(a) : (a \o b)[i] = a[i]
           /\ \A i \in 1 .. Len(b) : (a \o b)[Len(a) + i] = b[i]
           /\ SubSeq(a \o b, 1, Len(a)) = a
  OBVIOUS

\* A sequence put together from the two parts of g is g.
LEMMA Joined ==
    ASSUME NEW a \in Seq(Nat), NEW b \in Seq(Nat), NEW g,
           \A i \in 1 .. Len(a) : a[i] = g[i],
           \A i \in 1 .. Len(b) : b[i] = g[Len(a) + i]
    PROVE  \A i \in 1 .. Len(a) + Len(b) : (a \o b)[i] = g[i]
<1> TAKE i \in 1 .. Len(a) + Len(b)
<1>1. CASE i <= Len(a)
  BY <1>1, Longer
<1>2. CASE i > Len(a)
  <2> DEFINE j == i - Len(a)
  <2>1. j \in 1 .. Len(b) /\ Len(a) + j = i
    BY <1>2
  <2> HIDE DEF j
  <2>2. (a \o b)[Len(a) + j] = b[j] /\ b[j] = g[Len(a) + j]
    BY <2>1, Longer
  <2> QED
    BY <2>1, <2>2
<1> QED
  BY <1>1, <1>2

\* The fields of a server.
LEMMA ServerFields ==
    ASSUME NEW me \in Servers
    PROVE  /\ me.current_term \in Nat /\ me.voted_for \in Nodes \union {NoVote}
           /\ me.current_idx \in Nat \ {0} /\ me.commit_idx \in Nat
           /\ me.last_applied_idx \in Nat /\ me.votes_for_me \subseteq Nodes
           /\ me.next_idx \in [Nodes -> Int]
           /\ me.log \in Seq(Entries) /\ Len(me.log) \in Nat
           /\ \A i \in 1 .. Len(me.log) : me.log[i].id \in Nat /\ me.log[i].term \in Nat
                                          /\ me.log[i].num_nodes \in Nat
           /\ Unapplied(me) \in Int
<1>1. /\ me.current_term \in Nat /\ me.voted_for \in Nodes \union {NoVote}
      /\ me.current_idx \in Nat \ {0} /\ me.commit_idx \in Nat
      /\ me.last_applied_idx \in Nat /\ me.votes_for_me \subseteq Nodes
      /\ me.next_idx \in [Nodes -> Int]
      /\ me.log \in Seq(Entries)
  BY DEF Servers
<1>2. Len(me.log) \in Nat /\ \A i \in 1 .. Len(me.log) : me.log[i] \in Entries
  BY <1>1
<1> QED
  BY <1>1, <1>2, SMTT(30) DEF Entries, Unapplied

\* Applying entries keeps the record, and moves only the two indexes.
LEMMA ApplyEntry ==
    ASSUME NEW me \in Servers, NEW k \in Nat
    PROVE  /\ raft_apply_entry(me, k) \in Servers
           /\ raft_apply_entry(me, k).last_applied_idx = me.last_applied_idx + k
           /\ raft_apply_entry(me, k).commit_idx >= me.commit_idx
           /\ raft_apply_entry(me, k).commit_idx >= me.last_applied_idx + k
           /\ raft_apply_entry(me, k).log = me.log
           /\ raft_apply_entry(me, k).current_term = me.current_term
           /\ raft_apply_entry(me, k).state = me.state
           /\ raft_apply_entry(me, k).votes_for_me = me.votes_for_me
           /\ raft_apply_entry(me, k).voted_for = me.voted_for
<1> DEFINE x == me.last_applied_idx + k
           y == IF me.commit_idx < x THEN x ELSE me.commit_idx
<1>1. x \in Nat /\ y \in Nat /\ y >= x /\ y >= me.commit_idx
  BY ServerFields
<1>2. raft_apply_entry(me, k) = [me EXCEPT !.last_applied_idx = x, !.commit_idx = y]
  BY DEF raft_apply_entry
<1> HIDE DEF y
<1> QED
  BY <1>1, <1>2, Zenon DEF Servers

\* The ids handed to applylog are ids of the log.
LEMMA AppliedIdsType ==
    ASSUME NEW me \in Servers, NEW k \in Nat, k = 0 \/ k <= Unapplied(me)
    PROVE  AppliedIds(me, k) \in Seq(Nat) /\ Len(AppliedIds(me, k)) = k
<1>1. \A i \in 1 .. k : me.last_applied_idx + i \in 1 .. Len(me.log)
  BY ServerFields DEF Unapplied
<1>2. \A i \in 1 .. k : me.log[me.last_applied_idx + i].id \in Nat
  BY <1>1, ServerFields
<1> QED
  BY <1>2 DEF AppliedIds

\* Acknowledged is defined: the run of marked entries behind the applied ones
\* has an end.
LEMMA AcknowledgedRun ==
    ASSUME NEW me \in Servers
    PROVE  Acknowledged(me) \in Nat /\ (Acknowledged(me) = 0 \/ Acknowledged(me) <= Unapplied(me))
<1> DEFINE U == Unapplied(me)
           Marked(i) == NumNodes \div 2 <= me.log[me.last_applied_idx + i].num_nodes
           Run(k) == /\ k = 0 \/ k <= U
                     /\ \A i \in 1 .. k : Marked(i)
                     /\ (k < U) => ~Marked(k + 1)
<1>1. U \in Int /\ U <= Len(me.log) /\ Len(me.log) \in Nat
  BY ServerFields DEF Unapplied
<1>2. \E k \in 0 .. Len(me.log) : Run(k)
  <2>1. CASE U <= 0
    <3>1. Run(0)
      BY <1>1, <2>1
    <3> QED
      BY <1>1, <3>1
  <2>2. CASE U > 0
    <3> DEFINE T == {k \in Nat : k = U \/ ~Marked(k + 1)}
    <3>1. U \in T /\ T \subseteq Nat
      BY <1>1, <2>2
    <3>2. PICK k \in T : \A j \in T : k <= j
      BY <3>1, LeastNumber, Zenon
    <3>3. k \in Nat /\ k <= U
      BY <3>1, <3>2
    <3>4. \A i \in 1 .. k : Marked(i)
      <4> TAKE i \in 1 .. k
      <4>1. i - 1 \in Nat /\ i - 1 < k /\ (i - 1) + 1 = i
        BY <3>3
      <4>2. i - 1 \notin T
        BY <3>2, <3>3, <4>1
      <4> HIDE DEF Marked
      <4> QED
        BY <4>1, <4>2
    <3>5. (k < U) => ~Marked(k + 1)
      BY <1>1, <3>2, <3>3
    <3>6. Run(k)
      BY <3>3, <3>4, <3>5
    <3> QED
      BY <1>1, <3>3, <3>6
  <2> QED
    BY <1>1, <2>1, <2>2
<1>3. Acknowledged(me) = CHOOSE k \in 0 .. Len(me.log) : Run(k)
  BY DEF Acknowledged
<1> HIDE DEF Run
<1>4. Acknowledged(me) \in 0 .. Len(me.log) /\ Run(Acknowledged(me))
  BY <1>2, <1>3
<1> QED
  BY <1>1, <1>4 DEF Run
-----------------------------------------------------------------------------
(* What a step may do to a server *)

\* From old to new: the term does not go back, the first n entries of the log
\* keep their ids, k of them are applied and given to applylog (ap becomes
\* ap2), and applied entries go only if the server is counted as cut.
Progress(old, new, ap, ap2, iscut) ==
    /\ new \in Servers
    /\ new.current_term >= old.current_term
    /\ \E k \in Nat, n \in 0 .. Len(old.log) :
          /\ new.last_applied_idx = old.last_applied_idx + k
          /\ k > 0 => new.last_applied_idx <= n /\ new.last_applied_idx <= new.commit_idx
          /\ n <= Len(new.log) /\ \A i \in 1 .. n : new.log[i].id = old.log[i].id
          /\ n < Len(old.log) /\ n < old.last_applied_idx => iscut
          /\ ap2 = ap \o AppliedIds(old, k)
    /\ new.commit_idx < old.commit_idx =>
          \E i \in DOMAIN old.log : old.log[i].id < old.commit_idx

\* A server that keeps its log and its indexes.
LEMMA KeptLog ==
    ASSUME NEW old \in Servers, NEW new \in Servers, NEW ap \in Seq(Nat), NEW iscut,
           new.current_term >= old.current_term, new.log = old.log,
           new.last_applied_idx = old.last_applied_idx, new.commit_idx = old.commit_idx
    PROVE  Progress(old, new, ap, ap, iscut)
<1>1. AppliedIds(old, 0) \in Seq(Nat) /\ Len(AppliedIds(old, 0)) = 0
  BY AppliedIdsType
<1>2. ap = ap \o AppliedIds(old, 0)
  BY <1>1
<1>3. Len(old.log) \in 0 .. Len(old.log) /\ old.last_applied_idx + 0 = old.last_applied_idx
      /\ old.commit_idx \in Nat
  BY ServerFields
<1>4. \E k \in Nat, n \in 0 .. Len(old.log) :
          /\ new.last_applied_idx = old.last_applied_idx + k
          /\ k > 0 => new.last_applied_idx <= n /\ new.last_applied_idx <= new.commit_idx
          /\ n <= Len(new.log) /\ \A i \in 1 .. n : new.log[i].id = old.log[i].id
          /\ n < Len(old.log) /\ n < old.last_applied_idx => iscut
          /\ ap = ap \o AppliedIds(old, k)
  <2> WITNESS 0 \in Nat, Len(old.log) \in 0 .. Len(old.log)
  <2> QED
    BY <1>2, <1>3
<1>5. ~(new.commit_idx < old.commit_idx)
  BY <1>3
<1> QED
  BY <1>4, <1>5 DEF Progress

\* A server that applies k entries of its log, and then keeps it.
LEMMA AppliedSome ==
    ASSUME NEW old \in Servers, NEW new \in Servers, NEW ap \in Seq(Nat), NEW iscut,
           NEW k \in Nat, k = 0 \/ k <= Unapplied(old),
           new.current_term >= old.current_term,
           Len(new.log) = Len(old.log),
           \A i \in 1 .. Len(old.log) : new.log[i].id = old.log[i].id,
           new.last_applied_idx = old.last_applied_idx + k,
           new.commit_idx >= old.commit_idx, k > 0 => new.last_applied_idx <= new.commit_idx
    PROVE  Progress(old, new, ap, ap \o AppliedIds(old, k), iscut)
<1>1. /\ Len(old.log) \in 0 .. Len(old.log) /\ Len(old.log) \in Nat
      /\ k > 0 => new.last_applied_idx <= Len(old.log)
      /\ ~(new.commit_idx < old.commit_idx)
  BY ServerFields, SMTT(30) DEF Unapplied
<1>2. \E j \in Nat, n \in 0 .. Len(old.log) :
          /\ new.last_applied_idx = old.last_applied_idx + j
          /\ j > 0 => new.last_applied_idx <= n /\ new.last_applied_idx <= new.commit_idx
          /\ n <= Len(new.log) /\ \A i \in 1 .. n : new.log[i].id = old.log[i].id
          /\ n < Len(old.log) /\ n < old.last_applied_idx => iscut
          /\ ap \o AppliedIds(old, k) = ap \o AppliedIds(old, j)
  <2> WITNESS k \in Nat, Len(old.log) \in 0 .. Len(old.log)
  <2> QED
    BY <1>1
<1> QED
  BY <1>1, <1>2, Zenon DEF Progress

\* Every server of a step.
Steps ==
    /\ \A s \in Nodes : Progress(server[s], server'[s], applied[s], applied'[s], s \in cut')
    /\ applied' \in [Nodes -> Seq(Nat)] /\ server' \in [Nodes -> Servers]
    /\ cut \subseteq cut' /\ cut' \subseteq Nodes

\* A step of one server.
LEMMA OneServer ==
    ASSUME TypeOK, NEW s \in Nodes, NEW new, server' = [server EXCEPT ![s] = new],
           NEW ap, applied' = [applied EXCEPT ![s] = ap], ap \in Seq(Nat),
           Progress(server[s], new, applied[s], ap, s \in cut'),
           cut \subseteq cut', cut' \subseteq Nodes
    PROVE  Steps
<1>1. /\ server'[s] = new /\ \A n \in Nodes \ {s} : server'[n] = server[n] /\ applied'[n] = applied[n]
      /\ applied'[s] = ap
  BY DEF TypeOK
<1>2. \A n \in Nodes : server[n] \in Servers /\ applied[n] \in Seq(Nat)
  BY DEF TypeOK
<1>3. \A n \in Nodes \ {s} : Progress(server[n], server[n], applied[n], applied[n], n \in cut')
  <2> TAKE n \in Nodes \ {s}
  <2>1. server[n] \in Servers /\ applied[n] \in Seq(Nat) /\ server[n].current_term \in Nat
    BY <1>2, ServerFields
  <2> QED
    BY <2>1, KeptLog
<1>4. new \in Servers
  BY DEF Progress
<1> QED
  BY <1>1, <1>3, <1>4 DEF TypeOK, Steps

\* A step in which no server applies anything.
LEMMA NothingApplied ==
    ASSUME TypeOK, NEW s \in Nodes, NEW new, server' = [server EXCEPT ![s] = new],
           UNCHANGED <<applied, cut>>,
           Progress(server[s], new, applied[s], applied[s], s \in cut)
    PROVE  Steps
<1>1. applied' = [applied EXCEPT ![s] = applied[s]] /\ applied[s] \in Seq(Nat)
  BY DEF TypeOK
<1>2. cut \subseteq cut' /\ cut' \subseteq Nodes /\ cut' = cut
  BY DEF TypeOK
<1> QED
  BY <1>1, <1>2, OneServer, Zenon

\* A step in which no server moves.
LEMMA NobodyMoves ==
    ASSUME TypeOK, UNCHANGED <<server, applied, cut>>
    PROVE  Steps
<1>1. \A n \in Nodes : server[n] \in Servers /\ applied[n] \in Seq(Nat)
  BY DEF TypeOK
<1>2. \A n \in Nodes : Progress(server[n], server[n], applied[n], applied[n], n \in cut)
  <2> TAKE n \in Nodes
  <2>1. server[n] \in Servers /\ applied[n] \in Seq(Nat) /\ server[n].current_term \in Nat
    BY <1>1, ServerFields
  <2> QED
    BY <2>1, KeptLog
<1> QED
  BY <1>2 DEF TypeOK, Steps
-----------------------------------------------------------------------------
(* The steps of the handlers *)

\* raft_periodic applies at most one entry.
LEMMA PeriodicStep ==
    ASSUME TypeOK, NEW s \in Nodes, raft_periodic(s) \/ raft_periodic_expired(s)
    PROVE  Steps
<1> DEFINE me == server[s]
<1>0. me \in Servers /\ applied[s] \in Seq(Nat) /\ applied \in [Nodes -> Seq(Nat)]
  BY DEF TypeOK
<1>1. cut \subseteq cut' /\ cut' \subseteq Nodes
  BY DEF TypeOK, raft_periodic, raft_periodic_expired
<1>2. ASSUME NEW k \in 0 .. 1, k = 0 \/ k <= Unapplied(me), NEW new \in Servers,
             server' = [server EXCEPT ![s] = new], Apply(s, me, k),
             new.current_term >= raft_apply_entry(me, k).current_term,
             new.log = raft_apply_entry(me, k).log,
             new.last_applied_idx = raft_apply_entry(me, k).last_applied_idx,
             new.commit_idx = raft_apply_entry(me, k).commit_idx
      PROVE  Steps
  <2>1. k \in Nat
    BY <1>2
  <2>2. Progress(me, new, applied[s], applied[s] \o AppliedIds(me, k), s \in cut')
    <3> HIDE DEF me
    <3> DEFINE up == raft_apply_entry(me, k)
    <3>1. /\ up.last_applied_idx = me.last_applied_idx + k /\ up.commit_idx >= me.commit_idx
          /\ up.commit_idx >= up.last_applied_idx /\ up.log = me.log
          /\ up.current_term = me.current_term
      BY <1>0, <2>1, ApplyEntry, Zenon
    <3> HIDE DEF up
    <3>2. /\ new.last_applied_idx = me.last_applied_idx + k /\ new.commit_idx >= me.commit_idx
          /\ new.last_applied_idx <= new.commit_idx /\ new.log = me.log
          /\ new.current_term >= me.current_term
      BY <1>0, <1>2, <3>1, ServerFields DEF up
    <3> QED
      BY <1>0, <1>2, <2>1, <3>2, AppliedSome
  <2>3. applied[s] \o AppliedIds(me, k) \in Seq(Nat)
    BY <1>0, <1>2, <2>1, AppliedIdsType
  <2>4. applied' = [applied EXCEPT ![s] = applied[s] \o AppliedIds(me, k)]
    BY <1>2 DEF Apply
  <2> QED
    BY <1>1, <1>2, <2>2, <2>3, <2>4, OneServer, Zenon
<1>3. CASE raft_periodic(s)
  <2>1. Unapplied(me) > 0 /\ server' = [server EXCEPT ![s] = raft_apply_entry(me, 1)]
        /\ Apply(s, me, 1)
    BY <1>3 DEF raft_periodic
  <2>2. 1 <= Unapplied(me)
    BY <1>0, <2>1, ServerFields
  <2>3. raft_apply_entry(me, 1) \in Servers /\ raft_apply_entry(me, 1).current_term \in Nat
    BY <1>0, ApplyEntry, ServerFields, Zenon
  <2> DEFINE up == raft_apply_entry(me, 1)
  <2>4. up.current_term >= up.current_term /\ 1 \in 0 .. 1
    BY <2>3
  <2> HIDE DEF me
  <2> QED
    BY <1>2, <2>1, <2>2, <2>3, <2>4, Zenon
<1>4. CASE raft_periodic_expired(s)
  <2> DEFINE lag == me.state = "follower" /\ me.last_applied_idx < me.commit_idx
             k == IF lag THEN 1 ELSE 0
             up == raft_apply_entry(me, k)
  <2>1. k \in 0 .. 1 /\ k \in Nat /\ (k = 0 \/ k <= Unapplied(me)) /\ Apply(s, me, k)
    BY <1>0, <1>4, ServerFields DEF raft_periodic_expired
  <2>2. up \in Servers /\ up.current_term \in Nat
    <3> HIDE DEF k
    <3> QED
      BY <1>0, <2>1, ApplyEntry, ServerFields
  <2>3. CASE me.state = "leader"
    <3>1. k = 0 /\ server' = server
      BY <1>4, <2>3 DEF raft_periodic_expired
    <3>2. server' = [server EXCEPT ![s] = me]
      BY <3>1 DEF TypeOK
    <3>4. AppliedIds(me, 0) \in Seq(Nat) /\ Len(AppliedIds(me, 0)) = 0
      BY <1>0, AppliedIdsType
    <3>5. applied[s] \o AppliedIds(me, 0) = applied[s]
      BY <1>0, <3>4
    <3>6. applied' = applied
      BY <1>0, <2>1, <3>1, <3>5 DEF Apply
    <3> QED
      BY <1>4, <3>1, <3>6, NobodyMoves DEF raft_periodic_expired
  <2>4. CASE me.state # "leader"
    <3> DEFINE c == raft_become_candidate(up, s)
    <3>1. server' = [server EXCEPT ![s] = c]
      BY <1>4, <2>4 DEF raft_periodic_expired
    <3> HIDE DEF up
    <3>2. /\ c \in Servers /\ c.current_term >= up.current_term /\ c.log = up.log
          /\ c.last_applied_idx = up.last_applied_idx /\ c.commit_idx = up.commit_idx
      <4> DEFINE t == up.current_term + 1
      <4>1. c = [up EXCEPT !.state = "candidate", !.current_term = t,
                           !.voted_for = s, !.votes_for_me = {}]
        BY DEF raft_become_candidate
      <4>2. t \in Nat /\ t >= up.current_term
        BY <2>2
      <4> HIDE DEF t, c
      <4> QED
        BY <2>2, <4>1, <4>2, Zenon DEF Servers
    <3> HIDE DEF c, k
    <3> QED
      BY <1>2, <2>1, <3>1, <3>2, Zenon DEF up
  <2> QED
    BY <2>3, <2>4
<1> QED
  BY <1>3, <1>4

\* A vote changes voted_for or the counted votes, and may make a leader.
LEMMA VoteStep ==
    ASSUME TypeOK, NEW m \in msgs,
           raft_recv_requestvote(m) \/ raft_recv_requestvote_response(m)
    PROVE  Steps
<1> DEFINE s == m.to
           me == server[s]
<1>0. m \in Messages
  BY DEF TypeOK
<1>1. CASE raft_recv_requestvote(m)
  <2>1. s \in Nodes /\ m.from \in Nodes
    BY <1>0, <1>1 DEF raft_recv_requestvote, Messages
  <2>2. me \in Servers /\ applied[s] \in Seq(Nat) /\ me.current_term \in Nat
    BY <2>1, ServerFields DEF TypeOK
  <2>3. PICK w \in Nodes \union {NoVote} : server' = [server EXCEPT ![s] = [me EXCEPT !.voted_for = w]]
    <3> DEFINE v == IF me.current_term < m.term THEN [me EXCEPT !.voted_for = NoVote] ELSE me
               refuse == \/ m.term < me.current_term
                         \/ v.voted_for # NoVote
                         \/ m.last_log_idx < me.current_idx
    <3>1. server' = [server EXCEPT ![s] = IF refuse THEN v ELSE [v EXCEPT !.voted_for = m.from]]
      BY <1>1 DEF raft_recv_requestvote
    <3> HIDE DEF refuse
    <3>2. CASE ~refuse
      <4>1. [v EXCEPT !.voted_for = m.from] = [me EXCEPT !.voted_for = m.from]
        BY <2>2 DEF Servers
      <4> QED
        BY <2>1, <3>1, <3>2, <4>1, Zenon
    <3>3. CASE refuse
      <4>1. CASE me.current_term < m.term
        BY <3>1, <3>3, <4>1, Zenon
      <4>2. CASE ~(me.current_term < m.term)
        <5>1. me = [me EXCEPT !.voted_for = me.voted_for] /\ me.voted_for \in Nodes \union {NoVote}
          BY <2>2 DEF Servers
        <5> QED
          BY <3>1, <3>3, <4>2, <5>1, Zenon
      <4> QED
        BY <4>1, <4>2, Zenon
    <3> QED
      BY <3>2, <3>3, Zenon
  <2> DEFINE new == [me EXCEPT !.voted_for = w]
  <2>4. /\ new \in Servers /\ new.current_term >= me.current_term /\ new.log = me.log
        /\ new.last_applied_idx = me.last_applied_idx /\ new.commit_idx = me.commit_idx
    <3> HIDE DEF me
    <3>1. new \in Servers
      BY <2>2, Zenon DEF Servers
    <3>2. /\ new.current_term = me.current_term /\ new.log = me.log
          /\ new.last_applied_idx = me.last_applied_idx /\ new.commit_idx = me.commit_idx
      BY <2>2 DEF Servers
    <3> QED
      BY <2>2, <3>1, <3>2
  <2>5. UNCHANGED <<applied, cut>>
    BY <1>1 DEF raft_recv_requestvote
  <2> HIDE DEF new
  <2>6. Progress(me, new, applied[s], applied[s], s \in cut)
    <3> HIDE DEF me
    <3> QED
      BY <2>2, <2>4, KeptLog
  <2> QED
    BY <2>1, <2>3, <2>5, <2>6, NothingApplied, Zenon DEF new
<1>2. CASE raft_recv_requestvote_response(m)
  <2>1. s \in Nodes /\ m.from \in Nodes
    BY <1>0, <1>2 DEF raft_recv_requestvote_response, Messages
  <2>2. me \in Servers /\ applied[s] \in Seq(Nat) /\ me.current_term \in Nat
    BY <2>1, ServerFields DEF TypeOK
  <2> DEFINE v == [me EXCEPT !.votes_for_me = @ \union {m.from}]
             l == raft_become_leader(v, s)
  <2>3. UNCHANGED <<applied, cut>>
    BY <1>2 DEF raft_recv_requestvote_response
  <2>4. \/ server' = server
        \/ server' = [server EXCEPT ![s] = v]
        \/ server' = [server EXCEPT ![s] = l]
    BY <1>2 DEF raft_recv_requestvote_response
  <2>5. /\ v \in Servers /\ v.current_term >= me.current_term /\ v.log = me.log
        /\ v.last_applied_idx = me.last_applied_idx /\ v.commit_idx = me.commit_idx
    <3> HIDE DEF me
    <3>1. me.votes_for_me \union {m.from} \in SUBSET Nodes
      BY <2>1, <2>2, ServerFields
    <3>2. v \in Servers
      BY <2>2, <3>1, Zenon DEF Servers
    <3>3. /\ v.current_term = me.current_term /\ v.log = me.log
          /\ v.last_applied_idx = me.last_applied_idx /\ v.commit_idx = me.commit_idx
      BY <2>2 DEF Servers
    <3> HIDE DEF v
    <3> QED
      BY <2>2, <3>2, <3>3
  <2>6. /\ l \in Servers /\ l.current_term >= me.current_term /\ l.log = me.log
        /\ l.last_applied_idx = me.last_applied_idx /\ l.commit_idx = me.commit_idx
    <3> HIDE DEF v
    <3> DEFINE nx == [n \in Nodes |-> IF n = s THEN v.next_idx[n] ELSE v.current_idx + 1]
    <3>1. l = [v EXCEPT !.state = "leader", !.voted_for = NoVote, !.next_idx = nx]
      BY DEF raft_become_leader
    <3>2. nx \in [Nodes -> Int]
      BY <2>5, ServerFields
    <3> HIDE DEF nx, l
    <3> QED
      BY <2>5, <3>1, <3>2, Zenon DEF Servers
  <2> HIDE DEF v, l
  <2>7. /\ Progress(me, v, applied[s], applied[s], s \in cut)
        /\ Progress(me, l, applied[s], applied[s], s \in cut)
    <3> HIDE DEF me
    <3> QED
      BY <2>2, <2>5, <2>6, KeptLog
  <2> QED
    BY <2>1, <2>3, <2>4, <2>7, NothingApplied, NobodyMoves
<1> QED
  BY <1>1, <1>2

\* An entry of a user is appended behind the log.
LEMMA EntryStep ==
    ASSUME TypeOK, NEW s \in Nodes, NEW id \in EntryIds, raft_recv_entry(s, id)
    PROVE  Steps
<1> DEFINE me == server[s]
           e == raft_append_entry(me, me.current_term, id)
<1>1. me \in Servers /\ applied[s] \in Seq(Nat) /\ id \in Nat
  BY EntriesAssumption DEF TypeOK
<1>2. server' = [server EXCEPT ![s] = e] /\ UNCHANGED <<applied, cut>>
  BY DEF raft_recv_entry
<1>3. Progress(me, e, applied[s], applied[s], s \in cut)
  <2>0. me.current_term \in Nat /\ me.log \in Seq(Entries) /\ Len(me.log) \in Nat /\ me.commit_idx \in Nat
        /\ me.current_idx \in Nat /\ me.last_applied_idx \in Nat
    BY <1>1, ServerFields
  <2>1. CASE id = 0
    <3>1. e = me
      BY <2>1 DEF raft_append_entry
    <3> HIDE DEF me
    <3> QED
      BY <1>1, <2>0, <3>1, KeptLog
  <2>2. CASE id # 0
    <3> DEFINE entry == [term |-> me.current_term, id |-> id, num_nodes |-> 0]
               lg == Append(me.log, entry)
    <3>1. entry \in Entries
      BY <1>1, <2>0 DEF Entries
    <3>2. e = [me EXCEPT !.log = lg, !.current_idx = @ + 1]
      BY <2>2 DEF raft_append_entry
    <3> HIDE DEF entry
    <3>3. lg \in Seq(Entries) /\ Len(lg) = Len(me.log) + 1
          /\ \A i \in 1 .. Len(me.log) : lg[i] = me.log[i]
      BY <2>0, <3>1
    <3> HIDE DEF lg, e
    <3>4. /\ e \in Servers /\ e.current_term = me.current_term /\ e.log = lg
          /\ e.last_applied_idx = me.last_applied_idx /\ e.commit_idx = me.commit_idx
      <4> HIDE DEF me
      <4>1. me.current_idx + 1 \in Nat \ {0}
        BY <2>0
      <4> QED
        BY <1>1, <3>2, <3>3, <4>1, Zenon DEF Servers
    <3>5. AppliedIds(me, 0) \in Seq(Nat) /\ Len(AppliedIds(me, 0)) = 0
      BY <1>1, AppliedIdsType
    <3>6. applied[s] = applied[s] \o AppliedIds(me, 0)
      <4> HIDE DEF me
      <4> QED
        BY <1>1, <3>5
    <3>7. \E k \in Nat, n \in 0 .. Len(me.log) :
            /\ e.last_applied_idx = me.last_applied_idx + k
            /\ k > 0 => e.last_applied_idx <= n /\ e.last_applied_idx <= e.commit_idx
            /\ n <= Len(e.log) /\ \A i \in 1 .. n : e.log[i].id = me.log[i].id
            /\ n < Len(me.log) /\ n < me.last_applied_idx => s \in cut
            /\ applied[s] = applied[s] \o AppliedIds(me, k)
      <4> HIDE DEF me
      <4>1. Len(me.log) \in 0 .. Len(me.log) /\ me.last_applied_idx + 0 = me.last_applied_idx
        BY <2>0
      <4> WITNESS 0 \in Nat, Len(me.log) \in 0 .. Len(me.log)
      <4> QED
        BY <2>0, <3>3, <3>4, <3>6, <4>1, SMTT(30)
    <3>8. e.current_term >= me.current_term /\ ~(e.commit_idx < me.commit_idx)
      BY <2>0, <3>4
    <3> QED
      BY <3>4, <3>7, <3>8, Zenon DEF Progress
  <2> QED
    BY <2>1, <2>2
<1> HIDE DEF e
<1> QED
  BY <1>2, <1>3, NothingApplied, Zenon
\* The ids applied depend only on the ids of the log.
LEMMA SameIds ==
    ASSUME NEW me \in Servers, NEW d \in Servers, NEW k \in Nat, NEW n \in Nat,
           d.last_applied_idx = me.last_applied_idx,
           \A i \in 1 .. n : d.log[i].id = me.log[i].id,
           k = 0 \/ me.last_applied_idx + k <= n
    PROVE  AppliedIds(d, k) = AppliedIds(me, k)
<1>1. me.last_applied_idx \in Nat
  BY ServerFields
<1>2. \A i \in 1 .. k : me.last_applied_idx + i \in 1 .. n
  BY <1>1
<1>3. \A i \in 1 .. k : d.log[d.last_applied_idx + i].id = me.log[me.last_applied_idx + i].id
  BY <1>2
<1> QED
  BY <1>3 DEF AppliedIds

\* log_mark_node_has_committed counts, and leaves the ids.
LEMMA MarkedLog ==
    ASSUME NEW me \in Servers, NEW a, NEW b
    PROVE  LET marked == [me EXCEPT !.log = log_mark_node_has_committed(@, a, b)]
           IN /\ marked \in Servers /\ Len(marked.log) = Len(me.log)
              /\ \A i \in 1 .. Len(me.log) : marked.log[i].id = me.log[i].id
              /\ marked.current_term = me.current_term /\ marked.commit_idx = me.commit_idx
              /\ marked.last_applied_idx = me.last_applied_idx
<1> DEFINE lg == log_mark_node_has_committed(me.log, a, b)
           marked == [me EXCEPT !.log = log_mark_node_has_committed(@, a, b)]
<1>1. me.log \in Seq(Entries) /\ Len(me.log) \in Nat /\ DOMAIN me.log = 1 .. Len(me.log)
  BY ServerFields
<1>2. lg = [i \in 1 .. Len(me.log) |->
              IF i \in a .. b THEN [me.log[i] EXCEPT !.num_nodes = @ + 1] ELSE me.log[i]]
  BY <1>1 DEF log_mark_node_has_committed
<1>3. \A i \in 1 .. Len(me.log) : lg[i] \in Entries /\ lg[i].id = me.log[i].id
  <2> TAKE i \in 1 .. Len(me.log)
  <2>1. me.log[i] \in Entries
    BY <1>1
  <2> QED
    BY <1>2, <2>1 DEF Entries
<1>4. lg \in Seq(Entries) /\ Len(lg) = Len(me.log)
  <2>1. lg \in [1 .. Len(me.log) -> Entries]
    BY <1>2, <1>3
  <2> HIDE DEF lg
  <2> QED
    BY <1>1, <2>1, FunctionSequence
<1>5. marked = [me EXCEPT !.log = lg]
  OBVIOUS
<1> HIDE DEF lg, marked
<1>6. marked \in Servers
  BY <1>4, <1>5, Zenon DEF Servers
<1>7. /\ marked.log = lg /\ marked.current_term = me.current_term
      /\ marked.commit_idx = me.commit_idx /\ marked.last_applied_idx = me.last_applied_idx
  BY <1>5 DEF Servers
<1> QED
  BY <1>3, <1>4, <1>6, <1>7 DEF marked

\* An acknowledgement marks entries, applies the run that is marked, and sends
\* the appendentries again if it is negative.
LEMMA ResponseStep ==
    ASSUME TypeOK, NEW m \in msgs, raft_recv_appendentries_response(m)
    PROVE  Steps
<1> DEFINE s == m.to
           me == server[s]
<1>0. m \in Messages
  BY DEF TypeOK
<1>1. s \in Nodes /\ m.from \in Nodes /\ m.success \in BOOLEAN
  BY <1>0 DEF raft_recv_appendentries_response, Messages
<1>2. /\ me \in Servers /\ applied[s] \in Seq(Nat) /\ me.current_term \in Nat
      /\ me.last_applied_idx \in Nat /\ me.commit_idx \in Nat /\ Len(me.log) \in Nat
  BY <1>1, ServerFields DEF TypeOK
<1>3. cut' = cut /\ cut \subseteq Nodes
  BY DEF TypeOK, raft_recv_appendentries_response
<1>4. CASE m.success
  <2> DEFINE marked == [me EXCEPT !.log = log_mark_node_has_committed(@, m.first_idx, m.current_idx)]
             k == Acknowledged(marked)
             new == raft_apply_entry(marked, k)
  <2>1. server' = [server EXCEPT ![s] = new] /\ Apply(s, marked, k)
    BY <1>4 DEF raft_recv_appendentries_response
  <2> HIDE DEF me
  <2>2. /\ marked \in Servers /\ Len(marked.log) = Len(me.log)
        /\ \A i \in 1 .. Len(me.log) : marked.log[i].id = me.log[i].id
        /\ marked.current_term = me.current_term /\ marked.commit_idx = me.commit_idx
        /\ marked.last_applied_idx = me.last_applied_idx
    BY <1>2, MarkedLog, Zenon
  <2> HIDE DEF marked
  <2>3. k \in Nat /\ (k = 0 \/ k <= Unapplied(marked)) /\ Unapplied(marked) = Unapplied(me)
    BY <2>2, AcknowledgedRun DEF Unapplied
  <2> HIDE DEF k
  <2>4. /\ new \in Servers /\ new.last_applied_idx = me.last_applied_idx + k
        /\ new.commit_idx >= me.commit_idx /\ new.commit_idx >= me.last_applied_idx + k
        /\ new.log = marked.log /\ new.current_term = me.current_term
    BY <2>2, <2>3, ApplyEntry, SMTT(30)
  <2>5. AppliedIds(marked, k) = AppliedIds(me, k) /\ AppliedIds(me, k) \in Seq(Nat)
    <3>1. k = 0 \/ me.last_applied_idx + k <= Len(me.log)
      BY <1>2, <2>3 DEF Unapplied
    <3> QED
      BY <1>2, <2>2, <2>3, <3>1, SameIds, AppliedIdsType, Zenon
  <2> HIDE DEF new
  <2>6. Progress(me, new, applied[s], applied[s] \o AppliedIds(me, k), s \in cut')
    <3>1. /\ new.current_term >= me.current_term /\ Len(new.log) = Len(me.log)
          /\ \A i \in 1 .. Len(me.log) : new.log[i].id = me.log[i].id
          /\ new.last_applied_idx <= new.commit_idx /\ (k = 0 \/ k <= Unapplied(me))
      BY <1>2, <2>2, <2>3, <2>4, ServerFields
    <3> QED
      BY <1>2, <2>3, <2>4, <3>1, AppliedSome, Zenon
  <2>7. applied' = [applied EXCEPT ![s] = applied[s] \o AppliedIds(me, k)]
    BY <2>1, <2>5 DEF Apply
  <2>8. applied[s] \o AppliedIds(me, k) \in Seq(Nat)
    BY <1>2, <2>5
  <2> QED
    BY <1>1, <1>3, <2>1, <2>6, <2>7, <2>8, OneServer, Zenon DEF me
<1>5. CASE ~m.success
  <2> DEFINE gone == [me EXCEPT !.state = "aborted"]
             back == [me EXCEPT !.next_idx[m.from] = @ - 1]
  <2>1. \/ server' = [server EXCEPT ![s] = gone]
        \/ server' = [server EXCEPT ![s] = back]
    BY <1>5 DEF raft_recv_appendentries_response
  <2>2. UNCHANGED <<applied, cut>>
    BY <1>5 DEF raft_recv_appendentries_response
  <2> HIDE DEF me
  <2>3. /\ gone \in Servers /\ gone.current_term = me.current_term /\ gone.log = me.log
        /\ gone.last_applied_idx = me.last_applied_idx /\ gone.commit_idx = me.commit_idx
    BY <1>2, Zenon DEF Servers
  <2>4. /\ back \in Servers /\ back.current_term = me.current_term /\ back.log = me.log
        /\ back.last_applied_idx = me.last_applied_idx /\ back.commit_idx = me.commit_idx
    <3> DEFINE nx == [me.next_idx EXCEPT ![m.from] = @ - 1]
    <3>1. nx \in [Nodes -> Int]
      BY <1>1, <1>2, ServerFields
    <3>2. back = [me EXCEPT !.next_idx = nx]
      BY <1>2 DEF Servers
    <3> HIDE DEF nx, back
    <3> QED
      BY <1>2, <3>1, <3>2, Zenon DEF Servers
  <2> HIDE DEF gone, back
  <2>5. /\ Progress(me, gone, applied[s], applied[s], s \in cut)
        /\ Progress(me, back, applied[s], applied[s], s \in cut)
    BY <1>2, <2>3, <2>4, KeptLog
  <2> QED
    BY <1>1, <2>1, <2>2, <2>5, NothingApplied DEF me
<1> QED
  BY <1>1, <1>4, <1>5
\* Accepted is defined: the entries before the first id 0, or all.
LEMMA AcceptedRun ==
    ASSUME NEW ids \in Seq(Nat)
    PROVE  Accepted(ids) \in 0 .. Len(ids)
<1> DEFINE Run(n) == /\ \A i \in 1 .. n : ids[i] # 0
                     /\ n < Len(ids) => ids[n + 1] = 0
           T == {n \in Nat : n = Len(ids) \/ ids[n + 1] = 0}
<1>1. Len(ids) \in Nat /\ Len(ids) \in T /\ T \subseteq Nat
  OBVIOUS
<1>2. PICK n \in T : \A j \in T : n <= j
  BY <1>1, LeastNumber, Zenon
<1>3. n \in Nat /\ n <= Len(ids)
  BY <1>1, <1>2
<1>4. \A i \in 1 .. n : ids[i] # 0
  <2> TAKE i \in 1 .. n
  <2>1. i - 1 \in Nat /\ i - 1 < n /\ (i - 1) + 1 = i
    BY <1>3
  <2>2. i - 1 \notin T
    BY <1>2, <1>3, <2>1
  <2> QED
    BY <2>1, <2>2
<1>5. n \in 0 .. Len(ids) /\ Run(n)
  BY <1>1, <1>2, <1>3, <1>4
<1>6. Accepted(ids) = CHOOSE j \in 0 .. Len(ids) : Run(j)
  BY DEF Accepted
<1> HIDE DEF Run
<1> QED
  BY <1>5, <1>6

\* The entries of a message go behind the log.
LEMMA AppendedAll ==
    ASSUME NEW me \in Servers, NEW ids \in Seq(Nat)
    PROVE  LET e == AppendAll(me, ids)
           IN /\ e \in Servers /\ Len(me.log) <= Len(e.log)
              /\ \A i \in 1 .. Len(me.log) : e.log[i] = me.log[i]
              /\ e.current_term = me.current_term /\ e.commit_idx = me.commit_idx
              /\ e.last_applied_idx = me.last_applied_idx
              /\ e.votes_for_me = me.votes_for_me /\ e.state = me.state
<1> DEFINE n == Accepted(ids)
           more == [i \in 1 .. n |-> [term |-> me.current_term, id |-> ids[i], num_nodes |-> 0]]
           lg == me.log \o more
           idx == me.current_idx + n
           e == AppendAll(me, ids)
<1>1. n \in Nat /\ n <= Len(ids)
  BY AcceptedRun
<1>2. me.log \in Seq(Entries) /\ me.current_term \in Nat /\ me.current_idx \in Nat \ {0}
      /\ Len(me.log) \in Nat
  BY ServerFields
<1>3. e = [me EXCEPT !.log = lg, !.current_idx = idx]
  BY DEF AppendAll
<1> HIDE DEF n, e
<1>4. more \in [1 .. n -> Entries]
  <2>1. \A i \in 1 .. n : ids[i] \in Nat
    BY <1>1
  <2> QED
    BY <1>2, <2>1 DEF Entries
<1> HIDE DEF more
<1>5. more \in Seq(Entries) /\ Len(more) = n
  BY <1>1, <1>4, FunctionSequence
<1>6. /\ lg \in Seq(Entries) /\ Len(lg) = Len(me.log) + n
      /\ \A i \in 1 .. Len(me.log) : lg[i] = me.log[i]
  <2>1. me.log \in Seq(Entries) /\ more \in Seq(Entries)
    BY <1>2, <1>5
  <2>2. lg \in Seq(Entries) /\ Len(lg) = Len(me.log) + Len(more)
    BY <2>1, Longer
  <2>3. \A i \in 1 .. Len(me.log) : lg[i] = me.log[i]
    BY <2>1, Longer
  <2> QED
    BY <1>5, <2>2, <2>3
<1>7. idx \in Nat \ {0} /\ Len(me.log) <= Len(lg)
  <2>1. Len(lg) = Len(me.log) + n
    BY <1>6, Zenon
  <2>2. Len(me.log) <= Len(lg)
    BY <1>1, <1>2, <2>1
  <2>3. idx \in Nat \ {0}
    BY <1>1, <1>2
  <2> QED
    BY <2>2, <2>3, Zenon
<1> HIDE DEF lg, idx
<1>8. e \in Servers /\ e.log = lg /\ e.current_term = me.current_term
      /\ e.commit_idx = me.commit_idx /\ e.last_applied_idx = me.last_applied_idx
      /\ e.votes_for_me = me.votes_for_me /\ e.state = me.state
  BY <1>3, <1>6, <1>7, Zenon DEF Servers
<1> QED
  BY <1>6, <1>7, <1>8 DEF e

\* A leader that meets its match becomes a follower, and keeps the rest.
LEMMA SteppedDown ==
    ASSUME NEW old \in Servers
    PROVE  LET me == raft_become_follower(old)
           IN /\ me \in Servers /\ me.log = old.log /\ me.current_term = old.current_term
              /\ me.commit_idx = old.commit_idx /\ me.last_applied_idx = old.last_applied_idx
              /\ me.votes_for_me = old.votes_for_me /\ me.state = "follower"
  BY Zenon DEF raft_become_follower, Servers

\* What is left of the log after step 3 of the receiver.
LEMMA ConflictDropped ==
    ASSUME NEW me \in Servers, NEW p \in Nat
    PROVE  LET d == IF p # 0 /\ p + 1 <= Len(me.log) THEN delete_from(me, p + 1) ELSE me
           IN /\ d \in Servers /\ Len(d.log) <= Len(me.log)
              /\ \A i \in 1 .. Len(d.log) : d.log[i] = me.log[i]
              /\ d.current_term = me.current_term /\ d.commit_idx = me.commit_idx
              /\ d.last_applied_idx = me.last_applied_idx
              /\ d.votes_for_me = me.votes_for_me /\ d.state = me.state
<1> DEFINE lg == SubSeq(me.log, 1, p)
<1>1. me.log \in Seq(Entries) /\ Len(me.log) \in Nat
  BY ServerFields
<1>2. CASE p # 0 /\ p + 1 <= Len(me.log)
  <2>1. delete_from(me, p + 1) = [me EXCEPT !.log = lg]
    <3>1. (p + 1) - 1 = p
      OBVIOUS
    <3> QED
      BY <3>1 DEF delete_from
  <2>2. lg \in Seq(Entries) /\ Len(lg) = p /\ \A i \in 1 .. p : lg[i] = me.log[i]
    BY <1>1, <1>2
  <2> HIDE DEF lg
  <2>3. p <= Len(me.log)
    BY <1>1, <1>2
  <2> DEFINE d == delete_from(me, p + 1)
  <2>4. d \in Servers
    BY <2>1, <2>2, Zenon DEF Servers
  <2>5. d.log = lg /\ d.current_term = me.current_term /\ d.commit_idx = me.commit_idx
        /\ d.last_applied_idx = me.last_applied_idx
        /\ d.votes_for_me = me.votes_for_me /\ d.state = me.state
    BY <2>1 DEF Servers
  <2> QED
    BY <1>2, <2>2, <2>3, <2>4, <2>5
<1>3. CASE ~(p # 0 /\ p + 1 <= Len(me.log))
  BY <1>1, <1>3
<1> QED
  BY <1>2, <1>3
\* The commit index moves to the id of the last entry or to leader_commit, and
\* then every entry of the log is applied.
LEMMA CommitMoved ==
    ASSUME NEW d \in Servers, NEW lc \in Int
    PROVE  LET tail == d.log[Len(d.log)].id
               moves == d.commit_idx < lc /\ d.log # <<>>
               k == IF moves /\ Unapplied(d) > 0 THEN Unapplied(d) ELSE 0
               a == IF moves
                    THEN raft_apply_entry([d EXCEPT !.commit_idx =
                           IF tail < lc THEN tail ELSE lc], k)
                    ELSE d
           IN /\ k \in Nat /\ (k = 0 \/ k <= Unapplied(d))
              /\ a \in Servers /\ a.log = d.log /\ a.current_term = d.current_term
              /\ a.last_applied_idx = d.last_applied_idx + k
              /\ k > 0 => a.last_applied_idx <= a.commit_idx
              /\ a.commit_idx < d.commit_idx =>
                    Len(d.log) >= 1 /\ d.log[Len(d.log)].id < d.commit_idx
              /\ a.votes_for_me = d.votes_for_me /\ a.state = d.state
<1> DEFINE tail == d.log[Len(d.log)].id
           moves == d.commit_idx < lc /\ d.log # <<>>
           k == IF moves /\ Unapplied(d) > 0 THEN Unapplied(d) ELSE 0
           x == IF tail < lc THEN tail ELSE lc
           b == [d EXCEPT !.commit_idx = x]
<1>1. /\ Len(d.log) \in Nat /\ d.commit_idx \in Nat /\ Unapplied(d) \in Int /\ d.log \in Seq(Entries)
      /\ d.last_applied_idx \in Nat
  BY ServerFields
<1>2. k \in Nat /\ (k = 0 \/ k <= Unapplied(d))
  BY <1>1
<1>3. CASE ~moves
  <2>1. k = 0
    BY <1>3
  <2> QED
    BY <1>1, <1>2, <1>3, <2>1
<1>4. CASE moves
  <2>1. Len(d.log) >= 1 /\ tail \in Nat
    <3>1. Len(d.log) # 0
      BY <1>1, <1>4
    <3>2. Len(d.log) \in 1 .. Len(d.log)
      BY <1>1, <3>1
    <3> QED
      BY <3>2, ServerFields
  <2> HIDE DEF tail
  <2>2. x \in Nat /\ (x < d.commit_idx => tail < d.commit_idx)
    BY <1>1, <1>4, <2>1
  <2> HIDE DEF x
  <2>3. /\ b \in Servers /\ b.log = d.log /\ b.current_term = d.current_term /\ b.commit_idx = x
        /\ b.last_applied_idx = d.last_applied_idx
        /\ b.votes_for_me = d.votes_for_me /\ b.state = d.state
    BY <2>2, Zenon DEF Servers
  <2> HIDE DEF b, k
  <2> DEFINE a == raft_apply_entry(b, k)
  <2>4. /\ a \in Servers /\ a.log = b.log /\ a.current_term = b.current_term
        /\ a.last_applied_idx = b.last_applied_idx + k
        /\ a.commit_idx >= b.commit_idx /\ a.commit_idx >= b.last_applied_idx + k
        /\ a.votes_for_me = b.votes_for_me /\ a.state = b.state
    BY <1>2, <2>3, ApplyEntry
  <2> HIDE DEF a
  <2>5. a.commit_idx \in Nat
    BY <2>4, ServerFields
  <2>6. a.commit_idx < d.commit_idx => tail < d.commit_idx
    BY <1>1, <2>2, <2>3, <2>4, <2>5
  <2>7. a.last_applied_idx = d.last_applied_idx + k /\ a.last_applied_idx <= a.commit_idx
    BY <1>1, <1>2, <2>3, <2>4, <2>5
  <2> QED
    BY <1>2, <1>4, <2>1, <2>3, <2>4, <2>6, <2>7 DEF a, b, k, x, tail
<1> QED
  BY <1>3, <1>4

\* The answers to appendentries are messages.
LEMMA Answers ==
    ASSUME NEW s \in Nodes, NEW n \in Nodes, NEW ok \in BOOLEAN, NEW i \in Nat, NEW j \in Nat
    PROVE  AppendEntriesResponse(s, n, ok, i, j) \in Messages
  BY DEF AppendEntriesResponse, Messages

\* raft_recv_appendentries.
LEMMA AppendStep ==
    ASSUME TypeOK, NEW m \in msgs, NEW lc \in Int, raft_recv_appendentries(m, lc)
    PROVE  /\ Steps /\ msgs' \subseteq Messages
           /\ server'[m.to].state = "leader" => server[m.to].state = "leader"
           /\ server'[m.to].votes_for_me = server[m.to].votes_for_me
           /\ \A n \in Nodes \ {m.to} : server'[n] = server[n]
           /\ \A x \in msgs' \ msgs : x.type = "appendentries_response"
<1> DEFINE s == m.to
           old == server[s]
           me == IF old.state = "leader" /\ old.current_term <= m.term
                 THEN raft_become_follower(old) ELSE old
           p == m.prev_log_idx
           stale == TermIsOld(me, m)
           nomatch == p # 0 /\ (p > Len(me.log) \/ me.log[p].term # m.prev_log_term)
           d == IF p # 0 /\ p + 1 <= Len(me.log) THEN delete_from(me, p + 1) ELSE me
           tail == d.log[Len(d.log)].id
           moves == d.commit_idx < lc /\ d.log # <<>>
           k == IF moves /\ Unapplied(d) > 0 THEN Unapplied(d) ELSE 0
           a == IF moves
                THEN raft_apply_entry([d EXCEPT !.commit_idx =
                       IF tail < lc THEN tail ELSE lc], k)
                ELSE d
           f == IF a.state = "candidate" THEN raft_become_follower(a) ELSE a
           g == [f EXCEPT !.current_term = m.term]
           e == AppendAll(g, m.entries)
<1>0. m \in Messages /\ m.type = "appendentries"
  BY Zenon DEF TypeOK, raft_recv_appendentries
<1>1. s \in Nodes /\ m.from \in Nodes /\ p \in Nat /\ m.term \in Nat /\ m.entries \in Seq(Nat)
  BY <1>0 DEF Messages
<1>2. old \in Servers /\ applied[s] \in Seq(Nat) /\ old.current_term \in Nat
  BY <1>1, ServerFields DEF TypeOK
<1>3. /\ me \in Servers /\ me.log = old.log /\ me.current_term = old.current_term
      /\ me.commit_idx = old.commit_idx /\ me.last_applied_idx = old.last_applied_idx
      /\ me.votes_for_me = old.votes_for_me
      /\ me.state = "leader" => old.state = "leader"
  <2> HIDE DEF old
  <2> QED
    BY <1>2, SteppedDown
<1>4. CASE stale \/ nomatch
  <2>1. server' = [server EXCEPT ![s] = me] /\ UNCHANGED <<applied, cut>>
    BY <1>4, Zenon DEF raft_recv_appendentries
  <2> HIDE DEF me, old
  <2>2. Progress(old, me, applied[s], applied[s], s \in cut)
    BY <1>2, <1>3, KeptLog
  <2>3. server'[s] = me
    BY <1>1, <2>1 DEF TypeOK
  <2>4. msgs' \subseteq Messages
    <3>1. msgs' = (msgs \ {m}) \union {AppendEntriesResponse(s, m.from, FALSE, 0, 0)}
      BY <1>4, Zenon DEF raft_recv_appendentries, me, old
    <3>2. AppendEntriesResponse(s, m.from, FALSE, 0, 0) \in Messages
      BY <1>1, Answers, Zenon
    <3> QED
      BY <3>1, <3>2, Zenon DEF TypeOK
  <2>5. /\ \A n \in Nodes \ {s} : server'[n] = server[n]
        /\ \A x \in msgs' \ msgs : x.type = "appendentries_response"
    <3>1. msgs' = (msgs \ {m}) \union {AppendEntriesResponse(s, m.from, FALSE, 0, 0)}
      BY <1>4, Zenon DEF raft_recv_appendentries, me, old
    <3> QED
      BY <1>1, <2>1, <3>1 DEF TypeOK, AppendEntriesResponse
  <2> QED
    BY <1>1, <1>3, <2>1, <2>2, <2>3, <2>4, <2>5, NothingApplied, Zenon DEF old
<1>5. CASE ~(stale \/ nomatch)
  <2>1. /\ server' = [server EXCEPT ![s] = e] /\ Apply(s, d, k)
        /\ cut' = IF Len(d.log) < me.last_applied_idx THEN cut \union {s} ELSE cut
    BY <1>5, Zenon DEF raft_recv_appendentries
  <2>0. \/ msgs' = (msgs \ {m}) \union {AppendEntriesResponse(s, m.from, FALSE, 0, 0)}
        \/ msgs' = (msgs \ {m}) \union {AppendEntriesResponse(s, m.from, TRUE, p + 1, e.current_idx)}
    BY <1>5, Zenon DEF raft_recv_appendentries
  <2>2. old.current_term <= m.term
    <3>1. ~(m.term < old.current_term)
      BY <1>3, <1>5, Zenon DEF TermIsOld
    <3> HIDE DEF old
    <3> QED
      BY <1>1, <1>2, <3>1
  <2> HIDE DEF me, old
  <2>3. /\ d \in Servers /\ Len(d.log) <= Len(me.log)
        /\ \A i \in 1 .. Len(d.log) : d.log[i] = me.log[i]
        /\ d.commit_idx = me.commit_idx /\ d.last_applied_idx = me.last_applied_idx
        /\ d.votes_for_me = me.votes_for_me /\ d.state = me.state
    BY <1>1, <1>3, ConflictDropped
  <2> HIDE DEF d
  <2>4. /\ k \in Nat /\ (k = 0 \/ k <= Unapplied(d))
        /\ a \in Servers /\ a.log = d.log
        /\ a.last_applied_idx = d.last_applied_idx + k
        /\ k > 0 => a.last_applied_idx <= a.commit_idx
        /\ a.commit_idx < d.commit_idx =>
              Len(d.log) >= 1 /\ d.log[Len(d.log)].id < d.commit_idx
        /\ a.votes_for_me = d.votes_for_me /\ a.state = d.state
    BY <2>3, CommitMoved
  <2> HIDE DEF k, a
  <2>5. /\ f \in Servers /\ f.log = a.log /\ f.commit_idx = a.commit_idx
        /\ f.last_applied_idx = a.last_applied_idx
        /\ f.votes_for_me = a.votes_for_me /\ (f.state = "leader" => a.state = "leader")
    BY <2>4, SteppedDown
  <2> HIDE DEF f
  <2>6. /\ g \in Servers /\ g.log = f.log /\ g.commit_idx = f.commit_idx
        /\ g.last_applied_idx = f.last_applied_idx /\ g.current_term = m.term
        /\ g.votes_for_me = f.votes_for_me /\ g.state = f.state
    BY <1>1, <2>5, Zenon DEF Servers
  <2> HIDE DEF g
  <2>7. /\ e \in Servers /\ Len(g.log) <= Len(e.log)
        /\ \A i \in 1 .. Len(g.log) : e.log[i] = g.log[i]
        /\ e.current_term = g.current_term /\ e.commit_idx = g.commit_idx
        /\ e.last_applied_idx = g.last_applied_idx
        /\ e.votes_for_me = g.votes_for_me /\ e.state = g.state
    BY <1>1, <2>6, AppendedAll
  <2> HIDE DEF e
  <2>8. /\ Len(d.log) \in Nat /\ Len(old.log) \in Nat /\ old.last_applied_idx \in Nat
        /\ old.commit_idx \in Nat /\ DOMAIN old.log = 1 .. Len(old.log)
        /\ e.commit_idx \in Nat
    BY <1>2, <2>3, <2>7, ServerFields, SMTT(30)
  <2>9. \A i \in 1 .. Len(d.log) : e.log[i].id = old.log[i].id /\ d.log[i].id = old.log[i].id
    BY <1>3, <2>3, <2>4, <2>5, <2>6, <2>7
  <2>10. e.last_applied_idx = old.last_applied_idx + k /\ Len(d.log) \in 0 .. Len(old.log)
         /\ Len(d.log) <= Len(e.log)
    BY <1>3, <2>3, <2>4, <2>5, <2>6, <2>7, <2>8
  <2>11. k = 0 \/ old.last_applied_idx + k <= Len(d.log)
    BY <1>3, <2>3, <2>4, <2>8 DEF Unapplied
  <2>12. AppliedIds(d, k) = AppliedIds(old, k) /\ AppliedIds(old, k) \in Seq(Nat)
    <3>1. AppliedIds(d, k) = AppliedIds(old, k)
      BY <1>2, <1>3, <2>3, <2>4, <2>8, <2>9, <2>11, SameIds
    <3>2. AppliedIds(d, k) \in Seq(Nat)
      BY <2>3, <2>4, AppliedIdsType
    <3> QED
      BY <3>1, <3>2
  <2> DEFINE ap == applied[s] \o AppliedIds(old, k)
  <2>13. applied' = [applied EXCEPT ![s] = ap] /\ ap \in Seq(Nat)
    BY <1>2, <2>1, <2>12 DEF Apply
  <2>14. cut \subseteq cut' /\ cut' \subseteq Nodes
         /\ (Len(d.log) < old.last_applied_idx => s \in cut')
    BY <1>1, <1>3, <2>1 DEF TypeOK
  <2>15. Progress(old, e, applied[s], ap, s \in cut')
    <3>1. \E j \in Nat, n \in 0 .. Len(old.log) :
          /\ e.last_applied_idx = old.last_applied_idx + j
          /\ j > 0 => e.last_applied_idx <= n /\ e.last_applied_idx <= e.commit_idx
          /\ n <= Len(e.log) /\ \A i \in 1 .. n : e.log[i].id = old.log[i].id
          /\ n < Len(old.log) /\ n < old.last_applied_idx => s \in cut'
          /\ ap = applied[s] \o AppliedIds(old, j)
      <4>1. k > 0 => e.last_applied_idx <= Len(d.log) /\ e.last_applied_idx <= e.commit_idx
        BY <2>4, <2>5, <2>6, <2>7, <2>10, <2>11
      <4> k \in Nat /\ Len(d.log) \in 0 .. Len(old.log)
        BY <2>4, <2>10
      <4> WITNESS k \in Nat, Len(d.log) \in 0 .. Len(old.log)
      <4> QED
        BY <2>9, <2>10, <2>14, <4>1
    <3>2. e.current_term >= old.current_term
      BY <1>1, <1>2, <2>2, <2>6, <2>7
    <3>3. ASSUME e.commit_idx < old.commit_idx
          PROVE  \E i \in DOMAIN old.log : old.log[i].id < old.commit_idx
      <4>1. a.commit_idx < d.commit_idx /\ d.commit_idx = old.commit_idx
        BY <1>3, <2>3, <2>5, <2>6, <2>7, <3>3
      <4>2. Len(d.log) >= 1 /\ d.log[Len(d.log)].id < old.commit_idx
        BY <2>4, <4>1
      <4>3. Len(d.log) \in 1 .. Len(d.log) /\ Len(d.log) \in DOMAIN old.log
        BY <2>8, <2>10, <4>2
      <4>4. old.log[Len(d.log)].id < old.commit_idx
        BY <2>9, <4>2, <4>3
      <4> QED
        BY <4>3, <4>4
    <3> QED
      BY <2>7, <3>1, <3>2, <3>3, Zenon DEF Progress
  <2>16. server'[s] = e
    BY <1>1, <2>1 DEF TypeOK
  <2>17. Steps
    <3> HIDE DEF ap
    <3> QED
      BY <1>1, <2>1, <2>13, <2>14, <2>15, OneServer, Zenon DEF old
  <2>18. e.votes_for_me = old.votes_for_me /\ (e.state = "leader" => old.state = "leader")
    BY <1>3, <2>3, <2>4, <2>5, <2>6, <2>7
  <2>19. msgs' \subseteq Messages
    <3>1. e.current_idx \in Nat /\ p + 1 \in Nat
      BY <1>1, <2>7, ServerFields
    <3>2. AppendEntriesResponse(s, m.from, FALSE, 0, 0) \in Messages
      BY <1>1, Answers, Zenon
    <3>3. AppendEntriesResponse(s, m.from, TRUE, p + 1, e.current_idx) \in Messages
      BY <1>1, <3>1, Answers, Zenon
    <3> QED
      BY <2>0, <3>2, <3>3, Zenon DEF TypeOK
  <2>20. /\ \A n \in Nodes \ {s} : server'[n] = server[n]
         /\ \A x \in msgs' \ msgs : x.type = "appendentries_response"
    BY <1>1, <2>0, <2>1 DEF TypeOK, AppendEntriesResponse
  <2> QED
    BY <2>16, <2>17, <2>18, <2>19, <2>20 DEF old
<1> QED
  BY <1>4, <1>5
-----------------------------------------------------------------------------
(* Types *)

\* Every step of the cluster moves its servers as Progress says.
LEMMA AllSteps ==
    ASSUME TypeOK, [Next]_vars
    PROVE  Steps
<1>1. ASSUME NEW s \in Nodes, raft_periodic(s) \/ raft_periodic_expired(s) PROVE Steps
  BY <1>1, PeriodicStep
<1>2. ASSUME NEW s \in Nodes, NEW id \in EntryIds, raft_recv_entry(s, id) PROVE Steps
  BY <1>2, EntryStep
<1>3. ASSUME NEW m \in Foreign, UserAppendEntries(m) PROVE Steps
  BY <1>3, NobodyMoves DEF UserAppendEntries
<1>4. ASSUME NEW m \in msgs, raft_recv_requestvote(m) \/ raft_recv_requestvote_response(m) PROVE Steps
  BY <1>4, VoteStep
<1>5. ASSUME NEW m \in msgs, NEW c \in Garbage, raft_recv_appendentries(m, c) PROVE Steps
  BY <1>5, AppendStep, EntriesAssumption
<1>6. ASSUME NEW m \in msgs, raft_recv_appendentries_response(m) PROVE Steps
  BY <1>6, ResponseStep
<1>7. CASE UNCHANGED vars
  BY <1>7, NobodyMoves DEF vars
<1> QED
  BY <1>1, <1>2, <1>3, <1>4, <1>5, <1>6, <1>7 DEF Next

\* The other messages.
LEMMA Requests ==
    ASSUME NEW s \in Nodes, NEW me, me.current_term \in Nat
    PROVE  /\ \A n \in Nodes : raft_send_appendentries(s, n, me) \in Messages
           /\ raft_send_appendentries_all(s, me) \subseteq Messages
           /\ \A n \in Nodes : me.current_idx \in Nat => RequestVote(s, n, me) \in Messages
           /\ \A n \in Nodes, ok \in BOOLEAN :
                 RequestVoteResponse(s, n, me.current_term, ok) \in Messages
<1>0. <<>> \in Seq(Nat)
  OBVIOUS
<1>1. \A n \in Nodes : raft_send_appendentries(s, n, me) \in Messages
  BY <1>0 DEF raft_send_appendentries, Messages
<1>2. \A n \in Nodes : me.current_idx \in Nat => RequestVote(s, n, me) \in Messages
  BY DEF RequestVote, Messages
<1>3. \A n \in Nodes, ok \in BOOLEAN :
          RequestVoteResponse(s, n, me.current_term, ok) \in Messages
  BY DEF RequestVoteResponse, Messages
<1> QED
  BY <1>1, <1>2, <1>3 DEF raft_send_appendentries_all, Followers

\* Every handler keeps the types.
LEMMA TypesKept ==
    ASSUME TypeOK, [Next]_vars
    PROVE  TypeOK'
<1>0. Steps
  BY AllSteps
<1>1. /\ server' \in [Nodes -> Servers] /\ applied' \in [Nodes -> Seq(Nat)] /\ cut' \subseteq Nodes
      /\ \A s \in Nodes : server[s] \in Servers /\ server'[s] \in Servers
      /\ \A s \in Nodes : server[s].current_term \in Nat /\ server'[s].current_term \in Nat
      /\ \A s \in Nodes : server'[s].current_idx \in Nat
  BY <1>0, ServerFields DEF Steps, TypeOK
<1> SUFFICES msgs' \subseteq Messages /\ granted' \subseteq Nodes \X Nodes \X Nat
  BY <1>1 DEF TypeOK
<1>2. msgs \subseteq Messages /\ granted \subseteq Nodes \X Nodes \X Nat
  BY DEF TypeOK
<1>3. ASSUME NEW s \in Nodes, raft_periodic(s)
      PROVE  msgs' \subseteq Messages /\ granted' \subseteq Nodes \X Nodes \X Nat
  BY <1>2, <1>3 DEF raft_periodic
<1>4. ASSUME NEW s \in Nodes, raft_periodic_expired(s)
      PROVE  msgs' \subseteq Messages /\ granted' \subseteq Nodes \X Nodes \X Nat
  <2>1. granted' = granted
    BY <1>4 DEF raft_periodic_expired
  <2>2. \/ msgs' = msgs \union raft_send_appendentries_all(s, server[s])
        \/ msgs' = msgs \union {RequestVote(s, n, server'[s]) : n \in Followers(s)}
    <3> DEFINE lag == server[s].state = "follower" /\ server[s].last_applied_idx < server[s].commit_idx
               c == raft_become_candidate(raft_apply_entry(server[s], IF lag THEN 1 ELSE 0), s)
    <3>1. \/ msgs' = msgs \union raft_send_appendentries_all(s, server[s])
          \/ /\ server' = [server EXCEPT ![s] = c]
             /\ msgs' = msgs \union {RequestVote(s, n, c) : n \in Followers(s)}
      BY <1>4 DEF raft_periodic_expired
    <3> HIDE DEF c
    <3>2. server' = [server EXCEPT ![s] = c] => server'[s] = c
      BY DEF TypeOK
    <3> QED
      BY <3>1, <3>2
  <2>3. raft_send_appendentries_all(s, server[s]) \subseteq Messages
    BY <1>1, Requests
  <2>4. \A n \in Nodes : RequestVote(s, n, server'[s]) \in Messages
    BY <1>1, Requests
  <2> QED
    BY <1>2, <2>1, <2>2, <2>3, <2>4 DEF Followers
<1>5. ASSUME NEW s \in Nodes, NEW id \in EntryIds, raft_recv_entry(s, id)
      PROVE  msgs' \subseteq Messages /\ granted' \subseteq Nodes \X Nodes \X Nat
  <2> DEFINE e == raft_append_entry(server[s], server[s].current_term, id)
  <2>1. /\ granted' = granted /\ server' = [server EXCEPT ![s] = e]
        /\ msgs' = msgs \union raft_send_appendentries_all(s, e)
    BY <1>5 DEF raft_recv_entry
  <2> HIDE DEF e
  <2>2. server'[s] = e
    BY <2>1 DEF TypeOK
  <2>3. raft_send_appendentries_all(s, e) \subseteq Messages
    BY <1>1, <2>2, Requests
  <2> QED
    BY <1>2, <2>1, <2>3
<1>6. ASSUME NEW m \in Foreign, UserAppendEntries(m)
      PROVE  msgs' \subseteq Messages /\ granted' \subseteq Nodes \X Nodes \X Nat
  BY <1>2, <1>6, ForeignAssumption DEF UserAppendEntries
<1>7. ASSUME NEW m \in msgs, raft_recv_requestvote(m)
      PROVE  msgs' \subseteq Messages /\ granted' \subseteq Nodes \X Nodes \X Nat
  <2> DEFINE s == m.to
  <2>1. s \in Nodes /\ m.from \in Nodes /\ m.term \in Nat
    BY <1>2, <1>7 DEF raft_recv_requestvote, Messages
  <2>2. granted' = granted \/ granted' = granted \union {<<s, m.from, m.term>>}
    BY <1>7 DEF raft_recv_requestvote
  <2>3. \E ok \in BOOLEAN : msgs' = (msgs \ {m}) \union
                                    {RequestVoteResponse(s, m.from, server[s].current_term, ok)}
    BY <1>7, Zenon DEF raft_recv_requestvote
  <2>4. \A ok \in BOOLEAN : RequestVoteResponse(s, m.from, server[s].current_term, ok) \in Messages
    BY <1>1, <2>1, Requests
  <2> QED
    BY <1>2, <2>1, <2>2, <2>3, <2>4
<1>8. ASSUME NEW m \in msgs, raft_recv_requestvote_response(m)
      PROVE  msgs' \subseteq Messages /\ granted' \subseteq Nodes \X Nodes \X Nat
  <2> DEFINE s == m.to
             l == raft_become_leader([server[s] EXCEPT !.votes_for_me = @ \union {m.from}], s)
  <2>1. s \in Nodes
    BY <1>2, <1>8 DEF raft_recv_requestvote_response, Messages
  <2>2. /\ granted' = granted
        /\ \/ msgs' \subseteq msgs
           \/ /\ server' = [server EXCEPT ![s] = l]
              /\ msgs' = (msgs \ {m}) \union raft_send_appendentries_all(s, l)
    BY <1>8 DEF raft_recv_requestvote_response
  <2> HIDE DEF l
  <2>3. server' = [server EXCEPT ![s] = l] => raft_send_appendentries_all(s, l) \subseteq Messages
    <3>1. server' = [server EXCEPT ![s] = l] => server'[s] = l
      BY <2>1 DEF TypeOK
    <3> QED
      BY <1>1, <2>1, <3>1, Requests
  <2> QED
    BY <1>2, <2>2, <2>3
<1>9. ASSUME NEW m \in msgs, NEW c \in Garbage, raft_recv_appendentries(m, c)
      PROVE  msgs' \subseteq Messages /\ granted' \subseteq Nodes \X Nodes \X Nat
  <2>1. granted' = granted
    BY <1>9, Zenon DEF raft_recv_appendentries
  <2> QED
    BY <1>2, <1>9, <2>1, AppendStep, EntriesAssumption
<1>10. ASSUME NEW m \in msgs, raft_recv_appendentries_response(m)
       PROVE  msgs' \subseteq Messages /\ granted' \subseteq Nodes \X Nodes \X Nat
  <2> DEFINE s == m.to
             back == [server[s] EXCEPT !.next_idx[m.from] = @ - 1]
  <2>1. s \in Nodes /\ m.from \in Nodes
    BY <1>2, <1>10 DEF raft_recv_appendentries_response, Messages
  <2>2. /\ granted' = granted
        /\ \/ msgs' \subseteq msgs
           \/ /\ server' = [server EXCEPT ![s] = back]
              /\ msgs' = (msgs \ {m}) \union {raft_send_appendentries(s, m.from, back)}
    BY <1>10 DEF raft_recv_appendentries_response
  <2> HIDE DEF back
  <2>3. server' = [server EXCEPT ![s] = back] => raft_send_appendentries(s, m.from, back) \in Messages
    <3>1. server' = [server EXCEPT ![s] = back] => server'[s] = back
      BY <2>1 DEF TypeOK
    <3> QED
      BY <1>1, <2>1, <3>1, Requests
  <2> QED
    BY <1>2, <2>2, <2>3
<1>11. CASE UNCHANGED vars
  BY <1>2, <1>11 DEF vars
<1> QED
  BY <1>3, <1>4, <1>5, <1>6, <1>7, <1>8, <1>9, <1>10, <1>11 DEF Next

\* The types hold at the start.
LEMMA TypesInit ==
    ASSUME Init
    PROVE  TypeOK
<1>1. raft_new \in Servers
  <2>1. /\ <<>> \in Seq(Entries) /\ [n \in Nodes |-> 0] \in [Nodes -> Int]
        /\ {} \in SUBSET Nodes /\ 1 \in Nat \ {0}
    OBVIOUS
  <2> QED
    BY <2>1 DEF raft_new, Servers
<1>2. <<>> \in Seq(Nat)
  OBVIOUS
<1> QED
  BY <1>1, <1>2 DEF Init, TypeOK

\* Every server keeps a record of raft_server_private_t, whatever it is sent
\* and whatever leader_commit holds: indexes and terms stay natural numbers,
\* a vote is for a node or for nobody, and current_idx is never 0.
THEOREM TypeCorrect == Spec => []TypeOK
<1>1. Init => TypeOK
  BY TypesInit
<1>2. TypeOK /\ [Next]_vars => TypeOK'
  BY TypesKept
<1> QED
  BY <1>1, <1>2, PTL DEF Spec
-----------------------------------------------------------------------------
(* The state machine gets the log *)

\* A step of a server whose log no log_delete has cut below last_applied_idx.
LEMMA PrefixKept ==
    ASSUME NEW old \in Servers, NEW new \in Servers, NEW ap \in Seq(Nat), NEW ap2, NEW iscut,
           ~iscut, Progress(old, new, ap, ap2, iscut),
           old.last_applied_idx <= Len(old.log), Len(ap) = old.last_applied_idx,
           \A i \in 1 .. Len(ap) : ap[i] = old.log[i].id
    PROVE  /\ new.last_applied_idx <= Len(new.log)
           /\ ap2 \in Seq(Nat) /\ Len(ap2) = new.last_applied_idx
           /\ \A i \in 1 .. Len(ap2) : ap2[i] = new.log[i].id
<1>1. PICK k \in Nat, n \in 0 .. Len(old.log) :
          /\ new.last_applied_idx = old.last_applied_idx + k
          /\ k > 0 => new.last_applied_idx <= n /\ new.last_applied_idx <= new.commit_idx
          /\ n <= Len(new.log) /\ \A i \in 1 .. n : new.log[i].id = old.log[i].id
          /\ n < Len(old.log) /\ n < old.last_applied_idx => iscut
          /\ ap2 = ap \o AppliedIds(old, k)
  BY Zenon DEF Progress
<1> DEFINE ids == AppliedIds(old, k)
           g == [i \in 1 .. n |-> old.log[i].id]
<1>2. Len(ap) \in Nat /\ Len(old.log) \in Nat /\ Len(new.log) \in Nat /\ n \in Nat
  BY ServerFields
<1>3. Len(ap) + k <= n
  <2>1. Len(ap) <= n
    BY <1>1, <1>2
  <2> QED
    BY <1>1, <1>2, <2>1
<1>4. ids \in Seq(Nat) /\ Len(ids) = k
  <2>1. k = 0 \/ k <= Unapplied(old)
    BY <1>1, <1>2, <1>3 DEF Unapplied
  <2> QED
    BY <2>1, AppliedIdsType
<1>5. \A i \in 1 .. Len(ap) : ap[i] = g[i]
  BY <1>2, <1>3
<1>6. \A i \in 1 .. k : ids[i] = g[Len(ap) + i]
  BY <1>2, <1>3 DEF AppliedIds
<1> HIDE DEF ids, g
<1>7. \A i \in 1 .. Len(ap) + Len(ids) : (ap \o ids)[i] = g[i]
  <2>1. ids \in Seq(Nat) /\ \A i \in 1 .. Len(ids) : ids[i] = g[Len(ap) + i]
    BY <1>4, <1>6
  <2> QED
    BY <1>5, <2>1, Joined, Zenon
<1>8. ap \o ids \in Seq(Nat) /\ Len(ap \o ids) = Len(ap) + k
  BY <1>4, Longer, Zenon
<1>9. \A i \in 1 .. Len(ap) + k : g[i] = new.log[i].id
  BY <1>1, <1>2, <1>3 DEF g
<1>10. ap2 = ap \o ids /\ new.last_applied_idx = Len(ap) + k /\ n <= Len(new.log)
  BY <1>1 DEF ids
<1>11. new.last_applied_idx <= Len(new.log)
  BY <1>2, <1>3, <1>10
<1>12. \A i \in 1 .. Len(ap2) : ap2[i] = new.log[i].id
  BY <1>4, <1>7, <1>8, <1>9, <1>10, Zenon
<1> QED
  BY <1>8, <1>10, <1>11, <1>12

\* For every cluster, log and order of messages: what a server has given to
\* applylog is its log up to last_applied_idx, in order and without a gap or
\* a repetition, as long as no log_delete reached an applied entry.
THEOREM StateMachineGetsLog == Spec => []AppliedIsLogPrefix
<1>1. Init => AppliedIsLogPrefix
  <2> SUFFICES ASSUME Init, NEW s \in Nodes
               PROVE  /\ server[s].last_applied_idx <= Len(server[s].log)
                      /\ applied[s] = [i \in 1 .. server[s].last_applied_idx |-> server[s].log[i].id]
    BY DEF AppliedIsLogPrefix
  <2>1. server[s].last_applied_idx = 0 /\ server[s].log = <<>> /\ applied[s] = <<>>
    BY DEF Init, raft_new
  <2>2. [i \in 1 .. 0 |-> server[s].log[i].id] = <<>>
    OBVIOUS
  <2> QED
    BY <2>1, <2>2
<1>2. TypeOK /\ AppliedIsLogPrefix /\ [Next]_vars => AppliedIsLogPrefix'
  <2> SUFFICES ASSUME TypeOK, AppliedIsLogPrefix, [Next]_vars, NEW s \in Nodes, s \notin cut'
               PROVE  /\ server'[s].last_applied_idx <= Len(server'[s].log)
                      /\ applied'[s] = [i \in 1 .. server'[s].last_applied_idx |-> server'[s].log[i].id]
    BY Zenon DEF AppliedIsLogPrefix
  <2>1. Steps
    BY AllSteps
  <2>2. /\ s \notin cut /\ server[s] \in Servers /\ server'[s] \in Servers
        /\ Progress(server[s], server'[s], applied[s], applied'[s], s \in cut')
    BY <2>1 DEF Steps, TypeOK
  <2>3. /\ server[s].last_applied_idx <= Len(server[s].log)
        /\ applied[s] = [i \in 1 .. server[s].last_applied_idx |-> server[s].log[i].id]
    BY <2>2 DEF AppliedIsLogPrefix
  <2> DEFINE old == server[s]
             new == server'[s]
             ap == applied[s]
             ap2 == applied'[s]
             iscut == s \in cut'
  <2>4. /\ old \in Servers /\ new \in Servers /\ Progress(old, new, ap, ap2, iscut) /\ ~iscut
        /\ old.last_applied_idx <= Len(old.log)
    BY <2>2, <2>3
  <2>5. /\ ap \in Seq(Nat) /\ Len(ap) = old.last_applied_idx
        /\ \A i \in 1 .. Len(ap) : ap[i] = old.log[i].id
    <3>1. old.last_applied_idx \in Nat /\ ap \in Seq(Nat)
      BY <2>2, ServerFields DEF TypeOK
    <3> QED
      BY <2>3, <3>1
  <2> HIDE DEF old, new, ap, ap2, iscut
  <2>6. /\ new.last_applied_idx <= Len(new.log)
        /\ ap2 \in Seq(Nat) /\ Len(ap2) = new.last_applied_idx
        /\ \A i \in 1 .. Len(ap2) : ap2[i] = new.log[i].id
    BY <2>4, <2>5, PrefixKept
  <2>7. ap2 = [i \in 1 .. Len(ap2) |-> ap2[i]]
    BY <2>6
  <2>8. ap2 = [i \in 1 .. new.last_applied_idx |-> new.log[i].id]
    BY <2>6, <2>7
  <2> QED
    BY <2>6, <2>8 DEF new, ap2
<1> QED
  BY <1>1, <1>2, TypeCorrect, PTL DEF Spec

\* For every cluster: no handler takes a term, an applied index or an applied
\* entry back, or applies beyond the commit index it leaves behind.
THEOREM NothingTakenBack == Spec => NeverBack
<1>1. ASSUME TypeOK, [Next]_vars, NEW s \in Nodes
      PROVE  /\ server'[s].current_term >= server[s].current_term
             /\ server'[s].last_applied_idx >= server[s].last_applied_idx
             /\ SubSeq(applied'[s], 1, Len(applied[s])) = applied[s]
             /\ server'[s].last_applied_idx > server[s].last_applied_idx =>
                   server'[s].last_applied_idx <= server'[s].commit_idx
             /\ server'[s].commit_idx < server[s].commit_idx =>
                   \E i \in DOMAIN server[s].log : server[s].log[i].id < server[s].commit_idx
  <2> DEFINE old == server[s]
             new == server'[s]
  <2>1. /\ Progress(old, new, applied[s], applied'[s], s \in cut')
        /\ old \in Servers /\ applied[s] \in Seq(Nat) /\ applied'[s] \in Seq(Nat)
    BY <1>1, AllSteps DEF Steps, TypeOK
  <2> HIDE DEF old, new
  <2>2. PICK k \in Nat :
          /\ new.last_applied_idx = old.last_applied_idx + k
          /\ k > 0 => new.last_applied_idx <= Len(old.log) /\ new.last_applied_idx <= new.commit_idx
          /\ applied'[s] = applied[s] \o AppliedIds(old, k)
    <3>1. old.last_applied_idx \in Nat /\ Len(old.log) \in Nat
      BY <2>1, ServerFields
    <3>2. PICK k \in Nat, n \in 0 .. Len(old.log) :
          /\ new.last_applied_idx = old.last_applied_idx + k
          /\ k > 0 => new.last_applied_idx <= n /\ new.last_applied_idx <= new.commit_idx
          /\ applied'[s] = applied[s] \o AppliedIds(old, k)
      BY <2>1, Zenon DEF Progress
    <3>3. k > 0 => new.last_applied_idx <= Len(old.log)
      BY <3>1, <3>2
    <3> QED
      BY <3>2, <3>3, Zenon
  <2>3. old.last_applied_idx \in Nat /\ (k = 0 \/ k <= Unapplied(old))
    <3>1. old.last_applied_idx \in Nat /\ Len(old.log) \in Nat
      BY <2>1, ServerFields
    <3> QED
      BY <2>2, <3>1 DEF Unapplied
  <2>4. new.last_applied_idx >= old.last_applied_idx
        /\ (new.last_applied_idx > old.last_applied_idx => new.last_applied_idx <= new.commit_idx)
    BY <2>2, <2>3
  <2>5. SubSeq(applied'[s], 1, Len(applied[s])) = applied[s]
    <3> DEFINE a == applied[s]
               x == AppliedIds(old, k)
    <3>1. Len(x) \in Nat /\ x \in Seq(Nat)
      BY <2>1, <2>3, AppliedIdsType
    <3> HIDE DEF a, x
    <3>2. a \in Seq(Nat) /\ Len(a) \in Nat
      BY <2>1 DEF a
    <3>3. SubSeq(a \o x, 1, Len(a)) = a
      BY <3>1, <3>2, Longer
    <3> QED
      BY <2>2, <3>3 DEF a, x
  <2> QED
    BY <2>1, <2>4, <2>5, Zenon DEF Progress, old, new
<1>2. TypeOK /\ [Next]_vars =>
      [\A s \in Nodes :
          /\ server'[s].current_term >= server[s].current_term
          /\ server'[s].last_applied_idx >= server[s].last_applied_idx
          /\ SubSeq(applied'[s], 1, Len(applied[s])) = applied[s]
          /\ server'[s].last_applied_idx > server[s].last_applied_idx =>
                server'[s].last_applied_idx <= server'[s].commit_idx
          /\ server'[s].commit_idx < server[s].commit_idx =>
                \E i \in DOMAIN server[s].log : server[s].log[i].id < server[s].commit_idx]_vars
  BY <1>1
<1> QED
  BY <1>2, TypeCorrect, PTL DEF Spec, NeverBack
-----------------------------------------------------------------------------
(* Elections *)

\* A request for a vote names a term its sender has reached, an answer that
\* grants a vote is one that was given, and so is every vote counted.
VoteInv ==
    /\ \A m \in msgs : m.type = "requestvote" => m.term \in 1 .. server[m.from].current_term
    /\ \A m \in msgs : m.type = "requestvote_response" /\ m.vote_granted =>
          \E t \in 1 .. server[m.to].current_term : <<m.from, m.to, t>> \in granted
    /\ \A s \in Nodes : server[s].votes_for_me \subseteq Voters(s)
    /\ LeaderWasElected

\* A message that claims nothing: no request, and no vote.
Plain(m) ==
    m.type # "requestvote" /\ (m.type = "requestvote_response" => ~m.vote_granted)

\* The votes for a server stay, because its term never goes back.
LEMMA VotersStay ==
    ASSUME TypeOK, Steps, granted \subseteq granted', NEW s \in Nodes
    PROVE  /\ server[s].current_term \in Nat /\ server'[s].current_term \in Nat
           /\ 1 .. server[s].current_term \subseteq 1 .. server'[s].current_term
           /\ Voters(s) \subseteq Voters(s)'
           /\ IsFiniteSet(Voters(s)') /\ IsFiniteSet(Voters(s))
           /\ Cardinality(Voters(s)) <= Cardinality(Voters(s)')
           /\ Cardinality(Voters(s)) \in Nat /\ Cardinality(Voters(s)') \in Nat
<1>1. /\ server[s].current_term \in Nat /\ server'[s].current_term \in Nat
      /\ server'[s].current_term >= server[s].current_term
  BY ServerFields DEF TypeOK, Steps, Progress
<1>2. 1 .. server[s].current_term \subseteq 1 .. server'[s].current_term
  BY <1>1
<1>3. Voters(s) \subseteq Voters(s)' /\ Voters(s)' \subseteq Nodes
  BY <1>2 DEF Voters
<1>4. IsFiniteSet(Voters(s)')
  BY <1>3, NodesAssumption, FS_Subset
<1>5. IsFiniteSet(Voters(s)) /\ Cardinality(Voters(s)) <= Cardinality(Voters(s)')
  BY <1>3, <1>4, FS_Subset
<1>6. Cardinality(Voters(s)) \in Nat /\ Cardinality(Voters(s)') \in Nat
  BY <1>4, <1>5, FS_CardinalityType
<1> QED
  BY <1>1, <1>2, <1>3, <1>4, <1>5, <1>6

\* A step keeps VoteInv if the messages it sends, the votes it counts and the
\* leaders it makes are justified.
LEMMA VotesKept ==
    ASSUME TypeOK, Steps, VoteInv, granted \subseteq granted',
           \A m \in msgs' \ msgs :
              \/ Plain(m)
              \/ m.type = "requestvote" /\ m.term \in 1 .. server'[m.from].current_term
              \/ /\ m.type = "requestvote_response"
                 /\ \E t \in 1 .. server'[m.to].current_term : <<m.from, m.to, t>> \in granted',
           \A s \in Nodes : \/ server'[s].votes_for_me \subseteq server[s].votes_for_me
                            \/ server'[s].votes_for_me \subseteq Voters(s),
           \A s \in Nodes : server'[s].state = "leader" =>
                               \/ server[s].state = "leader"
                               \/ Cardinality(Voters(s)) * 2 > NumNodes
    PROVE  VoteInv'
<1>1. \A m \in msgs : m.type \in {"requestvote", "requestvote_response"} =>
                         m.from \in Nodes /\ m.to \in Nodes
  BY Zenon DEF TypeOK, Messages
<1>2. \A m \in msgs' : m.type = "requestvote" => m.term \in 1 .. server'[m.from].current_term
  BY <1>1, VotersStay DEF VoteInv, Plain
<1>3. \A m \in msgs' : m.type = "requestvote_response" /\ m.vote_granted =>
          \E t \in 1 .. server'[m.to].current_term : <<m.from, m.to, t>> \in granted'
  BY <1>1, VotersStay DEF VoteInv, Plain
<1>4. \A s \in Nodes : server'[s].votes_for_me \subseteq Voters(s)'
  BY VotersStay DEF VoteInv
<1>5. LeaderWasElected'
  <2> SUFFICES ASSUME NEW s \in Nodes, server'[s].state = "leader"
               PROVE  Cardinality(Voters(s)') * 2 > NumNodes
    BY DEF LeaderWasElected, NumNodes
  <2>1. Cardinality(Voters(s)) * 2 > NumNodes /\ NumNodes \in Nat
    BY NodesAssumption, FS_CardinalityType DEF VoteInv, LeaderWasElected, NumNodes
  <2> QED
    BY <2>1, VotersStay
<1> QED
  BY <1>2, <1>3, <1>4, <1>5 DEF VoteInv

\* A step of one server that starts no election and counts no vote.
LEMMA OneKeepsVotes ==
    ASSUME TypeOK, Steps, VoteInv, granted' = granted, NEW s \in Nodes, NEW new,
           server' = [server EXCEPT ![s] = new],
           new.votes_for_me \subseteq server[s].votes_for_me,
           new.state = "leader" => server[s].state = "leader",
           \A m \in msgs' \ msgs : Plain(m)
    PROVE  VoteInv'
<1>1. \A n \in Nodes : server'[n] = IF n = s THEN new ELSE server[n]
  BY DEF TypeOK
<1> QED
  BY <1>1, VotesKept

\* appendentries claims nothing.
LEMMA PlainMessages ==
    ASSUME NEW s \in Nodes, NEW me
    PROVE  \A m \in raft_send_appendentries_all(s, me) : Plain(m)
  BY DEF Plain, raft_send_appendentries, raft_send_appendentries_all

\* raft_periodic: a leader sends appendentries, an election begins with the
\* votes cleared and requests in the new term.
LEMMA PeriodicVotes ==
    ASSUME TypeOK, Steps, VoteInv, NEW s \in Nodes, raft_periodic(s) \/ raft_periodic_expired(s)
    PROVE  VoteInv'
<1> DEFINE me == server[s]
<1>0. me \in Servers /\ server \in [Nodes -> Servers]
  BY DEF TypeOK
<1>1. CASE raft_periodic(s)
  <2> DEFINE new == raft_apply_entry(me, 1)
  <2>1. server' = [server EXCEPT ![s] = new] /\ granted' = granted /\ msgs' = msgs
    BY <1>1 DEF raft_periodic
  <2>2. new.votes_for_me = me.votes_for_me /\ new.state = me.state
    BY <1>0, ApplyEntry
  <2> HIDE DEF new
  <2> QED
    BY <2>1, <2>2, OneKeepsVotes, Zenon
<1>2. CASE raft_periodic_expired(s)
  <2> DEFINE lag == me.state = "follower" /\ me.last_applied_idx < me.commit_idx
             k == IF lag THEN 1 ELSE 0
             up == raft_apply_entry(me, k)
             c == raft_become_candidate(up, s)
  <2>1. granted' = granted
    BY <1>2 DEF raft_periodic_expired
  <2>2. CASE me.state = "leader"
    <3>1. server' = server /\ msgs' = msgs \union raft_send_appendentries_all(s, me)
      BY <1>2, <2>2 DEF raft_periodic_expired
    <3> QED
      BY <2>1, <3>1, VotesKept, PlainMessages
  <2>3. CASE me.state # "leader"
    <3>1. /\ server' = [server EXCEPT ![s] = c]
          /\ msgs' = msgs \union {RequestVote(s, n, c) : n \in Followers(s)}
      BY <1>2, <2>3 DEF raft_periodic_expired
    <3>2. k \in Nat
      OBVIOUS
    <3> HIDE DEF k
    <3>3. up \in Servers /\ up.current_term \in Nat
      BY <1>0, <3>2, ApplyEntry, ServerFields
    <3> HIDE DEF up
    <3>4. c.votes_for_me = {} /\ c.state = "candidate" /\ c.current_term = up.current_term + 1
      BY <3>3 DEF raft_become_candidate, Servers
    <3> HIDE DEF c
    <3>5. \A n \in Nodes : server'[n] = IF n = s THEN c ELSE server[n]
      BY <1>0, <3>1
    <3>6. \A m \in msgs' \ msgs :
             m.type = "requestvote" /\ m.term \in 1 .. server'[m.from].current_term
      <4> TAKE m \in msgs' \ msgs
      <4>1. m.type = "requestvote" /\ m.term = c.current_term /\ m.from = s
        BY <3>1 DEF RequestVote
      <4>2. c.current_term \in 1 .. c.current_term
        BY <3>3, <3>4
      <4> QED
        BY <3>5, <4>1, <4>2, Zenon
    <3>7. \A n \in Nodes : server'[n].votes_for_me \subseteq server[n].votes_for_me
      BY <3>4, <3>5
    <3>8. \A n \in Nodes : server'[n].state = "leader" => server[n].state = "leader"
      BY <3>4, <3>5
    <3> QED
      BY <2>1, <3>6, <3>7, <3>8, VotesKept
  <2> QED
    BY <2>2, <2>3
<1> QED
  BY <1>1, <1>2

\* A vote is granted to a server for a term it has reached.
LEMMA VoteGranted ==
    ASSUME TypeOK, Steps, VoteInv, NEW m \in msgs, raft_recv_requestvote(m)
    PROVE  VoteInv'
<1> DEFINE s == m.to
           me == server[s]
           v == IF me.current_term < m.term THEN [me EXCEPT !.voted_for = NoVote] ELSE me
           refuse == \/ m.term < me.current_term
                     \/ v.voted_for # NoVote
                     \/ m.last_log_idx < me.current_idx
           new == IF refuse THEN v ELSE [v EXCEPT !.voted_for = m.from]
           answer == RequestVoteResponse(s, m.from, me.current_term, ~refuse)
<1>1. s \in Nodes /\ m.from \in Nodes /\ m.term \in 1 .. server[m.from].current_term
  BY DEF TypeOK, Messages, VoteInv, raft_recv_requestvote
<1>2. me \in Servers /\ server \in [Nodes -> Servers]
  BY <1>1 DEF TypeOK
<1>3. /\ server' = [server EXCEPT ![s] = new] /\ msgs' = (msgs \ {m}) \union {answer}
      /\ granted' = IF refuse THEN granted ELSE granted \union {<<s, m.from, m.term>>}
  BY DEF raft_recv_requestvote
<1> HIDE DEF refuse
<1>4. new.votes_for_me = me.votes_for_me /\ new.state = me.state
  BY <1>2 DEF Servers
<1> HIDE DEF new
<1>5. \A n \in Nodes : server'[n] = IF n = s THEN new ELSE server[n]
  BY <1>2, <1>3
<1>6. granted \subseteq granted'
  BY <1>3
<1>7. CASE refuse
  <2>1. Plain(answer)
    BY <1>7, Zenon DEF Plain, RequestVoteResponse
  <2> QED
    BY <1>3, <1>4, <1>5, <1>6, <2>1, VotesKept, Zenon
<1>8. CASE ~refuse
  <2>1. answer.type = "requestvote_response" /\ answer.from = s /\ answer.to = m.from
    BY DEF RequestVoteResponse
  <2>2. m.term \in 1 .. server'[m.from].current_term /\ <<s, m.from, m.term>> \in granted'
    BY <1>1, <1>3, <1>6, <1>8, VotersStay
  <2> HIDE DEF answer
  <2>3. \A a \in msgs' \ msgs :
           /\ a.type = "requestvote_response"
           /\ \E t \in 1 .. server'[a.to].current_term : <<a.from, a.to, t>> \in granted'
    BY <1>3, <2>1, <2>2
  <2> QED
    BY <1>4, <1>5, <1>6, <2>3, VotesKept
<1> QED
  BY <1>7, <1>8

\* A vote is counted once per node, and the counted ones make the majority.
LEMMA VoteCounted ==
    ASSUME TypeOK, Steps, VoteInv, NEW m \in msgs, raft_recv_requestvote_response(m)
    PROVE  VoteInv'
<1> DEFINE s == m.to
           me == server[s]
           v == [me EXCEPT !.votes_for_me = @ \union {m.from}]
           won == raft_votes_is_majority(raft_get_nvotes_for_me(v, s))
           l == raft_become_leader(v, s)
<1>0. m \in Messages /\ m.type = "requestvote_response" /\ granted' = granted
  BY DEF TypeOK, raft_recv_requestvote_response
<1>1. s \in Nodes /\ m.from \in Nodes
  BY <1>0 DEF Messages
<1>2. me \in Servers /\ server \in [Nodes -> Servers]
  BY <1>1 DEF TypeOK
<1>3. CASE me.state = "leader" \/ ~m.vote_granted
  <2>1. server' = server /\ msgs' = msgs \ {m}
    BY <1>3 DEF raft_recv_requestvote_response
  <2> QED
    BY <1>0, <2>1, VotesKept
<1>4. CASE ~(me.state = "leader" \/ ~m.vote_granted)
  <2>1. /\ server' = [server EXCEPT ![s] = IF won THEN l ELSE v]
        /\ msgs' = (msgs \ {m}) \union IF won THEN raft_send_appendentries_all(s, l) ELSE {}
    BY <1>4 DEF raft_recv_requestvote_response
  <2>2. m.from \in Voters(s)
    BY <1>0, <1>1, <1>4 DEF VoteInv, Voters
  <2>3. v.votes_for_me = me.votes_for_me \union {m.from} /\ v.state = me.state /\ v \in Servers
    <3>1. me.votes_for_me \union {m.from} \in SUBSET Nodes
      BY <1>1, <1>2, ServerFields
    <3> HIDE DEF me
    <3> QED
      BY <1>2, <3>1, Zenon DEF Servers
  <2> HIDE DEF v
  <2>4. l.votes_for_me = v.votes_for_me
    BY <2>3 DEF raft_become_leader, Servers
  <2>5. v.votes_for_me \subseteq Voters(s) /\ s \in Voters(s)
    BY <1>1, <2>2, <2>3 DEF VoteInv, Voters
  <2>6. ASSUME won PROVE Cardinality(Voters(s)) * 2 > NumNodes
    <3> DEFINE others == v.votes_for_me \ {s}
    <3>1. IsFiniteSet(Voters(s)) /\ NumNodes \in Nat
      BY <1>1, NodesAssumption, FS_Subset, FS_CardinalityType DEF Voters, NumNodes
    <3>2. others \union {s} \subseteq Voters(s) /\ others \subseteq Voters(s)
      BY <2>5
    <3>3. IsFiniteSet(others) /\ IsFiniteSet(others \union {s})
      BY <3>1, <3>2, FS_Subset
    <3>4. Cardinality(others \union {s}) = Cardinality(others) + 1
      BY <3>3, FS_AddElement
    <3>5. Cardinality(others \union {s}) <= Cardinality(Voters(s))
      BY <3>1, <3>2, FS_Subset
    <3>6. Cardinality(others) \in Nat /\ Cardinality(Voters(s)) \in Nat
      BY <3>1, <3>3, FS_CardinalityType
    <3>7. NumNodes \div 2 + 1 <= Cardinality(others) + IF v.voted_for = s THEN 1 ELSE 0
      BY <2>6 DEF raft_votes_is_majority, raft_get_nvotes_for_me
    <3> HIDE DEF others
    <3>8. NumNodes \div 2 + 1 <= Cardinality(others) + 1
      BY <3>1, <3>6, <3>7
    <3> QED
      BY <3>1, <3>4, <3>5, <3>6, <3>8
  <2> HIDE DEF won, l
  <2>7. \A n \in Nodes : server'[n] = IF n = s THEN (IF won THEN l ELSE v) ELSE server[n]
    BY <1>2, <2>1
  <2>8. \A n \in Nodes : \/ server'[n].votes_for_me \subseteq server[n].votes_for_me
                         \/ server'[n].votes_for_me \subseteq Voters(n)
    BY <2>4, <2>5, <2>7
  <2>9. \A n \in Nodes : server'[n].state = "leader" =>
                            \/ server[n].state = "leader"
                            \/ Cardinality(Voters(n)) * 2 > NumNodes
    BY <2>3, <2>6, <2>7
  <2>10. \A a \in msgs' \ msgs : Plain(a)
    BY <1>1, <2>1, PlainMessages
  <2> QED
    BY <1>0, <2>8, <2>9, <2>10, VotesKept
<1> QED
  BY <1>3, <1>4

\* The handlers of entries leave the votes alone.
LEMMA EntryVotes ==
    ASSUME TypeOK, Steps, VoteInv,
           \/ \E s \in Nodes, id \in EntryIds : raft_recv_entry(s, id)
           \/ \E m \in Foreign : UserAppendEntries(m)
           \/ \E m \in msgs, c \in Garbage : raft_recv_appendentries(m, c)
           \/ \E m \in msgs : raft_recv_appendentries_response(m)
    PROVE  VoteInv'
<1>0. server \in [Nodes -> Servers] /\ \A s \in Nodes : server[s] \in Servers
  BY DEF TypeOK
<1>1. ASSUME NEW s \in Nodes, NEW id \in EntryIds, raft_recv_entry(s, id) PROVE VoteInv'
  <2> DEFINE e == raft_append_entry(server[s], server[s].current_term, id)
  <2>1. /\ granted' = granted /\ server' = [server EXCEPT ![s] = e]
        /\ msgs' = msgs \union raft_send_appendentries_all(s, e)
    BY <1>1 DEF raft_recv_entry
  <2>2. e.votes_for_me = server[s].votes_for_me /\ e.state = server[s].state
    BY <1>0 DEF raft_append_entry, Servers
  <2> HIDE DEF e
  <2> QED
    BY <2>1, <2>2, OneKeepsVotes, PlainMessages, Zenon
<1>2. ASSUME NEW m \in Foreign, UserAppendEntries(m) PROVE VoteInv'
  <2>1. msgs' = msgs \union {m} /\ server' = server /\ granted' = granted
    BY <1>2 DEF UserAppendEntries
  <2>2. Plain(m)
    BY ForeignAssumption DEF Plain
  <2> QED
    BY <2>1, <2>2, VotesKept, Zenon
<1>3. ASSUME NEW m \in msgs, NEW c \in Garbage, raft_recv_appendentries(m, c) PROVE VoteInv'
  <2>1. /\ server'[m.to].state = "leader" => server[m.to].state = "leader"
        /\ server'[m.to].votes_for_me = server[m.to].votes_for_me
        /\ \A n \in Nodes \ {m.to} : server'[n] = server[n]
        /\ \A x \in msgs' \ msgs : x.type = "appendentries_response"
    BY <1>3, AppendStep, EntriesAssumption
  <2>3. granted' = granted
    BY <1>3, Zenon DEF raft_recv_appendentries
  <2>5. \A a \in msgs' \ msgs : Plain(a)
    BY <2>1 DEF Plain
  <2>6. \A n \in Nodes : /\ server'[n].votes_for_me \subseteq server[n].votes_for_me
                         /\ server'[n].state = "leader" => server[n].state = "leader"
    BY <2>1
  <2> QED
    BY <2>3, <2>5, <2>6, VotesKept
<1>4. ASSUME NEW m \in msgs, raft_recv_appendentries_response(m) PROVE VoteInv'
  <2> DEFINE s == m.to
             me == server[s]
             marked == [me EXCEPT !.log = log_mark_node_has_committed(@, m.first_idx, m.current_idx)]
             back == [me EXCEPT !.next_idx[m.from] = @ - 1]
             gone == [me EXCEPT !.state = "aborted"]
  <2>1. s \in Nodes
    BY <1>4, Zenon DEF raft_recv_appendentries_response, TypeOK, Messages
  <2>2. me \in Servers
    BY <1>0, <2>1
  <2>3. /\ granted' = granted
        /\ \/ server' = [server EXCEPT ![s] = raft_apply_entry(marked, Acknowledged(marked))]
           \/ server' = [server EXCEPT ![s].state = "aborted"]
           \/ server' = [server EXCEPT ![s] = back]
        /\ \/ msgs' = msgs \ {m}
           \/ msgs' = (msgs \ {m}) \union {raft_send_appendentries(s, m.from, back)}
    BY <1>4, Zenon DEF raft_recv_appendentries_response
  <2>4. [server EXCEPT ![s].state = "aborted"] = [server EXCEPT ![s] = gone]
    BY <1>0, <2>1
  <2>5. /\ back.votes_for_me = me.votes_for_me /\ back.state = me.state
        /\ gone.votes_for_me = me.votes_for_me /\ gone.state = "aborted"
    <3> HIDE DEF me
    <3> QED
      BY <2>2 DEF Servers
  <2> DEFINE r == raft_apply_entry(marked, Acknowledged(marked))
  <2>6. r.votes_for_me = me.votes_for_me /\ r.state = me.state
    <3> HIDE DEF me
    <3>1. /\ marked.votes_for_me = me.votes_for_me /\ marked.state = me.state
          /\ DOMAIN marked = DOMAIN me
      BY <2>2 DEF Servers
    <3>2. DOMAIN me = {"state", "current_term", "voted_for", "current_idx", "commit_idx",
                       "last_applied_idx", "votes_for_me", "next_idx", "log"}
      BY <2>2 DEF Servers
    <3> HIDE DEF marked
    <3> QED
      BY <3>1, <3>2 DEF raft_apply_entry
  <2> HIDE DEF r, back, gone
  <2>7. \A a \in msgs' \ msgs : Plain(a)
    <3>1. Plain(raft_send_appendentries(s, m.from, back))
      BY DEF Plain, raft_send_appendentries
    <3> QED
      BY <2>3, <3>1
  <2>8. PICK new \in {r, gone, back} : server' = [server EXCEPT ![s] = new]
    BY <2>3, <2>4 DEF r
  <2>9. new.votes_for_me \subseteq me.votes_for_me /\ (new.state = "leader" => me.state = "leader")
    BY <2>5, <2>6
  <2> QED
    BY <2>1, <2>3, <2>7, <2>8, <2>9, OneKeepsVotes, Zenon
<1> QED
  BY <1>1, <1>2, <1>3, <1>4

\* For every cluster, however its messages are delayed, reordered or lost: a
\* server leads only if a majority of the cluster voted for it in elections
\* it had started.
THEOREM LeaderHasMajority == Spec => []LeaderWasElected
<1>1. Init => VoteInv
  <2> SUFFICES ASSUME Init PROVE VoteInv
    OBVIOUS
  <2>1. msgs = {} /\ \A s \in Nodes : server[s].votes_for_me = {} /\ server[s].state = "follower"
    BY DEF Init, raft_new
  <2> QED
    BY <2>1 DEF VoteInv, LeaderWasElected
<1>2. TypeOK /\ VoteInv /\ [Next]_vars => VoteInv'
  <2> SUFFICES ASSUME TypeOK, VoteInv, [Next]_vars PROVE VoteInv'
    OBVIOUS
  <2>1. Steps
    BY AllSteps
  <2>2. CASE UNCHANGED vars
    BY <2>1, <2>2, VotesKept DEF vars
  <2>3. CASE Next
    BY <2>1, <2>3, PeriodicVotes, VoteGranted, VoteCounted, EntryVotes DEF Next
  <2> QED
    BY <2>2, <2>3
<1>3. VoteInv => LeaderWasElected
  BY DEF VoteInv
<1> QED
  BY <1>1, <1>2, <1>3, TypeCorrect, PTL DEF Spec

-----------------------------------------------------------------------------
(* The array under a server's log *)

LogSpec == LogInit /\ [][LogNext]_subjectVars

Logs ==
    [size : {LogCapacity}, count : Nat, front : Nat, back : Nat, base_log_idx : Nat,
     entries : [0 .. LogCapacity - 1 -> Nat], state : {"ok"}]

\* The entries of the log lie from front to back.
InLog(front, entries, log) == \A i \in 1 .. Len(log) : log[i] = entries[front + i - 1]

\* The invariant of the log until its array is outgrown.
LogInv ==
    obj.state = "ok" =>
        /\ obj \in Logs /\ abs \in Seq(Nat)
        /\ obj.count = Len(abs) /\ obj.back = obj.front + obj.count /\ obj.back <= LogCapacity
        /\ InLog(obj.front, obj.entries, abs)

\* What LogInv says of the state, with a name for every part.
LEMMA LogParts ==
    ASSUME LogInv, obj.state = "ok"
    PROVE  /\ obj \in Logs /\ obj.size = LogCapacity /\ obj.count \in Nat /\ obj.front \in Nat
           /\ obj.back \in Nat /\ obj.base_log_idx \in Nat
           /\ obj.entries \in [0 .. LogCapacity - 1 -> Nat]
           /\ abs \in Seq(Nat) /\ Len(abs) \in Nat
           /\ obj.count = Len(abs) /\ obj.back = obj.front + obj.count /\ obj.back <= LogCapacity
           /\ InLog(obj.front, obj.entries, abs)
BY DEF LogInv, Logs

\* The numbers among them.
LEMMA LogNumbers ==
    ASSUME LogInv, obj.state = "ok"
    PROVE  /\ obj.size = LogCapacity /\ obj.count \in Nat /\ obj.front \in Nat /\ obj.back \in Nat
           /\ obj.base_log_idx \in Nat /\ Len(abs) \in Nat /\ LogCapacity \in Nat \ {0}
           /\ obj.count = Len(abs) /\ obj.back = obj.front + obj.count /\ obj.back <= LogCapacity
BY LogParts, LogAssumption

\* log_append_entry puts the entry at the back.
LEMMA LogAppendKeeps ==
    ASSUME LogInv, obj.state = "ok", NEW id \in LogIds, LogAppend(id)
    PROVE  LogInv'
<1>0. /\ obj.size = LogCapacity /\ obj.count \in Nat /\ obj.front \in Nat /\ obj.back \in Nat
      /\ obj.base_log_idx \in Nat /\ Len(abs) \in Nat /\ LogCapacity \in Nat \ {0}
      /\ obj.count = Len(abs) /\ obj.back = obj.front + obj.count /\ obj.back <= LogCapacity
  BY LogNumbers
<1>1. CASE id = 0
  <2>1. obj' = obj /\ abs' = abs
    BY <1>1, LogParts DEF LogAppend, log_append_entry, Becomes
  <2>2. QED BY <2>1 DEF LogInv
<1>2. CASE id # 0 /\ ~(obj.count < obj.size)
  <2> DEFINE e == log_ensurecapacity(obj)
  <2>1. e.state = "freed"
    BY <1>2, LogParts DEF log_ensurecapacity, Logs
  <2> HIDE DEF e
  <2>2. obj' = IF e.back = e.size THEN [e EXCEPT !.state = "overrun"]
               ELSE [e EXCEPT !.entries[e.back] = id, !.count = @ + 1, !.back = @ + 1]
    BY <1>2 DEF LogAppend, log_append_entry, Becomes, e
  <2>3. obj'.state # "ok"
    BY <2>1, <2>2
  <2>4. QED BY <2>3 DEF LogInv
<1>3. CASE id # 0 /\ obj.count < obj.size /\ obj.back = obj.size
  <2>1. log_append_entry(obj, id) = [obj EXCEPT !.state = "overrun"]
    BY <1>3 DEF log_append_entry, log_ensurecapacity
  <2>2. obj'.state = "overrun"
    BY <2>1, LogParts DEF LogAppend, Becomes, Logs
  <2>3. QED BY <2>2 DEF LogInv
<1>4. CASE id # 0 /\ obj.count < obj.size /\ obj.back # obj.size
  <2>1. log_append_entry(obj, id)
          = [obj EXCEPT !.entries[obj.back] = id, !.count = @ + 1, !.back = @ + 1]
    BY <1>4 DEF log_append_entry, log_ensurecapacity
  <2>2. /\ id \in Nat /\ obj.back \in 0 .. LogCapacity - 1
        /\ obj.count + 1 \in Nat /\ obj.back + 1 \in Nat /\ obj.count + 1 > obj.count
    BY <1>4, <1>0, LogAssumption
  <2>3. /\ obj' \in Logs /\ obj'.count = obj.count + 1 /\ obj'.back = obj.back + 1
        /\ obj'.front = obj.front /\ obj'.entries = [obj.entries EXCEPT ![obj.back] = id]
        /\ log_append_entry(obj, id).count = obj.count + 1
    <3>1. obj \in Logs /\ obj' = log_append_entry(obj, id)
      BY LogParts DEF LogAppend, Becomes
    <3>2. [obj.entries EXCEPT ![obj.back] = id] \in [0 .. LogCapacity - 1 -> Nat]
      BY <2>2, <3>1 DEF Logs
    <3>3. obj' = [obj EXCEPT !.entries = [obj.entries EXCEPT ![obj.back] = id],
                             !.count = obj.count + 1, !.back = obj.back + 1]
      BY <2>1, <3>1 DEF Logs
    <3>4. QED BY <2>2, <3>1, <3>2, <3>3, Zenon DEF Logs
  <2>4. abs' = Append(abs, id)
    BY <2>2, <2>3 DEF LogAppend, Becomes
  <2>5. /\ abs' \in Seq(Nat) /\ Len(abs') = Len(abs) + 1 /\ abs'[Len(abs) + 1] = id
        /\ \A i \in 1 .. Len(abs) : abs'[i] = abs[i]
    BY <2>2, <2>4, LogParts
  <2>6. InLog(obj'.front, obj'.entries, abs')
    <3>1. ASSUME NEW i \in 1 .. Len(abs) + 1 PROVE abs'[i] = obj'.entries[obj.front + i - 1]
      <4>1. CASE i = Len(abs) + 1
        <5>1. obj.front + i - 1 = obj.back
          BY <4>1, LogParts
        <5>2. obj'.entries[obj.back] = id
          BY <2>2, <2>3, LogParts, Zenon
        <5>3. QED BY <2>5, <4>1, <5>1, <5>2
      <4>2. CASE i # Len(abs) + 1
        <5>1. i \in 1 .. Len(abs) /\ obj.front + i - 1 \in 0 .. LogCapacity - 1
              /\ obj.front + i - 1 # obj.back
          BY <4>2, <1>0
        <5>2. obj'.entries[obj.front + i - 1] = obj.entries[obj.front + i - 1]
          BY <2>3, <5>1, LogParts
        <5>3. abs[i] = obj.entries[obj.front + i - 1]
          BY <5>1, LogParts, Zenon DEF InLog
        <5>4. QED BY <2>5, <5>1, <5>2, <5>3
      <4>3. QED BY <4>1, <4>2
    <3>2. QED BY <2>3, <2>5, <3>1 DEF InLog
  <2>7. obj.back + 1 = obj.front + (obj.count + 1) /\ obj.back + 1 <= LogCapacity
    BY <2>2, <1>0
  <2>8. QED BY <2>3, <2>5, <2>6, <2>7, LogParts, Zenon DEF LogInv
<1>5. QED BY <1>1, <1>2, <1>3, <1>4

\* log_delete cuts the log off from an index on.
LEMMA LogDeleteKeeps ==
    ASSUME LogInv, obj.state = "ok", NEW idx \in Nat, LogDelete(idx)
    PROVE  LogInv'
<1>0. /\ obj.size = LogCapacity /\ obj.count \in Nat /\ obj.front \in Nat /\ obj.back \in Nat
      /\ obj.base_log_idx \in Nat /\ Len(abs) \in Nat /\ LogCapacity \in Nat \ {0}
      /\ obj.count = Len(abs) /\ obj.back = obj.front + obj.count /\ obj.back <= LogCapacity
  BY LogNumbers
<1>1. PICK i \in 1 .. obj.count : idx = obj.base_log_idx + i
  <2>1. idx \in obj.base_log_idx + 1 .. obj.base_log_idx + obj.count
    BY DEF LogDelete
  <2> DEFINE b == obj.base_log_idx
             c == obj.count
  <2>2. b \in Nat /\ c \in Nat /\ idx \in b + 1 .. b + c
    BY <1>0, <2>1, Zenon
  <2> HIDE DEF b, c
  <2>3. idx - b \in 1 .. c /\ idx = b + (idx - b)
    BY <2>2
  <2>4. QED BY <2>3, Zenon DEF b, c
<1> DEFINE left == i - 1
           n == obj.count - left
<1>2. /\ idx - 1 - obj.base_log_idx = left /\ idx - obj.base_log_idx - 1 = left
      /\ left < obj.count /\ left \in Nat /\ left <= Len(abs)
      /\ obj.back - n = obj.front + left /\ obj.count - n = left
      /\ obj.front + left <= LogCapacity /\ obj.front + left \in Nat
  <2> DEFINE b == obj.base_log_idx
             c == obj.count
             f == obj.front
  <2>1. b \in Nat /\ c \in Nat /\ f \in Nat /\ f + c <= LogCapacity /\ LogCapacity \in Nat
        /\ i \in 1 .. c
    BY <1>0, <1>1
  <2> HIDE DEF b, c, f
  <2>2. /\ (b + i) - 1 - b = i - 1 /\ (b + i) - b - 1 = i - 1
        /\ i - 1 < c /\ i - 1 \in Nat /\ i - 1 <= c
        /\ (f + c) - (c - (i - 1)) = f + (i - 1) /\ c - (c - (i - 1)) = i - 1
        /\ f + (i - 1) <= LogCapacity /\ f + (i - 1) \in Nat
    BY <2>1
  <2>3. QED BY <1>0, <1>1, <2>2, Zenon DEF b, c, f
<1> HIDE DEF left
<1>3. log_delete(obj, idx) = [obj EXCEPT !.back = @ - n, !.count = @ - n]
  BY <1>2, Zenon DEF log_delete
<1> HIDE DEF n
<1>4. /\ obj' \in Logs /\ obj'.count = left /\ obj'.back = obj.front + left
      /\ obj'.front = obj.front /\ obj'.entries = obj.entries
  <2>1. obj \in Logs /\ obj' = log_delete(obj, idx)
    BY LogParts DEF LogDelete, Becomes
  <2>2. obj' = [obj EXCEPT !.back = obj.front + left, !.count = left]
    BY <1>2, <1>3, <2>1, Zenon DEF Logs
  <2>3. QED BY <1>2, <2>1, <2>2, Zenon DEF Logs
<1>5. abs' = SubSeq(abs, 1, left)
  BY <1>2 DEF LogDelete, Becomes
<1>6. abs' \in Seq(Nat) /\ Len(abs') = left /\ \A k \in 1 .. left : abs'[k] = abs[k]
  <2>1. abs \in Seq(Nat)
    BY LogParts
  <2>2. QED BY <1>2, <1>5, <2>1
<1>7. InLog(obj.front, obj.entries, abs')
  <2>1. \A k \in 1 .. left : k \in 1 .. Len(abs)
    BY <1>2, <1>0
  <2>2. QED BY <1>6, <2>1, LogParts, Zenon DEF InLog
<1>8. QED BY <1>2, <1>4, <1>6, <1>7 DEF LogInv

\* log_poll takes the oldest entry and moves the base index.
LEMMA LogPollKeeps ==
    ASSUME LogInv, obj.state = "ok", LogPoll
    PROVE  LogInv'
<1>0. /\ obj.size = LogCapacity /\ obj.count \in Nat /\ obj.front \in Nat /\ obj.back \in Nat
      /\ obj.base_log_idx \in Nat /\ Len(abs) \in Nat /\ LogCapacity \in Nat \ {0}
      /\ obj.count = Len(abs) /\ obj.back = obj.front + obj.count /\ obj.back <= LogCapacity
  BY LogNumbers
<1>1. CASE obj.count = 0
  <2>1. obj' = obj /\ abs' = abs
    BY <1>1, LogParts DEF LogPoll, log_poll, Becomes
  <2>2. QED BY <2>1 DEF LogInv
<1>2. CASE obj.count # 0
  <2>1. obj.front + 1 \in Nat /\ obj.count - 1 \in Nat /\ obj.base_log_idx + 1 \in Nat /\ abs # <<>>
    BY <1>2, <1>0
  <2>2. /\ obj' \in Logs /\ obj'.count = obj.count - 1 /\ obj'.back = obj.back
        /\ obj'.front = obj.front + 1 /\ obj'.entries = obj.entries
    BY <1>2, <2>1, LogParts, Zenon DEF LogPoll, log_poll, Becomes, Logs
  <2>3. abs' = Tail(abs)
    BY <2>1 DEF LogPoll, Becomes
  <2>4. /\ abs' \in Seq(Nat) /\ Len(abs') = Len(abs) - 1
        /\ \A i \in 1 .. Len(abs) - 1 : abs'[i] = abs[i + 1]
    BY <2>1, <2>3, LogParts
  <2>5. InLog(obj.front + 1, obj.entries, abs')
    <3>1. ASSUME NEW i \in 1 .. Len(abs) - 1 PROVE abs[i + 1] = obj.entries[(obj.front + 1) + i - 1]
      <4>1. i + 1 \in 1 .. Len(abs) /\ obj.front + (i + 1) - 1 = (obj.front + 1) + i - 1
        BY LogParts
      <4>2. QED BY <4>1, LogParts DEF InLog
    <3>2. QED BY <2>4, <3>1 DEF InLog
  <2>6. obj.back = (obj.front + 1) + (obj.count - 1)
    BY LogParts
  <2>7. QED BY <2>2, <2>4, <2>5, <2>6, LogParts DEF LogInv
<1>3. QED BY <1>1, <1>2

\* log_empty forgets the entries.
LEMMA LogEmptyKeeps ==
    ASSUME LogInv, obj.state = "ok", LogEmpty
    PROVE  LogInv'
<1>1. /\ obj' \in Logs /\ obj'.count = 0 /\ obj'.back = 0 /\ obj'.front = 0
      /\ obj'.entries = obj.entries
  BY LogParts, Zenon DEF LogEmpty, log_empty, Becomes, Logs
<1>2. abs' = <<>> /\ abs' \in Seq(Nat) /\ Len(abs') = 0
  BY DEF LogEmpty, Becomes
<1>3. QED BY <1>1, <1>2, LogAssumption DEF LogInv, InLog

\* log_new gives an empty log.
LEMMA LogStart == LogInit => LogInv
<1> SUFFICES ASSUME LogInit PROVE LogInv
  OBVIOUS
<1>1. obj = log_new /\ abs = <<>>
  BY DEF LogInit
<1>2. obj \in Logs /\ obj.count = 0 /\ obj.back = 0 /\ obj.front = 0
  BY <1>1, LogAssumption DEF log_new, Logs, NULL
<1>3. abs \in Seq(Nat) /\ Len(abs) = 0
  BY <1>1
<1>4. QED BY <1>2, <1>3, LogAssumption DEF LogInv, InLog

\* A number below M is its own remainder.
LEMMA Small ==
    ASSUME NEW M \in Nat \ {0}, NEW x \in 0 .. M - 1
    PROVE  x % M = x
<1> DEFINE q == x \div M
           r == x % M
<1>1. q \in Int /\ r \in 0 .. M - 1 /\ x = q * M + r
  OBVIOUS
<1> HIDE DEF q, r
<1>2. (q >= 1 => q * M >= M) /\ (q <= -1 => q * M <= -M) /\ (q = 0 => q * M = 0)
  BY <1>1
<1>3. r = x
  BY <1>1, <1>2
<1> QED
  BY <1>3 DEF r

\* LogIndexed holds in the states of the invariant.
LEMMA LogExact == LogInv => LogIndexed
<1> SUFFICES ASSUME LogInv, obj.state = "ok"
             PROVE  /\ obj.count = Len(abs)
                    /\ obj.back = obj.front + obj.count
                    /\ \A i \in DOMAIN abs : log_get_from_idx(obj, obj.base_log_idx + i) = abs[i]
                    /\ log_get_from_idx(obj, obj.base_log_idx + Len(abs) + 1) = NULL
                    /\ log_peektail(obj) = IF abs = <<>> THEN NULL ELSE abs[Len(abs)]
  BY DEF LogIndexed
<1>0. /\ obj.size = LogCapacity /\ obj.count \in Nat /\ obj.front \in Nat /\ obj.back \in Nat
      /\ obj.base_log_idx \in Nat /\ Len(abs) \in Nat /\ LogCapacity \in Nat \ {0}
      /\ obj.count = Len(abs) /\ obj.back = obj.front + obj.count /\ obj.back <= LogCapacity
  BY LogNumbers
<1>1. ASSUME NEW i \in 1 .. Len(abs) PROVE log_get_from_idx(obj, obj.base_log_idx + i) = abs[i]
  <2>1. /\ ~(obj.base_log_idx + obj.count < obj.base_log_idx + i)
        /\ ~(obj.base_log_idx + i < obj.base_log_idx)
        /\ obj.front + (obj.base_log_idx + i) - 1 - obj.base_log_idx = obj.front + i - 1
        /\ obj.front + i - 1 \in 0 .. LogCapacity - 1
    <3> DEFINE b == obj.base_log_idx
               c == obj.count
               f == obj.front
    <3>1. b \in Nat /\ c \in Nat /\ f \in Nat /\ f + c <= LogCapacity /\ LogCapacity \in Nat
          /\ i \in 1 .. c
      BY <1>0
    <3> HIDE DEF b, c, f
    <3>2. /\ ~(b + c < b + i) /\ ~(b + i < b) /\ f + (b + i) - 1 - b = f + i - 1
          /\ f + i - 1 \in 0 .. LogCapacity - 1
      BY <3>1
    <3>3. QED BY <3>2 DEF b, c, f
  <2>2. (obj.front + i - 1) % LogCapacity = obj.front + i - 1
    BY <2>1, Small, LogAssumption, Zenon
  <2>3. abs[i] = obj.entries[obj.front + i - 1]
    BY LogParts DEF InLog
  <2>4. QED BY <2>1, <2>2, <2>3, LogParts DEF log_get_from_idx
<1>2. log_get_from_idx(obj, obj.base_log_idx + Len(abs) + 1) = NULL
  <2>1. obj.base_log_idx + obj.count < obj.base_log_idx + Len(abs) + 1
    BY LogParts
  <2>2. QED BY <2>1 DEF log_get_from_idx
<1>3. log_peektail(obj) = IF abs = <<>> THEN NULL ELSE abs[Len(abs)]
  <2>1. CASE abs = <<>>
    BY <2>1, LogParts DEF log_peektail
  <2>2. CASE abs # <<>>
    <3>1. Len(abs) \in 1 .. Len(abs) /\ obj.count # 0 /\ obj.back # 0
          /\ obj.front + Len(abs) - 1 = obj.back - 1
      BY <2>2, LogParts
    <3>2. abs[Len(abs)] = obj.entries[obj.back - 1]
      BY <3>1, LogParts, Zenon DEF InLog
    <3>3. QED BY <2>2, <3>1, <3>2 DEF log_peektail
  <2>3. QED BY <2>1, <2>2
<1>4. DOMAIN abs = 1 .. Len(abs)
  BY LogParts
<1>5. QED BY <1>1, <1>2, <1>3, <1>4, LogParts

\* For every capacity and every sequence of calls that does not outgrow the
\* array: an entry of the log is found under the index it was appended with
\* until it is polled or deleted, whatever was polled before it and wherever the
\* array's front has moved.
THEOREM LogKeepsIndices == LogSpec => []LogIndexed
<1>1. LogInv /\ [LogNext]_subjectVars => LogInv'
  <2>1. ASSUME LogInv, LogNext PROVE LogInv'
    <3>1. obj.state = "ok"
      BY <2>1 DEF LogNext
    <3>2. ASSUME NEW idx \in 1 .. LogMaxBase + LogCapacity PROVE idx \in Nat
      BY LogAssumption
    <3>3. QED BY <2>1, <3>1, <3>2, LogAppendKeeps, LogDeleteKeeps, LogPollKeeps, LogEmptyKeeps
             DEF LogNext
  <2>2. ASSUME LogInv, UNCHANGED subjectVars PROVE LogInv'
    BY <2>2 DEF subjectVars, LogInv, InLog
  <2>3. QED BY <2>1, <2>2
<1>2. QED BY <1>1, LogStart, LogExact, PTL DEF LogSpec
=============================================================================
