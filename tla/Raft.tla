-------------------------------- MODULE Raft --------------------------------
(***************************************************************************)
(* The consensus library of PUTs/02CRaft-master: raft_server.c with the    *)
(* part of raft_log.c it uses.  A cluster of servers exchanges the four    *)
(* messages of the library over a network that reorders and loses (the     *)
(* network is the user's: "Networking is out of scope", README.rst); a     *)
(* user hands entries to any server and calls raft_periodic at any time.   *)
(*                                                                         *)
(* timeout_elapsed is not a variable: raft_periodic adds an arbitrary      *)
(* argument to it, so a call either lets the timeout expire or does not.   *)
(* The log is a sequence: the server never calls log_poll, so front and    *)
(* base_log_idx stay 0, and it stays below INITIAL_CAPACITY entries here   *)
(* (MaxLog), so __ensurecapacity does nothing; RaftLog models the array.   *)
(*                                                                         *)
(* raft_send_appendentries leaves leader_commit uninitialised.  The        *)
(* receiver gets what was on the sender's stack: a value of Garbage,       *)
(* picked when it is read.                                                 *)
(***************************************************************************)
EXTENDS Integers, Sequences, FiniteSets

CONSTANTS
    Nodes,        \* the configuration, the same on every server
    NoVote,       \* voted_for = -1
    EntryIds,     \* ids of the entries users submit; 0 is refused by the log
    Foreign,      \* appendentries messages with entries, built by the user
    Garbage,      \* what an uninitialised leader_commit may hold
    MaxLog,       \* bound: length of a log
    Budgets       \* bound: [elections, heartbeats, entries, foreign] counts of a behaviour

VARIABLES
    server,       \* node id -> raft_server_private_t
    msgs,         \* messages on the network
    budget,       \* what is left of the budget of this behaviour
    granted,      \* history: <<voter, candidate, term of the request>>
    applied,      \* history: ids given to the applylog callback, per server
    cut           \* history: servers whose log_delete reached an applied entry

vars == <<server, msgs, budget, granted, applied, cut>>

ASSUME NodesAssumption == IsFiniteSet(Nodes) /\ NoVote \notin Nodes

\* ids are unsigned, leader_commit is an int
ASSUME EntriesAssumption == EntryIds \subseteq Nat /\ Garbage \subseteq Int

NumNodes == Cardinality(Nodes)

Followers(s) == Nodes \ {s}

-----------------------------------------------------------------------------
(* Messages *)

Entries == [term : Nat, id : Nat, num_nodes : Nat]

Messages ==
    [type : {"requestvote"}, from : Nodes, to : Nodes, term : Nat, last_log_idx : Nat]
    \union [type : {"requestvote_response"}, from : Nodes, to : Nodes, term : Nat,
            vote_granted : BOOLEAN]
    \union [type : {"appendentries"}, from : Nodes, to : Nodes, term : Nat,
            prev_log_idx : Nat, prev_log_term : Nat, entries : Seq(Nat)]
    \union [type : {"appendentries_response"}, from : Nodes, to : Nodes,
            success : BOOLEAN, first_idx : Nat, current_idx : Nat]

ASSUME ForeignAssumption ==
    \A m \in Foreign : m \in Messages /\ m.type = "appendentries"

RequestVote(s, n, me) ==
    [type |-> "requestvote", from |-> s, to |-> n, term |-> me.current_term,
     last_log_idx |-> me.current_idx]

\* Mutation: every request for a vote is granted.
MutAnswersGranted(s, n, term, ok) ==
    [type |-> "requestvote_response", from |-> s, to |-> n, term |-> term,
     vote_granted |-> TRUE]

RequestVoteResponse(s, n, term, ok) ==
    [type |-> "requestvote_response", from |-> s, to |-> n, term |-> term,
     vote_granted |-> ok]

\* prev_log_term is given next_idx, and is read only if prev_log_idx is not 0
raft_send_appendentries(s, n, me) ==
    [type |-> "appendentries", from |-> s, to |-> n, term |-> me.current_term,
     prev_log_idx |-> 0, prev_log_term |-> 0, entries |-> <<>>]

AppendEntriesResponse(s, n, ok, first, current) ==
    [type |-> "appendentries_response", from |-> s, to |-> n, success |-> ok,
     first_idx |-> first, current_idx |-> current]

raft_send_appendentries_all(s, me) ==
    {raft_send_appendentries(s, n, me) : n \in Followers(s)}

-----------------------------------------------------------------------------
(* The server record and the steps the handlers are made of *)

Servers ==
    [state : {"follower", "candidate", "leader", "aborted"},
     current_term : Nat, voted_for : Nodes \union {NoVote},
     current_idx : Nat \ {0}, commit_idx : Nat, last_applied_idx : Nat,
     votes_for_me : SUBSET Nodes, next_idx : [Nodes -> Int],
     log : Seq(Entries)]

\* Mutation: current_idx starts at 0.
MutStartsAtZero ==
    [state |-> "follower", current_term |-> 0, voted_for |-> NoVote,
     current_idx |-> 0, commit_idx |-> 0, last_applied_idx |-> 0,
     votes_for_me |-> {}, next_idx |-> [n \in Nodes |-> 0], log |-> <<>>]

raft_new ==
    [state |-> "follower", current_term |-> 0, voted_for |-> NoVote,
     current_idx |-> 1, commit_idx |-> 0, last_applied_idx |-> 0,
     votes_for_me |-> {}, next_idx |-> [n \in Nodes |-> 0], log |-> <<>>]

raft_become_follower(me) == [me EXCEPT !.state = "follower", !.voted_for = NoVote]

raft_become_candidate(me, s) ==
    [me EXCEPT !.state = "candidate", !.current_term = @ + 1,
               !.voted_for = s, !.votes_for_me = {}]

raft_become_leader(me, s) ==
    [me EXCEPT !.state = "leader", !.voted_for = NoVote,
               !.next_idx = [n \in Nodes |-> IF n = s THEN @[n]
                                             ELSE me.current_idx + 1]]

raft_get_nvotes_for_me(me, s) ==
    Cardinality(me.votes_for_me \ {s}) + IF me.voted_for = s THEN 1 ELSE 0

raft_votes_is_majority(nvotes) ==
    nvotes <= NumNodes /\ NumNodes \div 2 + 1 <= nvotes

\* log_append_entry refuses id 0; current_idx counts every entry appended
raft_append_entry(me, term, id) ==
    IF id = 0 THEN me
    ELSE [me EXCEPT !.log = Append(@, [term |-> term, id |-> id, num_nodes |-> 0]),
                    !.current_idx = @ + 1]

\* k successive calls of raft_apply_entry that find an entry
raft_apply_entry(me, k) ==
    [me EXCEPT !.last_applied_idx = @ + k,
               !.commit_idx = IF @ < me.last_applied_idx + k
                              THEN me.last_applied_idx + k ELSE @]

Unapplied(me) == Len(me.log) - me.last_applied_idx

\* Mutation: the entry applied is the one before.
MutAppliesFromZero(me, k) ==
    [i \in 1 .. k |-> me.log[IF me.last_applied_idx = 0 THEN i ELSE me.last_applied_idx + i - 1].id]

\* the ids handed to applylog when k entries are applied
AppliedIds(me, k) == [i \in 1 .. k |-> me.log[me.last_applied_idx + i].id]

\* log_delete: the entries from idx onwards; current_idx is not adjusted
delete_from(me, idx) == [me EXCEPT !.log = SubSeq(@, 1, idx - 1)]

log_mark_node_has_committed(log, first, last) ==
    [i \in DOMAIN log |-> IF i \in first .. last
                          THEN [log[i] EXCEPT !.num_nodes = @ + 1] ELSE log[i]]

-----------------------------------------------------------------------------
(* Handlers.  A server that failed an assertion is "aborted" and is gone. *)

Alive(s) == server[s].state # "aborted"

Apply(s, me, k) == applied' = [applied EXCEPT ![s] = @ \o AppliedIds(me, k)]

\* raft_periodic when the caller's time does not let a timeout expire
raft_periodic(s) ==
    LET me == server[s] IN
    /\ Alive(s)
    /\ me.state = "follower" /\ me.last_applied_idx < me.commit_idx
    /\ Unapplied(me) > 0
    /\ server' = [server EXCEPT ![s] = raft_apply_entry(me, 1)]
    /\ Apply(s, me, 1)
    /\ UNCHANGED <<msgs, budget, granted, cut>>

\* raft_periodic and the timeout expires: a leader sends appendentries, the
\* others start an election -- unless a follower has an unapplied commit it
\* has no entry for, and returns before it counts the time
raft_periodic_expired(s) ==
    LET me == server[s]
        lag == me.state = "follower" /\ me.last_applied_idx < me.commit_idx
        k == IF lag THEN 1 ELSE 0
        up == raft_apply_entry(me, k)
    IN
    /\ Alive(s)
    /\ lag => Unapplied(me) > 0
    /\ Apply(s, me, k)
    /\ \/ /\ me.state = "leader"
          /\ budget.heartbeats > 0
          /\ budget' = [budget EXCEPT !.heartbeats = @ - 1]
          /\ msgs' = msgs \union raft_send_appendentries_all(s, me)
          /\ UNCHANGED server
       \/ LET c == raft_become_candidate(up, s) IN
          /\ me.state # "leader"
          /\ budget.elections > 0
          /\ budget' = [budget EXCEPT !.elections = @ - 1]
          /\ server' = [server EXCEPT ![s] = c]
          /\ msgs' = msgs \union {RequestVote(s, n, c) : n \in Followers(s)}
    /\ UNCHANGED <<granted, cut>>

raft_recv_requestvote(m) ==
    LET s == m.to
        me == server[s]
        v == IF me.current_term < m.term THEN [me EXCEPT !.voted_for = NoVote] ELSE me
        refuse == \/ m.term < me.current_term
                  \/ v.voted_for # NoVote
                  \/ m.last_log_idx < me.current_idx
    IN
    /\ m.type = "requestvote" /\ Alive(s)
    /\ server' = [server EXCEPT ![s] =
                     IF refuse THEN v ELSE [v EXCEPT !.voted_for = m.from]]
    /\ msgs' = (msgs \ {m}) \union
               {RequestVoteResponse(s, m.from, me.current_term, ~refuse)}
    /\ granted' = IF refuse THEN granted ELSE granted \union {<<s, m.from, m.term>>}
    /\ UNCHANGED <<budget, applied, cut>>

raft_recv_requestvote_response(m) ==
    LET s == m.to
        me == server[s]
        v == [me EXCEPT !.votes_for_me = @ \union {m.from}]
        won == raft_votes_is_majority(raft_get_nvotes_for_me(v, s))
        l == raft_become_leader(v, s)
    IN
    /\ m.type = "requestvote_response" /\ Alive(s)
    /\ IF me.state = "leader" \/ ~m.vote_granted
       THEN server' = server /\ msgs' = msgs \ {m}
       ELSE /\ server' = [server EXCEPT ![s] = IF won THEN l ELSE v]
            /\ msgs' = (msgs \ {m}) \union
                       IF won THEN raft_send_appendentries_all(s, l) ELSE {}
    /\ UNCHANGED <<budget, granted, applied, cut>>

\* Entries are appended one by one, with the receiver's term, until the log
\* refuses one
Accepted(ids) ==
    CHOOSE n \in 0 .. Len(ids) :
        /\ \A i \in 1 .. n : ids[i] # 0
        /\ n < Len(ids) => ids[n + 1] = 0

AppendAll(me, ids) ==
    LET n == Accepted(ids) IN
    [me EXCEPT !.log = @ \o [i \in 1 .. n |->
                               [term |-> me.current_term, id |-> ids[i], num_nodes |-> 0]],
               !.current_idx = @ + n]

\* Mutation: an old term is not refused.
MutTermNotChecked(me, m) == FALSE

TermIsOld(me, m) == m.term < me.current_term

raft_recv_appendentries(m, leader_commit) ==
    LET s == m.to
        old == server[s]
        me == IF old.state = "leader" /\ old.current_term <= m.term
              THEN raft_become_follower(old) ELSE old
        p == m.prev_log_idx
        stale == TermIsOld(me, m)
        nomatch == p # 0 /\ (p > Len(me.log) \/ me.log[p].term # m.prev_log_term)
        d == IF p # 0 /\ p + 1 <= Len(me.log) THEN delete_from(me, p + 1) ELSE me
        tail == d.log[Len(d.log)].id
        moves == d.commit_idx < leader_commit /\ d.log # <<>>
        k == IF moves /\ Unapplied(d) > 0 THEN Unapplied(d) ELSE 0
        a == IF moves
             THEN raft_apply_entry([d EXCEPT !.commit_idx =
                    IF tail < leader_commit THEN tail ELSE leader_commit], k)
             ELSE d
        f == IF a.state = "candidate" THEN raft_become_follower(a) ELSE a
        e == AppendAll([f EXCEPT !.current_term = m.term], m.entries)
        ok == Len(e.log) = Len(f.log) + Len(m.entries)
        fails == stale \/ nomatch
    IN
    /\ m.type = "appendentries" /\ Alive(s)
    /\ Len(old.log) + Len(m.entries) <= MaxLog
    /\ msgs' = (msgs \ {m}) \union
               {IF fails \/ ~ok THEN AppendEntriesResponse(s, m.from, FALSE, 0, 0)
                ELSE AppendEntriesResponse(s, m.from, TRUE, p + 1, e.current_idx)}
    /\ IF fails
       THEN /\ server' = [server EXCEPT ![s] = me]
            /\ UNCHANGED <<applied, cut>>
       ELSE /\ server' = [server EXCEPT ![s] = e]
            /\ Apply(s, d, k)
            /\ cut' = IF Len(d.log) < me.last_applied_idx THEN cut \union {s} ELSE cut
    /\ UNCHANGED <<budget, granted>>

\* The entries an acknowledgement lets the server apply: a run of entries,
\* each marked by half of the nodes
Acknowledged(me) ==
    CHOOSE k \in 0 .. Len(me.log) :
        LET Marked(i) == NumNodes \div 2 <= me.log[me.last_applied_idx + i].num_nodes
        IN  /\ k = 0 \/ k <= Unapplied(me)
            /\ \A i \in 1 .. k : Marked(i)
            /\ (k < Unapplied(me)) => ~Marked(k + 1)

raft_recv_appendentries_response(m) ==
    LET s == m.to
        me == server[s]
        marked == [me EXCEPT !.log = log_mark_node_has_committed(@, m.first_idx, m.current_idx)]
        k == Acknowledged(marked)
        back == [me EXCEPT !.next_idx[m.from] = @ - 1]
    IN
    /\ m.type = "appendentries_response" /\ Alive(s)
    /\ \/ /\ m.success
          /\ server' = [server EXCEPT ![s] = raft_apply_entry(marked, k)]
          /\ msgs' = msgs \ {m}
          /\ Apply(s, marked, k)
       \/ /\ ~m.success /\ me.next_idx[m.from] < 0
          /\ server' = [server EXCEPT ![s].state = "aborted"]
          /\ msgs' = msgs \ {m}
          /\ UNCHANGED applied
       \/ /\ ~m.success /\ me.next_idx[m.from] >= 0
          /\ server' = [server EXCEPT ![s] = back]
          /\ msgs' = (msgs \ {m}) \union {raft_send_appendentries(s, m.from, back)}
          /\ UNCHANGED applied
    /\ UNCHANGED <<budget, granted, cut>>

\* A user submits an entry to a server, whatever its state.  The answer to
\* the user is read by no handler of the library and is left out.
raft_recv_entry(s, id) ==
    LET e == raft_append_entry(server[s], server[s].current_term, id) IN
    /\ Alive(s) /\ budget.entries > 0 /\ Len(server[s].log) < MaxLog
    /\ budget' = [budget EXCEPT !.entries = @ - 1]
    /\ server' = [server EXCEPT ![s] = e]
    /\ msgs' = msgs \union raft_send_appendentries_all(s, e)
    /\ UNCHANGED <<granted, applied, cut>>

\* A message with entries, which no server of the library sends
UserAppendEntries(m) ==
    /\ budget.foreign > 0
    /\ budget' = [budget EXCEPT !.foreign = @ - 1]
    /\ msgs' = msgs \union {m}
    /\ UNCHANGED <<server, granted, applied, cut>>

-----------------------------------------------------------------------------
Init ==
    /\ server = [s \in Nodes |-> raft_new]
    /\ msgs = {}
    /\ budget \in Budgets
    /\ granted = {}
    /\ applied = [s \in Nodes |-> <<>>]
    /\ cut = {}

Next ==
    \/ \E s \in Nodes : raft_periodic(s)
    \/ \E s \in Nodes : raft_periodic_expired(s)
    \/ \E s \in Nodes, id \in EntryIds : raft_recv_entry(s, id)
    \/ \E m \in Foreign : UserAppendEntries(m)
    \/ \E m \in msgs : raft_recv_requestvote(m)
    \/ \E m \in msgs : raft_recv_requestvote_response(m)
    \/ \E m \in msgs, c \in Garbage : raft_recv_appendentries(m, c)
    \/ \E m \in msgs : raft_recv_appendentries_response(m)

Spec == Init /\ [][Next]_vars

-----------------------------------------------------------------------------
(* Properties *)

TypeOK ==
    /\ server \in [Nodes -> Servers]
    /\ msgs \subseteq Messages
    /\ granted \subseteq Nodes \X Nodes \X Nat
    /\ applied \in [Nodes -> Seq(Nat)]
    /\ cut \subseteq Nodes

\* The servers that, in some election, voted for s
Voters(s) == {n \in Nodes : n = s \/ \E t \in 1 .. server[s].current_term : <<n, s, t>> \in granted}

\* A server leads only after a majority of the cluster, itself included, voted
\* for it in elections it had started by then: raft_become_leader is reached
\* through counted votes only, and no reply is counted that its sender did
\* not mean as a vote for this server.
LeaderWasElected ==
    \A s \in Nodes : server[s].state = "leader" =>
        Cardinality(Voters(s)) * 2 > NumNodes

\* What the state machine received is what the log holds: the ids given to
\* applylog, in order, are those of the log up to last_applied_idx, unless an
\* appendentries made log_delete reach below it.
AppliedIsLogPrefix ==
    \A s \in Nodes \ cut :
        /\ server[s].last_applied_idx <= Len(server[s].log)
        /\ applied[s] = [i \in 1 .. server[s].last_applied_idx |-> server[s].log[i].id]

\* current_term and last_applied_idx never go back, what was applied stays
\* applied, and an entry is applied only up to the commit index.  The commit
\* index itself goes back only if the log holds an id below it: on an
\* appendentries it becomes the id, not the index, of the last entry.
NeverBack ==
    [][\A s \in Nodes :
          /\ server'[s].current_term >= server[s].current_term
          /\ server'[s].last_applied_idx >= server[s].last_applied_idx
          /\ SubSeq(applied'[s], 1, Len(applied[s])) = applied[s]
          /\ server'[s].last_applied_idx > server[s].last_applied_idx =>
                server'[s].last_applied_idx <= server'[s].commit_idx
          /\ server'[s].commit_idx < server[s].commit_idx =>
                \E i \in DOMAIN server[s].log : server[s].log[i].id < server[s].commit_idx]_vars

\* An entry is applied when, as the comment on the test says, "majority has
\* this": an entry a leader has applied is in the logs of a majority.
AppliedOnMajority ==
    \A s \in Nodes : server[s].state = "leader" =>
        \A i \in 1 .. server[s].last_applied_idx :
            i <= Len(server[s].log) =>
                Cardinality({n \in Nodes : /\ i <= Len(server[n].log)
                                           /\ server[n].log[i].id = server[s].log[i].id})
                    * 2 > NumNodes
=============================================================================
