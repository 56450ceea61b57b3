------------------------------- MODULE RaftLog -------------------------------
(***************************************************************************)
(* PUTs/02CRaft-master/raft_log.c: the array under a raft server's log.    *)
(* Entries are appended at back, and removed from the front by log_poll    *)
(* (log compaction) and from the tail by log_delete.  No call wraps back,  *)
(* so a behaviour ends ("overrun") when an entry would be written behind   *)
(* the array, and ("freed") when __ensurecapacity has grown the array,     *)
(* since it frees the new array and not the old one.                       *)
(***************************************************************************)
EXTENDS Subject, Integers, Sequences

CONSTANTS
    LogCapacity,  \* INITIAL_CAPACITY
    LogIds,       \* ids of entries
    LogMaxBase    \* bound: entries polled in a behaviour

ASSUME LogAssumption ==
    LogCapacity \in Nat \ {0} /\ LogIds \subseteq Nat /\ LogMaxBase \in Nat

log_new ==
    [size |-> LogCapacity, count |-> 0, front |-> 0, back |-> 0, base_log_idx |-> 0,
     entries |-> [i \in 0 .. LogCapacity - 1 |-> NULL], state |-> "ok"]

\* a full array is copied to one twice the size, front first
log_ensurecapacity(me) ==
    IF me.count < me.size THEN me
    ELSE [me EXCEPT !.entries = [i \in 0 .. 2 * me.size - 1 |->
                                    IF i < me.count THEN @[(me.front + i) % me.size] ELSE NULL],
                    !.size = 2 * @, !.front = 0, !.back = me.count, !.state = "freed"]

log_append_entry(me, id) ==
    LET e == log_ensurecapacity(me) IN
    IF id = 0 THEN me
    ELSE IF e.back = e.size THEN [e EXCEPT !.state = "overrun"]
    ELSE [e EXCEPT !.entries[e.back] = id, !.count = @ + 1, !.back = @ + 1]

\* idx = base_log_idx passes the test and addresses the slot before front
log_get_from_idx(me, idx) ==
    IF me.base_log_idx + me.count < idx \/ idx < me.base_log_idx THEN NULL
    ELSE me.entries[(me.front + idx - 1 - me.base_log_idx) % me.size]

\* one slot is given up for every index from idx to the count
log_delete(me, idx) ==
    LET from == idx - 1 - me.base_log_idx
        n == IF from < me.count THEN me.count - from ELSE 0
    IN  [me EXCEPT !.back = @ - n, !.count = @ - n]

log_poll(me) ==
    IF me.count = 0 THEN me
    ELSE [me EXCEPT !.front = @ + 1, !.count = @ - 1, !.base_log_idx = @ + 1]

log_peektail(me) ==
    IF me.count = 0 THEN NULL
    ELSE me.entries[IF me.back = 0 THEN me.size - 1 ELSE me.back - 1]

\* log_empty keeps base_log_idx
log_empty(me) == [me EXCEPT !.front = 0, !.back = 0, !.count = 0]

-----------------------------------------------------------------------------
LogInit == subject = "raft_log" /\ obj = log_new /\ abs = <<>>

LogAppend(id) ==
    LET new == log_append_entry(obj, id) IN
    Becomes(new, IF new.count > obj.count THEN Append(abs, id) ELSE abs)

\* callers delete from an index of the log
LogDelete(idx) ==
    /\ idx \in obj.base_log_idx + 1 .. obj.base_log_idx + obj.count
    /\ Becomes(log_delete(obj, idx), SubSeq(abs, 1, idx - obj.base_log_idx - 1))

LogPoll ==
    /\ obj.base_log_idx < LogMaxBase
    /\ Becomes(log_poll(obj), IF abs = <<>> THEN abs ELSE Tail(abs))

LogEmpty == Becomes(log_empty(obj), <<>>)

LogNext ==
    /\ subject = "raft_log"
    /\ obj.state = "ok"
    /\ \/ \E id \in LogIds : LogAppend(id)
       \/ \E idx \in 1 .. LogMaxBase + LogCapacity : LogDelete(idx)
       \/ LogPoll
       \/ LogEmpty

\* Until the array is outgrown, entry i of the log is the i-th entry appended
\* and still there, counted from the entries polled away, and the tail is the
\* youngest: polling, deleting and emptying keep front, back, count and
\* base_log_idx consistent.
LogIndexed ==
    subject = "raft_log" /\ obj.state = "ok" =>
        /\ obj.count = Len(abs)
        /\ obj.back = obj.front + obj.count
        /\ \A i \in DOMAIN abs : log_get_from_idx(obj, obj.base_log_idx + i) = abs[i]
        /\ log_get_from_idx(obj, obj.base_log_idx + Len(abs) + 1) = NULL
        /\ log_peektail(obj) = IF abs = <<>> THEN NULL ELSE abs[Len(abs)]
=============================================================================
