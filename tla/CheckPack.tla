------------------------------ MODULE CheckPack ------------------------------
(***************************************************************************)
(* libcheck/src/check_pack.c: the messages of a test lie one behind the    *)
(* other in a file, and punpack reads them through a buffer of             *)
(* CK_MAX_MSG_SIZE bytes that it refills after each message.  A byte is    *)
(* known by its message, its place and the message's length.               *)
(***************************************************************************)
EXTENDS Subject, Integers, Sequences

CONSTANTS
    CK_MAX_MSG_SIZE,   \* size of the buffer
    PackMessages       \* bound on the messages in the file

ASSUME PackAssumption == CK_MAX_MSG_SIZE \in Nat /\ PackMessages \in Nat

Smallest(a, b) == IF a < b THEN a ELSE b

\* ppack refuses a message longer than half of the buffer.
ppack(i, n) == [j \in 1..n |-> [msg |-> i, at |-> j, n |-> n]]

MessageLengths == 1..(CK_MAX_MSG_SIZE \div 2)

\* The file after each message; PackedFile is the last.
Packing(lens) ==
    LET file[i \in 0..Len(lens)] == IF i = 0 THEN <<>> ELSE file[i - 1] \o ppack(i, lens[i])
    IN file

PackedFile(lens) == Packing(lens)[Len(lens)]

\* obj.file: what is not yet read; obj.buf[1..nparse]: what is not yet parsed;
\* obj.nread: what the last read_buf gave.  abs: the lengths of the messages sent
\* and the messages that were found.
PackStart(lens) ==
    LET file == PackedFile(lens)
        n0   == Smallest(CK_MAX_MSG_SIZE, Len(file))
    IN /\ subject = "pack"
       /\ obj = [buf |-> SubSeq(file, 1, n0), file |-> SubSeq(file, n0 + 1, Len(file)), nread |-> n0]
       /\ abs = [lens |-> lens, found |-> <<>>]

PackInit ==
    \E k \in 0..PackMessages, n \in MessageLengths : \E lens \in [1..k -> {1, n}] : PackStart(lens)

\* upack takes the length from the head of the message; what lies behind the bytes
\* read is not a byte of it.
upack(buf) ==
    LET n == buf[1].n
    IN [n |-> n, whole |-> n <= Len(buf) /\ SubSeq(buf, 1, n) = ppack(buf[1].msg, n)]

\* Mutation: the buffer is only refilled when it is empty.
MutRefillWhenEmpty ==
    /\ obj.buf # <<>>
    /\ LET m    == upack(obj.buf)
           rest == SubSeq(obj.buf, m.n + 1, Len(obj.buf))
           more == IF rest = <<>> THEN Smallest(CK_MAX_MSG_SIZE, Len(obj.file)) ELSE 0
       IN Becomes([buf |-> rest \o SubSeq(obj.file, 1, more), nread |-> more,
                   file |-> SubSeq(obj.file, more + 1, Len(obj.file))],
                  [abs EXCEPT !.found = Append(@, [msg |-> obj.buf[1].msg, whole |-> m.whole])])

PackParse ==
    /\ obj.buf # <<>>
    /\ LET m    == upack(obj.buf)
           rest == SubSeq(obj.buf, m.n + 1, Len(obj.buf))
           more == IF obj.nread > 0 THEN Smallest(m.n, Len(obj.file)) ELSE 0
       IN Becomes([buf |-> rest \o SubSeq(obj.file, 1, more),
                   nread |-> IF obj.nread > 0 THEN more ELSE 0,
                   file |-> SubSeq(obj.file, more + 1, Len(obj.file))],
                  [abs EXCEPT !.found = Append(@, [msg |-> obj.buf[1].msg, whole |-> m.whole])])

PackNext == subject = "pack" /\ PackParse

-----------------------------------------------------------------------------
\* punpack finds each message whole, in the order in which they were sent, and
\* stops when it has found all, wherever the ends of the buffer fall.
PackRoundTrip ==
    subject = "pack" =>
        /\ \A i \in DOMAIN abs.found : abs.found[i] = [msg |-> i, whole |-> TRUE]
        /\ obj.buf = <<>> => Len(abs.found) = Len(abs.lens)
=============================================================================
