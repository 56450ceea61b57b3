---------------------------- MODULE PwpMsghandler ----------------------------
(***************************************************************************)
(* PUTs/01pwp, pwp_msghandler.c: reads peer wire messages out of buffers   *)
(* that end anywhere.  The streams are what the senders of                 *)
(* pwp_connection.c and pwp_bitfield.c write; integers are four bytes,     *)
(* most significant first, after fe().  A step is one call of              *)
(* me->process_item by pwp_msghandler_dispatch_from_buffer.                *)
(* Handlers a caller adds with pwp_msghandler_new2 are left out.           *)
(***************************************************************************)
EXTENDS Subject, Integers, Sequences, FiniteSets, SequencesExt

CONSTANTS
    MsgNumPieces,   \* me->num_pieces, length of a bitfield
    MsgStreams      \* sequences of messages the other end sends

U32(n) == [i \in 1 .. 4 |-> (n \div 256 ^ (4 - i)) % 256]

FromU32(s) == FoldLeft(LAMBDA n, byte : 256 * n + byte, 0, s)

\* Handlers by message type; 0 .. 3 have no payload
Types == <<"CHOKE", "UNCHOKE", "INTERESTED", "UNINTERESTED", "HAVE", "BITFIELD", "REQUEST",
           "PIECE", "CANCEL">>

TypeOf(t) == (CHOOSE i \in DOMAIN Types : Types[i] = t) - 1

\* Byte k of the bitfield: piece 8k in its highest bit
BitfieldByte(pieces, k) ==
    FoldLeft(LAMBDA n, i : n + (IF i \in pieces THEN 2 ^ (7 - (i % 8)) ELSE 0), 0,
             [j \in 1 .. 8 |-> 8 * k + j - 1])

pwp_send_bitfield_bytes(pieces) ==
    LET n == MsgNumPieces \div 8 + (IF MsgNumPieces % 8 = 0 THEN 0 ELSE 1)
    IN  U32(1 + n) \o <<TypeOf("BITFIELD")>> \o [k \in 1 .. n |-> BitfieldByte(pieces, k - 1)]

\* The bytes of a message: pwp_conn_send_statechange, pwp_conn_send_have,
\* pwp_conn_send_request and pwp_conn_send_cancel, pwp_conn_send_piece
Sent(msg) ==
    IF msg.type = "KEEPALIVE" THEN U32(0)
    ELSE IF msg.type = "BITFIELD" THEN pwp_send_bitfield_bytes(msg.pieces)
    ELSE LET body == <<TypeOf(msg.type)>> \o FlattenSeq([i \in DOMAIN msg.args |-> U32(msg.args[i])])
                        \o msg.data
         IN  U32(Len(body)) \o body

-----------------------------------------------------------------------------
\* What the connection is told, byte by byte for the data of a piece
Told(type, args, data) ==
    IF type = TypeOf("PIECE")
    THEN [i \in DOMAIN data |-> <<type, args[1], args[2] + i - 1, data[i]>>]
    ELSE <<<<type>> \o args>>

ToldBits(pieces) == <<<<TypeOf("BITFIELD")>> \o SetToSortSeq(pieces, <)>>

Expected(msg) ==
    IF msg.type = "KEEPALIVE" THEN <<>>
    ELSE IF msg.type = "BITFIELD" THEN ToldBits(msg.pieces)
    ELSE Told(TypeOf(msg.type), msg.args, msg.data)

\* msg_t: tok holds the bytes of the integer being read, args the integers read
NewMsg == [len |-> 0, id |-> 0, bytes_read |-> 0, tok |-> <<>>, args |-> <<>>, bf |-> {}]

MsgInit ==
    /\ subject = "msghandler"
    /\ \E s \in MsgStreams :
          /\ obj = [coming |-> FlattenSeq([i \in DOMAIN s |-> Sent(s[i])]), buf |-> <<>>,
                    process_item |-> "length", msg |-> NewMsg, told |-> <<>>]
          /\ abs = FlattenSeq([i \in DOMAIN s |-> Expected(s[i])])

Min2(a, b) == IF a < b THEN a ELSE b

Drop(s, n) == SubSeq(s, n + 1, Len(s))

\* Bytes of the buffer go into tok until it holds an integer
mh_uint32(o) ==
    LET n == Min2(4 - Len(o.msg.tok), Len(o.buf))
    IN  [o EXCEPT !.msg.tok = @ \o SubSeq(o.buf, 1, n), !.msg.bytes_read = @ + n,
                  !.buf = Drop(@, n)]

\* Mutation: the count of bytes is not reset.
MutKeepsCount(o) ==
    [o EXCEPT !.process_item = "length", !.msg = [NewMsg EXCEPT !.bytes_read = o.msg.bytes_read]]

mh_endmsg(o) == [o EXCEPT !.process_item = "length", !.msg = NewMsg]

Tell(o, events) == [o EXCEPT !.told = @ \o events]

\* The field an item reads is followed by another, or the message is complete
Following == [request_pieceidx |-> "request_offset", request_offset |-> "request_len",
              cancel_pieceidx |-> "cancel_offset", cancel_offset |-> "cancel_len",
              piece_pieceidx |-> "piece_offset", piece_offset |-> "piece_data"]
Final == {"request_len", "cancel_len", "have"}

ReadField(o) ==
    LET r == mh_uint32(o)
        args == Append(r.msg.args, FromU32(r.msg.tok))
    IN  IF Len(r.msg.tok) < 4 THEN r
        ELSE IF o.process_item \in Final THEN mh_endmsg(Tell(r, Told(r.msg.id, args, <<>>)))
        ELSE [r EXCEPT !.process_item = Following[o.process_item],
                       !.msg.args = args, !.msg.tok = <<>>]

__pwp_length(o) ==
    LET r == mh_uint32(o)
        len == FromU32(r.msg.tok)
    IN  IF Len(r.msg.tok) < 4 THEN r
        ELSE IF len = 0 THEN mh_endmsg(r)
        ELSE [r EXCEPT !.process_item = "type", !.msg.len = len, !.msg.tok = <<>>]

Handlers == [i \in 4 .. 8 |->
    <<"have", "bitfield", "request_pieceidx", "piece_pieceidx", "cancel_pieceidx">>[i - 3]]

__pwp_type(o) ==
    LET r == [o EXCEPT !.msg.id = Head(o.buf), !.msg.bytes_read = @ + 1, !.buf = Tail(@)]
    IN  IF o.msg.len = 1 THEN mh_endmsg(Tell(r, Told(r.msg.id, <<>>, <<>>)))
        ELSE [r EXCEPT !.process_item = Handlers[r.msg.id]]

PieceSize(o) == Min2(Len(o.buf), o.msg.len - 9)

\* Whatever part of the data is there is handed over as a block of its own
__pwp_piece_data(o) ==
    LET size == PieceSize(o)
        r == [Tell(o, Told(TypeOf("PIECE"), o.msg.args, SubSeq(o.buf, 1, size))) EXCEPT
                 !.msg.len = @ - size, !.msg.args[2] = @ + size, !.buf = Drop(@, size)]
    IN  IF r.msg.len = 9 THEN mh_endmsg(r) ELSE r

\* One byte of the bitfield; the connection reads the bits below num_pieces
__pwp_bitfield(o) ==
    LET val == Head(o.buf)
        at  == 8 * (o.msg.bytes_read - 5)
        r == [o EXCEPT !.msg.bytes_read = @ + 1, !.buf = Tail(@),
                       !.msg.bf = @ \union {at + i : i \in {j \in 0 .. 7 : (val \div 2 ^ (7 - j)) % 2 = 1}}]
    IN  IF 4 + r.msg.len = r.msg.bytes_read
        THEN mh_endmsg(Tell(r, ToldBits(r.msg.bf \intersect 0 .. MsgNumPieces - 1)))
        ELSE r

-----------------------------------------------------------------------------
Still(o) == Becomes(o, abs)

\* The socket delivers the next n bytes; the buffer before is used up
Receive(n) ==
    /\ obj.buf = <<>>
    /\ Still([obj EXCEPT !.buf = SubSeq(obj.coming, 1, n), !.coming = Drop(@, n)])

ProcessItem ==
    /\ obj.buf # <<>>
    /\ \/ obj.process_item = "length" /\ Still(__pwp_length(obj))
       \/ obj.process_item = "type" /\ Still(__pwp_type(obj))
       \/ obj.process_item = "bitfield" /\ Still(__pwp_bitfield(obj))
       \/ obj.process_item = "piece_data" /\ Still(__pwp_piece_data(obj))
       \/ obj.process_item \in DOMAIN Following \union Final /\ Still(ReadField(obj))

MsgNext ==
    /\ subject = "msghandler"
    /\ \/ \E n \in DOMAIN obj.coming : Receive(n)
       \/ ProcessItem

\* However the stream is cut into buffers, the connection is told what the
\* other end sent, in order and byte for byte, with pieces split only where a
\* buffer ended, and everything once the stream is read.
MessagesExact ==
    subject = "msghandler" =>
        /\ IsPrefix(obj.told, abs)
        /\ obj.coming = <<>> /\ obj.buf = <<>> => obj.told = abs

\* Between messages nothing of the last one is left, so the assertions on
\* bytes_read in __pwp_length and __pwp_type hold.
MessageBoundaries ==
    subject = "msghandler" =>
        /\ obj.process_item = "length" =>
              obj.msg.bytes_read < 4 /\ obj.msg.bytes_read = Len(obj.msg.tok)
        /\ obj.process_item = "type" => obj.msg.bytes_read = 4
=============================================================================
