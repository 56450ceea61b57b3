---------------------------- MODULE PwpHandshaker ----------------------------
(***************************************************************************)
(* PUTs/01pwp, pwp_handshaker.c: reads the handshake that opens a          *)
(* connection, byte by byte, out of buffers that end anywhere.  The        *)
(* streams are what pwp_send_handshake writes for the other peer's         *)
(* protocol name and info hash, then the first bytes of its messages.      *)
(***************************************************************************)
EXTENDS Subject, Integers, Sequences, SequencesExt

CONSTANTS
    HsNames,        \* protocol names other peers use
    PROTOCOL_NAME,
    HsHashes,       \* info hashes other peers use, 20 bytes, some may be 0
    expected_ih,
    HsTrailing      \* what follows a handshake

PeerId == [i \in 1 .. 20 |-> i]

Before0(s) == {i \in DOMAIN s : \A j \in 1 .. i : s[j] # 0}

\* strncpy: nothing after a zero byte is copied
bitstream_write_string(s) == [i \in DOMAIN s |-> IF i \in Before0(s) THEN s[i] ELSE 0]

pwp_send_handshake(name, ih) ==
    <<Len(name)>> \o name \o [i \in 1 .. 8 |-> 0]
        \o bitstream_write_string(ih) \o bitstream_write_string(PeerId)

\* strncmp(s, t, n) = 0: nothing after a zero byte is compared
strncmp0(s, t, n) ==
    \A i \in 1 .. n : s[i] = t[i] \/ \E j \in 1 .. i - 1 : s[j] = 0 /\ t[j] = 0

\* curr_value is the field being read, value its bytes so far
HsInit ==
    /\ subject = "handshaker"
    /\ \E name \in HsNames, ih \in HsHashes :
          /\ obj = [coming |-> pwp_send_handshake(name, ih) \o HsTrailing, buf |-> <<>>,
                    curr_value |-> "NULL", value |-> <<>>, pn_len |-> 0,
                    bytes_read |-> 0, ret |-> "more"]
          /\ abs = [name |-> name, ih |-> ih]

HsReceive(n) ==
    /\ obj.buf = <<>>
    /\ Becomes([obj EXCEPT !.buf = SubSeq(obj.coming, 1, n),
                           !.coming = SubSeq(@, n + 1, Len(@))], abs)

\* The name is compared over the shorter of the two lengths
NameAccepted(pn, n) ==
    strncmp0(pn, PROTOCOL_NAME, IF n < Len(PROTOCOL_NAME) THEN n ELSE Len(PROTOCOL_NAME))

HashAccepted(ih) == strncmp0(ih, expected_ih, 20)

\* The field read is complete: go on with field, or answer ret
Field(o, field) == [o EXCEPT !.curr_value = field, !.value = <<>>]
Answer(o, ret) == [o EXCEPT !.ret = ret]

PeerIdRead(o) == Len(o.value) = 20

\* One turn of the loop of pwp_handshaker_dispatch_from_buffer
ReadByte(o) ==
    LET r == [o EXCEPT !.value = Append(@, Head(o.buf)), !.buf = Tail(@),
                       !.bytes_read = @ + 1]
    IN  CASE o.curr_value = "NULL" ->
                LET n == Head(o.buf)
                IN  IF n = 0 THEN Answer(r, "error")
                    ELSE Field([r EXCEPT !.pn_len = n], "pn")
          [] o.curr_value = "pn" ->
                IF Len(r.value) # o.pn_len THEN r
                ELSE IF NameAccepted(r.value, o.pn_len) THEN Field(r, "reserved")
                ELSE Answer(r, "error")
          [] o.curr_value = "reserved" ->
                IF Len(r.value) = 8 THEN Field(r, "infohash") ELSE r
          [] o.curr_value = "infohash" ->
                IF Len(r.value) # 20 THEN r
                ELSE IF HashAccepted(r.value) THEN Field(r, "peerid")
                ELSE Answer(r, "error")
          [] o.curr_value = "peerid" ->
                IF PeerIdRead(r) THEN Answer(r, "done") ELSE r

HsNext ==
    /\ subject = "handshaker"
    /\ obj.ret = "more"
    /\ \/ \E n \in DOMAIN obj.coming : HsReceive(n)
       \/ obj.buf # <<>> /\ Becomes(ReadByte(obj), abs)

\* However the stream is cut, the handshake is answered from its own bytes:
\* a peer with our protocol name and our info hash is accepted, one whose hash
\* differs before its first zero byte or whose name differs is refused, and
\* an accepted handshake leaves every byte of the messages behind it unread.
HandshakeExact ==
    subject = "handshaker" =>
        /\ obj.ret = "done" =>
              /\ \A i \in Before0(expected_ih) : abs.ih[i] = expected_ih[i]
              /\ IsPrefix(abs.name, PROTOCOL_NAME) \/ IsPrefix(PROTOCOL_NAME, abs.name)
              /\ obj.bytes_read = 49 + Len(abs.name)
              /\ obj.buf \o obj.coming = HsTrailing
        /\ obj.ret = "error" => abs.name # PROTOCOL_NAME \/ abs.ih # expected_ih
=============================================================================
