---------------------------- MODULE PwpConnection ----------------------------
(***************************************************************************)
(* PUTs/01pwp, pwp_connection.c: two peers, each running this code, at the *)
(* two ends of one connection.  A wire is what a peer has sent and the     *)
(* other has not read; pwp_msghandler hands a piece message over in the    *)
(* fragments it arrives in.  The callbacks belong to the caller: send,     *)
(* disconnect (the caller drops the connection and releases it),           *)
(* pollblock, pushblock and peer_giveback_block.                           *)
(* The chunkybar of pieces is a set, recv_reqs a function from blocks to   *)
(* the ticks since they were asked for; a tick is only ever compared with  *)
(* another.  connect_failed, whose last statement is assert(0), is left    *)
(* out, and so are the rates.                                              *)
(***************************************************************************)
EXTENDS Subject, Integers, Sequences, FiniteSets, SequencesExt

CONSTANTS
    Peers,         \* the two ends
    Pieces,        \* me->num_pieces is their number: 0 .. num_pieces - 1
    PieceLen,      \* me->piece_len
    Completed,     \* pieces each peer has from the start
    Blocks,        \* blocks a caller may ask for
    Pipeline,      \* requests pwp_conn_periodic keeps pending (10)
    ReqTimeout,    \* ticks after which a request is given back (10)
    MaxWire,       \* bound: messages one wire holds
    MaxReqs,       \* bound: blocks a caller leaves in me->reqs
    MaxCalls       \* bound: calls the callers make by themselves

ASSUME PeersAssumption == \A p \in Peers : \E q \in Peers : q # p /\ Peers = {p, q}

ASSUME PiecesAssumption == Pieces \subseteq Nat /\ Completed \in [Peers -> SUBSET Pieces]

BlockSet == [piece : Nat, off : Nat, len : Nat]

\* A caller asks for a block that begins in the piece and is not empty
ASSUME BlocksAssumption ==
    /\ PieceLen \in Nat /\ ReqTimeout \in Nat
    /\ \A b \in Blocks : b \in BlockSet /\ 0 < b.len /\ b.off <= PieceLen

Other(p) == CHOOSE q \in Peers : q # p

End(b) == b.off + b.len

Bytes(b) == {<<b.piece, i>> : i \in b.off .. End(b) - 1}

BytesOf(bs) == UNION {Bytes(b) : b \in bs}

__req_fit(b) ==
    IF PieceLen < End(b) THEN [b EXCEPT !.len = End(b) - PieceLen] ELSE b

-----------------------------------------------------------------------------
\* What is left of request r once piece pb has arrived
Eats(pb, r)     == pb.off <= r.off /\ End(r) <= End(pb)
InMiddle(pb, r) == r.off < pb.off /\ End(pb) < End(r)
OnLeft(pb, r)   == pb.off <= r.off /\ r.off < End(pb) /\ End(pb) < End(r)
OnRight(pb, r)  == r.off < pb.off /\ pb.off < End(r) /\ End(r) <= End(pb)

LeftPart(pb, r) == [piece |-> r.piece, off |-> r.off, len |-> pb.off - r.off]

\* Mutation: the part before the piece is not taken off.
MutRightLen(pb, r) == [piece |-> r.piece, off |-> End(pb), len |-> r.len - pb.len]

RightPart(pb, r) ==
    [piece |-> r.piece, off |-> End(pb), len |-> r.len - pb.len - (pb.off - r.off)]

Shrunk(pb, r) ==
    [piece |-> r.piece, off |-> End(pb), len |-> r.len - (End(pb) - r.off)]

Remainder(pb, r) ==
    IF pb.piece # r.piece THEN {r}
    ELSE IF Eats(pb, r)     THEN {}
    ELSE IF InMiddle(pb, r) THEN {RightPart(pb, r), LeftPart(pb, r)}
    ELSE IF OnLeft(pb, r)   THEN {Shrunk(pb, r)}
    ELSE IF OnRight(pb, r)  THEN {LeftPart(pb, r)}
    ELSE {r}

\* The requests are disjoint, so each remainder has one request it is left of;
\* it keeps that request's tick.  The lookup before the loop hashes the address
\* of the pointer to the block, not the block, and finds nothing.
__conn_remove_pending_request(reqs, pb) ==
    LET left == UNION {Remainder(pb, r) : r \in DOMAIN reqs}
    IN  [b \in left |-> reqs[CHOOSE r \in DOMAIN reqs : b \in Remainder(pb, r)]]

-----------------------------------------------------------------------------
NoReqs == [b \in {} |-> 0]

\* Each peer has sent its bitfield; abs.owed[p] is what p's caller has been
\* promised: the bytes asked for, neither pushed nor given back
pwp_conn_new(p) ==
    [flags |-> {"IM_CHOKING", "PEER_CHOKING"}, recv_reqs |-> NoReqs,
     peer_reqs |-> <<>>, reqs |-> <<>>, peerhas |-> {}, completed |-> Completed[p]]

pwp_send_bitfield(p) == [type |-> "BITFIELD", pieces |-> Completed[p]]

ConnInit ==
    /\ subject = "connection"
    /\ obj = [up |-> TRUE, calls |-> 0, conn |-> [p \in Peers |-> pwp_conn_new(p)],
              wire |-> [p \in Peers |-> <<pwp_send_bitfield(p)>>]]
    /\ abs = [p \in Peers |-> {}]

\* Nothing is read any more once a peer has disconnected
Silent == [p \in Peers |-> <<>>]

\* Peer p is left as c and sends out.  sent = FALSE: cb.send answered 0, which
\* disconnects.
LeavesAfter(calls, p, c, out, sent, owed) ==
    /\ Len(obj.wire[p]) + Len(out) <= MaxWire
    /\ out = <<>> => sent
    /\ calls <= MaxCalls
    /\ obj' = [up |-> sent, calls |-> calls, conn |-> [obj.conn EXCEPT ![p] = c],
               wire |-> IF sent THEN [obj.wire EXCEPT ![p] = @ \o out] ELSE Silent]
    /\ abs' = [abs EXCEPT ![p] = owed]
    /\ UNCHANGED subject

Leaves(p, c, out, sent, owed) == LeavesAfter(obj.calls, p, c, out, sent, owed)

Msg(t) == <<[type |-> t]>>
Request(b) == <<[type |-> "REQUEST", blk |-> b]>>
Piece(b) == <<[type |-> "PIECE", blk |-> b]>>

pwp_conn_flag_is_set(c, f) == f \in c.flags
WithFlag(c, f) == [c EXCEPT !.flags = @ \union {f}]
NoFlag(c, f)   == [c EXCEPT !.flags = @ \ {f}]

pwp_conn_set_im_interested(c, sent) ==
    IF sent THEN WithFlag(c, "IM_INTERESTED") ELSE c

__expunge_their_pending_reqs(c) == [c EXCEPT !.peer_reqs = <<>>]

\* Every pending block is given back
__expunge_my_pending_reqs(c) == [c EXCEPT !.recv_reqs = NoReqs]


-----------------------------------------------------------------------------
\* The caller, owed these bytes, asks for bytes it is not already waiting for, of
\* pieces the peer announced and it does not have
MayOffer(owed, c, bs) ==
    /\ Len(c.reqs) + Len(bs) <= MaxReqs
    /\ \A i \in DOMAIN bs :
          /\ bs[i].piece \in c.peerhas \ c.completed
          /\ Bytes(bs[i]) \intersect (owed \union BytesOf(Range(c.reqs))) = {}
          /\ \A j \in 1 .. i - 1 : Bytes(bs[i]) \intersect Bytes(bs[j]) = {}

pwp_conn_offer_block(p, b) ==
    LET c == obj.conn[p]
    IN  /\ MayOffer(abs[p], c, <<b>>)
        /\ Leaves(p, [c EXCEPT !.reqs = @ \o <<b>>], <<>>, TRUE, abs[p])

\* Mutation: no request is old.
MutNeverOld(c) == {}

OldReqs(c) == {b \in DOMAIN c.recv_reqs : ReqTimeout < c.recv_reqs[b] + 1}

__expunge_my_old_pending_reqs(c) ==
    [c EXCEPT !.recv_reqs = [b \in DOMAIN @ \ OldReqs(c) |-> @[b] + 1]]

\* What periodic does before it looks at our interest: tick, give old requests
\* back, serve one request, and clear PEER_CHOKING, not IM_CHOKING, when an
\* interested peer is being choked
Ticked(c) ==
    LET aged == __expunge_my_old_pending_reqs(c)
        choked == pwp_conn_flag_is_set(c, "PEER_INTERESTED") /\ pwp_conn_flag_is_set(c, "IM_CHOKING")
    IN  [aged EXCEPT !.peer_reqs = IF @ = <<>> THEN @ ELSE Tail(@),
                     !.flags = IF choked THEN @ \ {"PEER_CHOKING"} ELSE @]

Served(c) == IF c.peer_reqs = <<>> THEN <<>> ELSE Piece(Head(c.peer_reqs))

\* __process_requests, pwp_conn_request_block_from_peer
__process_requests(c) ==
    LET b == __req_fit(Head(c.reqs))
    IN  [c EXCEPT !.reqs = Tail(@),
                  !.recv_reqs = [k \in DOMAIN @ \union {b} |-> IF k = b THEN 0 ELSE @[k]]]

pwp_conn_periodic(p, sent) ==
    LET c    == Ticked(obj.conn[p])
        out  == Served(obj.conn[p])
        owed == abs[p] \ BytesOf(OldReqs(obj.conn[p]))
        interested == pwp_conn_flag_is_set(c, "IM_INTERESTED")
        choked     == pwp_conn_flag_is_set(c, "PEER_CHOKING")
    IN  \/ /\ ~interested
           /\ Leaves(p, pwp_conn_set_im_interested(c, sent), out \o Msg("INTERESTED"), sent, owed)
        \/ /\ interested /\ choked
           /\ Leaves(p, c, out, sent, owed)
        \/ /\ interested /\ ~choked
           /\ \E offers \in SeqOf(Blocks, MaxReqs) :
                 LET full == [c EXCEPT !.reqs = @ \o offers]
                 IN  /\ Len(offers) <= Pipeline - Cardinality(DOMAIN c.recv_reqs) \/ offers = <<>>
                     /\ MayOffer(owed, c, offers)
                     /\ IF full.reqs = <<>> THEN Leaves(p, c, out, sent, owed)
                        ELSE LET b == __req_fit(Head(full.reqs))
                             IN  Leaves(p, __process_requests(full), out \o Request(b), sent,
                                        owed \union Bytes(b))

-----------------------------------------------------------------------------
\* Peer p reads the first message on the wire of the other
Reads(p, t) ==
    /\ obj.wire[Other(p)] # <<>>
    /\ Head(obj.wire[Other(p)]).type = t

\* The message is consumed, or rest of it is left; p is left as c, sends out
\* and, if drop, disconnects
Handled(p, c, out, drop, rest, owed) ==
    LET q == Other(p)
    IN  /\ Len(obj.wire[p]) + Len(out) <= MaxWire
        /\ obj' = [up |-> ~drop, calls |-> obj.calls, conn |-> [obj.conn EXCEPT ![p] = c],
                   wire |-> IF drop THEN Silent
                            ELSE [obj.wire EXCEPT ![q] = rest \o Tail(@), ![p] = @ \o out]]
        /\ abs' = [abs EXCEPT ![p] = owed]
        /\ UNCHANGED subject

Message(p) == Head(obj.wire[Other(p)])

\* Mutation: the requests are kept when we are choked.
MutKeepsReqs(p) ==
    /\ Reads(p, "CHOKE")
    /\ Handled(p, WithFlag(obj.conn[p], "PEER_CHOKING"), <<>>, FALSE, <<>>, abs[p])

pwp_conn_choke(p) ==
    /\ Reads(p, "CHOKE")
    /\ Handled(p, __expunge_my_pending_reqs(WithFlag(obj.conn[p], "PEER_CHOKING")),
               <<>>, FALSE, <<>>, abs[p] \ BytesOf(DOMAIN obj.conn[p].recv_reqs))

pwp_conn_unchoke(p) ==
    /\ Reads(p, "UNCHOKE")
    /\ Handled(p, NoFlag(obj.conn[p], "PEER_CHOKING"), <<>>, FALSE, <<>>, abs[p])

pwp_conn_interested(p) ==
    /\ Reads(p, "INTERESTED")
    /\ Handled(p, WithFlag(obj.conn[p], "PEER_INTERESTED"), <<>>, FALSE, <<>>, abs[p])

pwp_conn_uninterested(p) ==
    /\ Reads(p, "UNINTERESTED")
    /\ Handled(p, NoFlag(obj.conn[p], "PEER_INTERESTED"), <<>>, FALSE, <<>>, abs[p])

pwp_conn_mark_peer_has_piece(c, i) ==
    IF i \in Pieces THEN [c EXCEPT !.peerhas = @ \union {i}] ELSE c

pwp_conn_have(p, sent) ==
    LET c == obj.conn[p]
        i == Message(p).piece
        marked == pwp_conn_mark_peer_has_piece(c, i)
    IN  /\ Reads(p, "HAVE")
        /\ IF i \in c.completed
           THEN sent /\ Handled(p, marked, <<>>, i \notin Pieces, <<>>, abs[p])
           ELSE Handled(p, pwp_conn_set_im_interested(marked, sent),
                        IF sent THEN Msg("INTERESTED") ELSE <<>>,
                        i \notin Pieces \/ ~sent, <<>>, abs[p])

pwp_conn_bitfield(p) ==
    LET c == obj.conn[p]
    IN  /\ Reads(p, "BITFIELD")
        /\ Handled(p, [WithFlag(c, "BITFIELD_RECEIVED") EXCEPT
                          !.peerhas = @ \union (Message(p).pieces \intersect Pieces)],
                   <<>>, pwp_conn_flag_is_set(c, "BITFIELD_RECEIVED"), <<>>, abs[p])

\* The tests pwp_conn_request makes before it queues the block; the index may be
\* num_pieces itself, which no peer has completed
ValidRequest(c, r) ==
    /\ ~pwp_conn_flag_is_set(c, "IM_CHOKING")
    /\ r.piece <= Cardinality(Pieces)
    /\ r.piece \in c.completed
    /\ r.piece \notin c.peerhas
    /\ r.len # 0 /\ End(r) <= PieceLen

pwp_conn_request(p) ==
    LET c == obj.conn[p]
        r == Message(p).blk
        queued == IF Contains(c.peer_reqs, r) THEN c ELSE [c EXCEPT !.peer_reqs = Append(@, r)]
    IN  /\ Reads(p, "REQUEST")
        /\ Handled(p, IF ValidRequest(c, r) THEN queued ELSE c,
                   <<>>, ~ValidRequest(c, r), <<>>, abs[p])

\* A block is queued once, so the first match is the only one
llqueue_remove_item_via_cmpfunction(q, b) ==
    IF Contains(q, b) THEN RemoveAt(q, CHOOSE i \in DOMAIN q : q[i] = b) ELSE q

pwp_conn_cancel(p) ==
    LET c == obj.conn[p]
    IN  /\ Reads(p, "CANCEL")
        /\ Handled(p, [c EXCEPT !.peer_reqs = llqueue_remove_item_via_cmpfunction(@, Message(p).blk)],
                   <<>>, FALSE, <<>>, abs[p])

\* n bytes of the piece have arrived; the rest of the message is read later
pwp_conn_piece(p, n) ==
    LET c    == obj.conn[p]
        b    == Message(p).blk
        part == [b EXCEPT !.len = n]
    IN  /\ Reads(p, "PIECE")
        /\ n <= b.len
        /\ Handled(p, [c EXCEPT !.recv_reqs = __conn_remove_pending_request(@, part)],
                   <<>>, FALSE,
                   IF n = b.len THEN <<>> ELSE Piece([b EXCEPT !.off = @ + n, !.len = @ - n]),
                   abs[p] \ Bytes(part))

-----------------------------------------------------------------------------
Calls(p, c, out, sent, owed) == LeavesAfter(obj.calls + 1, p, c, out, sent, owed)

\* What a caller does by itself
pwp_conn_choke_peer(p, sent) ==
    Calls(p, __expunge_their_pending_reqs(WithFlag(obj.conn[p], "IM_CHOKING")),
           Msg("CHOKE"), sent, abs[p])

pwp_conn_unchoke_peer(p, sent) ==
    Calls(p, NoFlag(obj.conn[p], "IM_CHOKING"), Msg("UNCHOKE"), sent, abs[p])

pwp_conn_send_statechange(p, sent) ==
    Calls(p, obj.conn[p], Msg("UNINTERESTED"), sent, abs[p])

pwp_conn_send_have(p, i, sent) ==
    /\ i \in obj.conn[p].completed
    /\ Calls(p, obj.conn[p], <<[type |-> "HAVE", piece |-> i]>>, sent, abs[p])

pwp_conn_send_cancel(p, b, sent) ==
    /\ b \in DOMAIN obj.conn[p].recv_reqs
    /\ Calls(p, obj.conn[p], <<[type |-> "CANCEL", blk |-> b]>>, sent, abs[p])

\* The caller drops a disconnected peer; what is pending is given back
pwp_conn_release(p) ==
    /\ obj' = [obj EXCEPT !.conn[p] = __expunge_my_pending_reqs(__expunge_their_pending_reqs(@))]
    /\ abs' = [abs EXCEPT ![p] = @ \ BytesOf(DOMAIN obj.conn[p].recv_reqs)]
    /\ UNCHANGED subject

ConnHandles(p) ==
    \/ pwp_conn_choke(p) \/ pwp_conn_unchoke(p)
    \/ pwp_conn_interested(p) \/ pwp_conn_uninterested(p)
    \/ \E sent \in BOOLEAN : pwp_conn_have(p, sent)
    \/ pwp_conn_bitfield(p) \/ pwp_conn_request(p) \/ pwp_conn_cancel(p)
    \/ \E n \in 1 .. PieceLen : pwp_conn_piece(p, n)

ConnCalls(p) ==
    \/ \E b \in Blocks : pwp_conn_offer_block(p, b)
    \/ \E sent \in BOOLEAN :
          \/ pwp_conn_periodic(p, sent)
          \/ pwp_conn_choke_peer(p, sent) \/ pwp_conn_unchoke_peer(p, sent)
          \/ pwp_conn_send_statechange(p, sent)
          \/ \E i \in Pieces : pwp_conn_send_have(p, i, sent)
          \/ \E b \in DOMAIN obj.conn[p].recv_reqs : pwp_conn_send_cancel(p, b, sent)

ConnNext ==
    /\ subject = "connection"
    /\ \E p \in Peers : IF obj.up THEN ConnCalls(p) \/ ConnHandles(p) ELSE pwp_conn_release(p)

-----------------------------------------------------------------------------
\* What a connection waits for is exactly what it owes its caller: whatever
\* order pieces, fragments, late answers, timeouts, chokes and releases come
\* in, recv_reqs covers the bytes asked for and neither pushed nor given back,
\* each byte once, in blocks that are not empty.
RequestsSettled ==
    subject = "connection" =>
        \A p \in Peers :
            LET pending == DOMAIN obj.conn[p].recv_reqs
            IN  /\ BytesOf(pending) = abs[p]
                /\ \A a, b \in pending : a # b => Bytes(a) \intersect Bytes(b) = {}
                /\ \A b \in pending : b.len > 0

\* No request outlives ReqTimeout periods, however often arriving pieces split
\* or shrink it.
RequestsExpire ==
    subject = "connection" =>
        \A p \in Peers : \A b \in DOMAIN obj.conn[p].recv_reqs :
            obj.conn[p].recv_reqs[b] <= ReqTimeout

\* A connection that believes it is choked waits for nothing.
ChokedAsksNothing ==
    subject = "connection" =>
        \A p \in Peers :
            "PEER_CHOKING" \in obj.conn[p].flags => obj.conn[p].recv_reqs = NoReqs

\* What is queued for the other peer can be served: it lies in a piece we have,
\* is queued once, and is forgotten when we choke.
QueueServable ==
    subject = "connection" =>
        \A p \in Peers :
            LET c == obj.conn[p]
            IN  /\ "IM_CHOKING" \in c.flags => c.peer_reqs = <<>>
                /\ IsInjective(c.peer_reqs)
                /\ \A r \in Range(c.peer_reqs) :
                      r.piece \in c.completed /\ 0 < r.len /\ End(r) <= PieceLen

\* A choke ends what was asked for, in both directions: a connection that is choked
\* waits for no block, and one that chokes has none queued that it would still send.
ChokesRespected == ChokedAsksNothing /\ QueueServable
=============================================================================
