------------------------------ MODULE ChunkyBar ------------------------------
(***************************************************************************)
(* PUTs/11CSparseCounter: which parts of a range of max bytes are done, as *)
(* a linked list of chunks in order of their offsets.                      *)
(***************************************************************************)
EXTENDS Subject, Integers, Sequences, FiniteSets, SequencesExt

CONSTANT ChunkyMax   \* argument of chunky_new

chunky_new == [max |-> ChunkyMax, chunks |-> <<>>]

Chunk(offset, len) == [offset |-> offset, len |-> len]
End(c) == c.offset + c.len

\* prev, at position i, takes in the chunks after it that it reaches
RECURSIVE Feast(_, _)
Feast(cs, i) ==
    IF i = Len(cs) \/ cs[i + 1].offset > End(cs[i]) THEN cs
    ELSE LET e == IF End(cs[i + 1]) <= End(cs[i]) THEN End(cs[i]) ELSE End(cs[i + 1])
         IN  Feast(RemoveAt([cs EXCEPT ![i].len = e - cs[i].offset], i + 1), i)

\* Mutation: chunks that touch are not joined.
MutNoFeast(cs, offset, len) ==
    LET before == {k \in DOMAIN cs : cs[k].offset <= offset}
        p == Cardinality(before)
    IN  IF p > 0 /\ offset <= End(cs[p])
        THEN [cs EXCEPT ![p].len = IF offset + len <= End(cs[p]) THEN @ ELSE offset + len - cs[p].offset]
        ELSE InsertAt(cs, p + 1, Chunk(offset, len))

\* chunky_mark_complete on the list of chunks.  p is the last chunk that does
\* not start after offset; the list is in order, so they are the first ones.
MarkComplete(cs, offset, len) ==
    LET p == Cardinality({k \in DOMAIN cs : cs[k].offset <= offset}) IN
    IF cs = <<>> THEN <<Chunk(offset, len)>>
    ELSE IF p = 0 THEN Feast(<<Chunk(offset, len)>> \o cs, 1)
    ELSE IF offset > End(cs[p]) THEN Feast(InsertAt(cs, p + 1, Chunk(offset, len)), p + 1)
    ELSE IF offset + len <= End(cs[p]) THEN Feast(cs, p)
    ELSE Feast([cs EXCEPT ![p].len = offset + len - cs[p].offset], p)

chunky_mark_complete(me, offset, len) ==
    [me EXCEPT !.chunks = MarkComplete(@, offset, len)]

\* The loop of chunky_mark_incomplete from the chunk at position k onwards.
\* When the first chunk goes, the loop moves on from the one that takes its
\* place without looking at it.
RECURSIVE Erase(_, _, _, _)
Erase(cs, k, offset, len) ==
    LET c == cs[k]
        e == offset + len
    IN
    IF k > Len(cs) THEN cs
    ELSE IF offset <= c.offset /\ End(c) <= e
    THEN IF k > 1 THEN Erase(RemoveAt(cs, k), k, offset, len)
         ELSE Erase(Tail(cs), 2, offset, len)
    ELSE IF c.offset < offset /\ e < End(c)
    THEN Erase(InsertAt([cs EXCEPT ![k].len = offset - c.offset], k + 1,
                        Chunk(e, c.len - len - (offset - c.offset))),
               k + 1, offset, len)
    ELSE IF c.offset < e /\ e < End(c)
    THEN Erase([cs EXCEPT ![k] = Chunk(e, c.len - (e - c.offset))], k + 1, offset, len)
    ELSE IF c.offset < offset /\ offset < End(c) /\ End(c) <= e
    THEN Erase([cs EXCEPT ![k].len = offset - c.offset], k + 1, offset, len)
    ELSE Erase(cs, k + 1, offset, len)

chunky_mark_incomplete(me, offset, len) ==
    [me EXCEPT !.chunks = Erase(@, 1, offset, len)]

chunky_mark_all_incomplete(me) == chunky_mark_incomplete(me, 0, me.max)

chunky_is_complete(me) == Len(me.chunks) = 1 /\ me.chunks[1].len = me.max

chunky_get_nbytes_completed(me) == FoldLeft(LAMBDA n, c : n + c.len, 0, me.chunks)

chunky_have(me, offset, len) ==
    \E k \in DOMAIN me.chunks : me.chunks[k].offset <= offset /\ offset + len <= End(me.chunks[k])

\* offset and length of the part chunky_get_incomplete proposes
chunky_get_incomplete(me, max) ==
    LET cs == me.chunks
        offset == IF cs # <<>> /\ cs[1].offset = 0 THEN cs[1].len ELSE 0
        len == IF cs = <<>> THEN max
               ELSE IF cs[1].offset # 0
               THEN IF Len(cs) > 1 THEN cs[2].offset - cs[1].offset ELSE cs[1].offset
               ELSE IF Len(cs) > 1 THEN cs[2].offset - cs[1].len ELSE max
        capped == IF max < len THEN max ELSE len
    IN  Chunk(offset, IF me.max < offset + capped THEN me.max - offset ELSE capped)

-----------------------------------------------------------------------------
Bytes(me) == {b \in 0 .. me.max - 1 : \E k \in DOMAIN me.chunks :
                 me.chunks[k].offset <= b /\ b < End(me.chunks[k])}

Part(offset, len) == offset .. offset + len - 1

\* abs is the set of bytes the calls have made complete
ChunkyInit == subject = "chunkybar" /\ obj = chunky_new /\ abs = {}

ChunkyComplete(o, l) ==
    Becomes(chunky_mark_complete(obj, o, l), abs \union Part(o, l))

\* what is really left is recorded: see ChunkyErases
ChunkyIncomplete(o, l) ==
    LET new == chunky_mark_incomplete(obj, o, l) IN
    Becomes(new, (abs \ Part(o, l)) \union (abs \intersect Bytes(new)))

ChunkyAllIncomplete ==
    LET new == chunky_mark_all_incomplete(obj) IN
    Becomes(new, abs \intersect Bytes(new))

ChunkyNext ==
    /\ subject = "chunkybar"
    /\ \/ \E o \in 0 .. ChunkyMax - 1 : \E l \in 1 .. ChunkyMax - o :
            ChunkyComplete(o, l) \/ ChunkyIncomplete(o, l)
       \/ ChunkyAllIncomplete

\* The chunks are in order, none touches the next, and every query agrees
\* with the bytes marked: how many are done, whether a part is there, whether
\* all are, and a proposed part starts at a byte that is not done.
ChunkyExact ==
    subject = "chunkybar" =>
        LET cs == obj.chunks IN
        /\ Bytes(obj) = abs
        /\ \A k \in DOMAIN cs : cs[k].len > 0 /\ (k > 1 => End(cs[k - 1]) < cs[k].offset)
        /\ chunky_get_nbytes_completed(obj) = Cardinality(abs)
        /\ chunky_is_complete(obj) <=> abs = 0 .. ChunkyMax - 1
        /\ \A o \in 0 .. ChunkyMax - 1 : \A l \in 1 .. ChunkyMax - o :
              /\ chunky_have(obj, o, l) <=> Part(o, l) \subseteq abs
              /\ chunky_get_incomplete(obj, l).len > 0 =>
                    chunky_get_incomplete(obj, l).offset \notin abs

\* Marking a part incomplete never takes a byte outside it, and takes all of
\* it unless the first chunk goes as a whole and the second meets the part too.
ChunkyErases ==
    subject = "chunkybar" =>
        \A o \in 0 .. ChunkyMax - 1 : \A l \in 1 .. ChunkyMax - o :
            LET new == Bytes(chunky_mark_incomplete(obj, o, l))
                first == obj.chunks[1]
            IN
            /\ Bytes(obj) \ Part(o, l) \subseteq new /\ new \subseteq Bytes(obj)
            /\ (new \intersect Part(o, l) # {}) =>
                  /\ Len(obj.chunks) > 1
                  /\ Part(first.offset, first.len) \subseteq Part(o, l)
                  /\ obj.chunks[2].offset < o + l
=============================================================================
