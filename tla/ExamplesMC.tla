----------------------------- MODULE ExamplesMC -----------------------------
(* The data structures of the example programs, one after another: a         *)
(* behaviour belongs to one of them.                                        *)
EXTENDS Queues, Heap, ChunkyBar, FixedArrayList,
        RaftLog, LinkedListHashmap, QuadraticHashmap, AvlTree, SplayTree,
        TextureAtlas, Bencode

\* What is written to the bencode reader: 0 and 12; strings with the characters of
\* tokens in them, and one whose length has two digits
Ints == {<<48>>, <<49, 50>>}
Strs == {<<>>, <<101>>, <<49, 58>>, [i \in 1 .. 10 |-> 105]}

Init ==
    \/ CbufInit \/ BipInit \/ QueueInit \/ HeapInit \/ ChunkyInit
    \/ ListInit \/ LogInit \/ LlmapInit \/ QmapInit
    \/ AvlInit \/ SplayInit \/ LruInit \/ AtlasInit \/ BencodeInit

Next ==
    \/ CbufNext \/ BipNext \/ QueueNext \/ HeapNext \/ ChunkyNext
    \/ ListNext \/ LogNext \/ LlmapNext \/ QmapNext
    \/ AvlNext \/ SplayNext \/ LruNext \/ AtlasNext \/ BencodeNext

Spec == Init /\ [][Next]_subjectVars

-----------------------------------------------------------------------------
\* The queues hand out what was put in, each item once and in their order: the two
\* ring buffers and the linked list first in first out, the heap by priority until
\* heap_remove_item, which only pushes up, leaves it unordered.
QueuesInOrder == CbufFifo /\ BipFifo /\ QueueLinked /\ HeapKeepsItems /\ HeapOrdered

\* The maps answer every key with the value last accepted for it, through chains,
\* probing, growth, rotations and removals, and no search runs for ever.
MapsExact == LlmapExact /\ QmapExact /\ QmapProbesEnd /\ AvlExact /\ SplayExact /\ LruExact

\* An iterator over a hash map meets each item once, also when items are removed
\* while it runs.
IteratesOnce == LlmapIteratesOnce /\ QmapIteratesOnce

\* The structures kept in arrays hold exactly what was put in and not taken out: the
\* chunks of a chunky bar are the bytes marked complete and not incomplete again, the
\* rectangles of a texture atlas tile it, and the array list and the log have each
\* item at the index it was given while they grow, shrink and wrap around.
ContentsExact ==
    ChunkyExact /\ ChunkyErases /\ AtlasTiles /\ ListKeepsItems /\ LogIndexed
=============================================================================
