----------------------------- MODULE TextureAtlas -----------------------------
(***************************************************************************)
(* PUTs/08texture-atlas: rectangles placed in a square, which is divided   *)
(* in two whenever a rectangle does not fill the place it is put in.       *)
(* The tree of divisions is kept as the sequence of its leaves, from the   *)
(* first kid to the second: the order in which __insert tries them.  The   *)
(* map from texture ids to places is textures.                             *)
(***************************************************************************)
EXTENDS Subject, Integers, FiniteSets, SequencesExt

CONSTANTS
    AtlasWidth,     \* argument of ren_texture_atlas_init
    AtlasMaxPush    \* bound on the number of textures

Rect(x, y, w, h, id) == [x |-> x, y |-> y, w |-> w, h |-> h, id |-> id]

ren_texture_atlas_init(width) ==
    [leaves |-> <<Rect(0, 0, width, width, 0)>>, ntextures |-> 0, textures |-> <<>>]

Perfect(t, w, h) == t.w = w /\ t.h = h

\* __insert refuses a leaf that is smaller or in use
Fits(t, w, h) == t.w >= w /\ t.h >= h /\ t.id = 0

\* The two sub-divisions of a leaf
Kids(t, w, h) ==
    IF t.h - h < t.w - w
    THEN <<Rect(t.x, t.y, w, t.h, 0), Rect(t.x + w, t.y, t.w - w, t.h, 0)>>
    ELSE <<Rect(t.x, t.y, t.w, h, 0), Rect(t.x, t.y + h, t.w, t.h - h, 0)>>

\* What becomes of a leaf with space: divide until the first kid is the perfect size
RECURSIVE Divide(_, _, _, _)
Divide(t, w, h, id) ==
    IF Perfect(t, w, h) THEN <<[t EXCEPT !.id = id]>>
    ELSE LET kids == Kids(t, w, h) IN Divide(kids[1], w, h, id) \o <<kids[2]>>

Places(at, w, h) == {i \in DOMAIN at.leaves : Fits(at.leaves[i], w, h)}

\* ren_texture_atlas_push_pixels; 0 is returned, and nothing changed, when there is no place
ren_texture_atlas_push_pixels(at, w, h) ==
    IF Places(at, w, h) = {} THEN at
    ELSE LET i    == CHOOSE i \in Places(at, w, h) : \A j \in Places(at, w, h) : i <= j
             id   == at.ntextures + 1
             part == Divide(at.leaves[i], w, h, id)
         IN  [leaves    |-> SubSeq(at.leaves, 1, i - 1) \o part
                               \o SubSeq(at.leaves, i + 1, Len(at.leaves)),
              ntextures |-> id,
              textures  |-> Append(at.textures, part[1])]

ren_texture_atlas_contains_texid(at, texid) == texid \in DOMAIN at.textures

\* Begin and end of a texture, in units of 1/width
ren_texture_atlas_get_coords_from_texid(at, texid) ==
    LET t == at.textures[texid]
    IN  [begin |-> <<t.x, t.y>>, end |-> <<t.x + t.w, t.y + t.h>>]

-----------------------------------------------------------------------------
(* Calls.  abs is the sizes pushed so far and accepted.                      *)

AtlasInit ==
    /\ subject = "atlas"
    /\ obj = ren_texture_atlas_init(AtlasWidth)
    /\ abs = <<>>

AtlasNext ==
    /\ subject = "atlas"
    /\ obj.ntextures < AtlasMaxPush
    /\ \E w, h \in 1 .. AtlasWidth :
          LET at == ren_texture_atlas_push_pixels(obj, w, h)
          IN  Becomes(at, IF at.ntextures = obj.ntextures THEN abs ELSE Append(abs, <<w, h>>))

-----------------------------------------------------------------------------
\* The unit squares a leaf covers
Area(t) == {<<x, y>> : x \in t.x .. t.x + t.w - 1, y \in t.y .. t.y + t.h - 1}

\* Every unit square belongs to exactly one leaf: textures never overlap each other,
\* none reaches out of the atlas, and no space is lost by the divisions; each texture
\* id leads to a place of the size that was pushed, the leaf marked with the id.
AtlasTiles ==
    subject = "atlas" =>
        /\ \A sq \in (0 .. AtlasWidth - 1) \X (0 .. AtlasWidth - 1) :
              Cardinality({i \in DOMAIN obj.leaves : sq \in Area(obj.leaves[i])}) = 1
        /\ \A i \in DOMAIN obj.leaves :
              Area(obj.leaves[i]) \subseteq (0 .. AtlasWidth - 1) \X (0 .. AtlasWidth - 1)
        /\ \A id \in 1 .. AtlasMaxPush :
              ren_texture_atlas_contains_texid(obj, id) <=> id \in DOMAIN abs
        /\ \A id \in DOMAIN abs :
              LET c == ren_texture_atlas_get_coords_from_texid(obj, id)
              IN  /\ c.end = <<c.begin[1] + abs[id][1], c.begin[2] + abs[id][2]>>
                  /\ {i \in DOMAIN obj.leaves : obj.leaves[i].id = id}
                        = {i \in DOMAIN obj.leaves : obj.leaves[i] = obj.textures[id]}
                  /\ \E i \in DOMAIN obj.leaves : obj.leaves[i].id = id
=============================================================================
