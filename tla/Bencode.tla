------------------------------- MODULE Bencode -------------------------------
(***************************************************************************)
(* PUTs/10streaming-bencode-master: a reader of bencoded data that is      *)
(* given its input in pieces of any size and keeps a stack of frames       *)
(* between them.  One step reads one character.                            *)
(*                                                                         *)
(* The input is written by an encoder: a token at a time, one that the     *)
(* grammar allows, with the calls the reader has to make for it.  It does  *)
(* not write the two tokens the reader gets wrong: an empty dictionary,    *)
(* whose end it takes for the end of a key, and an empty key, which it     *)
(* reads for ever.                                                         *)
(***************************************************************************)
EXTENDS Subject, Integers, SequencesExt

CONSTANTS
    BencodeDepth,    \* expected_depth of bencode_new
    BencodeTokens,   \* bound on the tokens written
    BencodeInts,     \* integers written, as sequences of digits
    BencodeStrs      \* strings and keys written, as sequences of characters

\* Characters, by their codes
CharZero == 48
Colon == 58
CharD == 100
CharE == 101
CharI == 105
CharL == 108

Stale == <<-1>>   \* the key of a frame that was never given one

Frame(type, key) == [type |-> type, key |-> key, len |-> 0, str |-> <<>>, intval |-> 0]

\* Frames above d keep their key for the next push
bencode_new(expected_depth) ==
    [nframes |-> expected_depth, d |-> 0,
     stk |-> [i \in 0 .. expected_depth |-> Frame("none", Stale)], calls |-> <<>>]

Top(me) == me.stk[me.d]

SetTop(me, f) == [me EXCEPT !.stk[me.d] = f]

\* A callback, with the key it is given and its value
Call(me, cb, key, val) == [me EXCEPT !.calls = Append(@, <<cb, key, val>>)]

\* me->nframes <= me->d is an assertion failure: the encoder does not go deeper.
\* The key is not cleared
push_stack(me, type) ==
    [me EXCEPT !.d = @ + 1, !.stk[me.d + 1] = Frame(type, me.stk[me.d + 1].key)]

Leave(me) ==
    IF Top(me).type \in {"list", "dict"}
    THEN Call(me, IF Top(me).type = "list" THEN "list_leave" ELSE "dict_leave",
              Top(me).key, 0)
    ELSE me

NextItem(me) ==
    IF Top(me).type \in {"list", "dict"}
    THEN Call(me, IF Top(me).type = "list" THEN "list_next" ELSE "dict_next", Stale, 0)
    ELSE me

pop_stack(me) ==
    LET left == Leave(me) IN IF me.d = 0 THEN left ELSE NextItem([left EXCEPT !.d = @ - 1])

parse_digit(current_value, c) == (c - CharZero) + current_value * 10

start_dict(me) ==
    LET f == [Top(me) EXCEPT !.type = "dict"]
    IN  push_stack(Call(SetTop(me, f), "dict_enter", f.key, 0), "keylen")

start_list(me) ==
    LET f == [Top(me) EXCEPT !.type = "list"] IN Call(SetTop(me, f), "list_enter", f.key, 0)

start_str(me, c) == SetTop(me, [Top(me) EXCEPT !.type = "strlen", !.len = parse_digit(@, c)])

\* BENCODE_TOK_NONE and BENCODE_TOK_DICT_VAL: the first character of a value, whose
\* frame is there
StartValue(me, c) ==
    CASE c = CharI -> SetTop(me, [Top(me) EXCEPT !.type = "int"])
      [] c = CharD -> start_dict(me)
      [] c = CharL -> start_list(me)
      [] OTHER   -> start_str(me, c)

\* BENCODE_TOK_LIST
ReadList(me, c) == IF c = CharE THEN pop_stack(me) ELSE StartValue(push_stack(me, "none"), c)

ReadInt(me, c) ==
    IF c = CharE THEN pop_stack(Call(me, "hit_int", Top(me).key, Top(me).intval))
    ELSE SetTop(me, [Top(me) EXCEPT !.intval = parse_digit(@, c)])

\* Mutation: an empty string waits for a first character.
MutEmptyWaits(me, c) ==
    IF c = Colon THEN SetTop(me, [Top(me) EXCEPT !.type = "str"])
    ELSE SetTop(me, [Top(me) EXCEPT !.len = parse_digit(@, c)])

ReadStrLen(me, c) ==
    IF c # Colon THEN SetTop(me, [Top(me) EXCEPT !.len = parse_digit(@, c)])
    ELSE IF Top(me).len = 0 THEN pop_stack(Call(me, "hit_str", Top(me).key, <<>>))
    ELSE SetTop(me, [Top(me) EXCEPT !.type = "str"])

ReadStr(me, c) ==
    LET f == [Top(me) EXCEPT !.str = Append(@, c)]
    IN  IF Len(f.str) = f.len THEN pop_stack(Call(SetTop(me, f), "hit_str", f.key, f.str))
        ELSE SetTop(me, f)

ReadKeyLen(me, c) ==
    CASE c = Colon -> SetTop(me, [Top(me) EXCEPT !.type = "key"])
      [] c = CharE -> pop_stack(me)
      [] OTHER   -> SetTop(me, [Top(me) EXCEPT !.len = parse_digit(@, c)])

\* BENCODE_TOK_DICT: the end, or the first digit of a key
ReadDict(me, c) ==
    IF c = CharE THEN pop_stack(me) ELSE ReadKeyLen(push_stack(me, "keylen"), c)

ReadKey(me, c) ==
    LET f == [Top(me) EXCEPT !.str = Append(@, c)]
    IN  SetTop(me, IF Len(f.str) = f.len THEN Frame("val", f.str) ELSE f)

process_tok(me, c) ==
    CASE Top(me).type = "list"            -> ReadList(me, c)
      [] Top(me).type \in {"none", "val"} -> StartValue(me, c)
      [] Top(me).type = "int"             -> ReadInt(me, c)
      [] Top(me).type = "strlen"          -> ReadStrLen(me, c)
      [] Top(me).type = "str"             -> ReadStr(me, c)
      [] Top(me).type = "dict"            -> ReadDict(me, c)
      [] Top(me).type = "keylen"          -> ReadKeyLen(me, c)
      [] Top(me).type = "key"             -> ReadKey(me, c)

-----------------------------------------------------------------------------
(* The encoder.  open is the stack of containers not closed: their type, the *)
(* key of the item being written in a dictionary, and the number of items.   *)
(* text is what is written and not yet read, due the calls it stands for.    *)

Digit(n) == CharZero + n

LenDigits(n) == IF n < 10 THEN <<Digit(n)>> ELSE <<Digit(n \div 10), Digit(n % 10)>>

Number(ds) == FoldLeft(parse_digit, 0, ds)

\* A value that is not in a dictionary has no key; the reader passes a stale one
KeyOf(open) == IF open = <<>> \/ Last(open).type = "list" THEN Stale ELSE Last(open).key

\* The item is complete: the container it is in goes on to the next one
After1(open) ==
    IF open = <<>> THEN <<>>
    ELSE <<<<IF Last(open).type = "list" THEN "list_next" ELSE "dict_next", Stale, 0>>>>

Counted(open) ==
    IF open = <<>> THEN <<>>
    ELSE [open EXCEPT ![Len(open)] = [@ EXCEPT !.items = @ + 1, !.key = Stale]]

\* A value may be written: not in a dictionary before its key
WantsValue(a) ==
    IF a.open = <<>> THEN ~a.done ELSE Last(a.open).type = "list" \/ Last(a.open).key # Stale

Write(a, text, due, open) ==
    [a EXCEPT !.text = text, !.due = @ \o due, !.open = open, !.tokens = @ + 1,
              !.done = (open = <<>>)]

WriteInt(a, ds) ==
    Write(a, <<CharI>> \o ds \o <<CharE>>,
          <<<<"hit_int", KeyOf(a.open), Number(ds)>>>> \o After1(a.open), Counted(a.open))

WriteStr(a, s) ==
    Write(a, LenDigits(Len(s)) \o <<Colon>> \o s,
          <<<<"hit_str", KeyOf(a.open), s>>>> \o After1(a.open), Counted(a.open))

WriteOpen(a, type) ==
    Write(a, <<IF type = "list" THEN CharL ELSE CharD>>,
          <<<<IF type = "list" THEN "list_enter" ELSE "dict_enter", KeyOf(a.open), 0>>>>,
          Append(a.open, [type |-> type, key |-> Stale, items |-> 0]))

WriteKey(a, s) ==
    [a EXCEPT !.text = LenDigits(Len(s)) \o <<Colon>> \o s, !.tokens = @ + 1,
              !.open[Len(a.open)].key = s]

WriteEnd(a) ==
    LET outer == Front(a.open)
    IN  Write(a, <<CharE>>,
              <<<<IF Last(a.open).type = "list" THEN "list_leave" ELSE "dict_leave",
                  KeyOf(outer), 0>>>> \o After1(outer), Counted(outer))

BencodeInit ==
    /\ subject = "bencode"
    /\ obj = bencode_new(BencodeDepth)
    /\ abs = [text |-> <<>>, due |-> <<>>, open |-> <<>>, tokens |-> 0, done |-> FALSE]

\* The next call of bencode_dispatch_from_buffer goes on where the last one stopped
BencodeRead ==
    /\ abs.text # <<>>
    /\ Becomes(process_tok(obj, Head(abs.text)), [abs EXCEPT !.text = Tail(@)])

BencodeWrite ==
    /\ abs.text = <<>>
    /\ abs.tokens < BencodeTokens
    /\ \/ WantsValue(abs) /\ \E ds \in BencodeInts : Becomes(obj, WriteInt(abs, ds))
       \/ WantsValue(abs) /\ \E s \in BencodeStrs : Becomes(obj, WriteStr(abs, s))
       \/ /\ WantsValue(abs)
          /\ Len(abs.open) < BencodeDepth
          /\ \E type \in {"list", "dict"} : Becomes(obj, WriteOpen(abs, type))
       \/ /\ abs.open # <<>> /\ ~WantsValue(abs)
          /\ \E s \in BencodeStrs \ {<<>>} : Becomes(obj, WriteKey(abs, s))
       \/ /\ abs.open # <<>>
          /\ \/ Last(abs.open).type = "list"
             \/ Last(abs.open).key = Stale /\ Last(abs.open).items > 0
          /\ Becomes(obj, WriteEnd(abs))

BencodeNext == subject = "bencode" /\ (BencodeRead \/ BencodeWrite)

\* A call is the one due; for an item of a list any key will do
SameCall(call, due) ==
    call[1] = due[1] /\ call[3] = due[3] /\ (due[2] = Stale \/ call[2] = due[2])

\* Whenever all that was written is read, the reader has made exactly the calls it
\* stands for, in order: every container entered is left, every item of a dictionary
\* comes with its own key also after a nested container, digits of lengths and integers
\* add up, characters of a string are never taken for tokens.
BencodeExact ==
    (subject = "bencode" /\ abs.text = <<>>) =>
        /\ Len(obj.calls) = Len(abs.due)
        /\ \A i \in DOMAIN abs.due : SameCall(obj.calls[i], abs.due[i])
=============================================================================
