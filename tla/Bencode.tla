------------------------------ MODULE Bencode -------------------------------
(***************************************************************************)
(* bencode.hpp: encode and decode.  A text is a sequence of characters; a  *)
(* parse starts at a position of the text, and is the set of the value     *)
(* and the position behind it, or {} when it throws.                       *)
(***************************************************************************)
EXTENDS Integers, SequencesExt

CONSTANTS
  Words,             \* bound: what texts are put together from
  MaxWords,          \* bound: the words of a text
  RECURSION_LIMIT,   \* RECURSION_LIMIT
  MAX_STRING_LENGTH  \* MAX_STRING_LENGTH

VARIABLES text, words

\* The characters, as they are ordered.
Chars == <<"+", "-", "0", "1", "2", ":", "d", "e", "i", "l">>
Rank(c) == CHOOSE k \in DOMAIN Chars : Chars[k] = c
Digit == [c \in {"0", "1", "2"} |-> Rank(c) - Rank("0")]
Sign == [c \in {"+", "-"} |-> IF c = "-" THEN -1 ELSE 1]

int(n) == [int |-> n]
str(s) == [str |-> s]
list(l) == [list |-> l]
dict(m) == [dict |-> m]

-----------------------------------------------------------------------------
(* encode_internal *)

\* The order of the keys in a BeDict.
Less(s, t) ==
  \/ IsStrictPrefix(s, t)
  \/ \E k \in 1 .. Len(s) : /\ k <= Len(t)
                            /\ SubSeq(s, 1, k - 1) = SubSeq(t, 1, k - 1)
                            /\ Rank(s[k]) < Rank(t[k])

RECURSIVE digits(_)
digits(n) == (IF n < 10 THEN <<>> ELSE digits(n \div 10)) \o <<ToString(n % 10)>>
decimal(n) == IF n < 0 THEN <<"-">> \o digits(-n) ELSE digits(n)

encode_str(s) == decimal(Len(s)) \o <<":">> \o s

RECURSIVE encode(_)
encode(v) ==
  CASE "int" \in DOMAIN v -> <<"i">> \o decimal(v.int) \o <<"e">>
    [] "str" \in DOMAIN v -> encode_str(v.str)
    [] "list" \in DOMAIN v ->
         <<"l">> \o FlattenSeq([k \in DOMAIN v.list |-> encode(v.list[k])]) \o <<"e">>
    [] "dict" \in DOMAIN v ->
         LET keys == SetToSortSeq(DOMAIN v.dict, Less)
         IN <<"d">>
            \o FlattenSeq([k \in DOMAIN keys |-> encode_str(keys[k]) \o encode(v.dict[keys[k]])])
            \o <<"e">>

-----------------------------------------------------------------------------
(* decode *)

Is(t, p, c) == p <= Len(t) /\ t[p] = c
IsDigit(t, p) == p <= Len(t) /\ t[p] \in DOMAIN Digit

\* iss >> number: a sign if there is one, and the digits that follow.
number(t, p) ==
  LET signed == p <= Len(t) /\ t[p] \in DOMAIN Sign
      from == IF signed THEN p + 1 ELSE p
      to == CHOOSE q \in from .. Len(t) + 1 :
              ~IsDigit(t, q) /\ \A k \in from .. q - 1 : IsDigit(t, k)
      value == FoldLeft(LAMBDA n, c : 10 * n + Digit[c], 0, SubSeq(t, from, to - 1))
  IN IF from = to THEN {} ELSE {<<IF signed THEN Sign[t[p]] * value ELSE value, to>>}

decodeInt(t, p) ==
  {<<int(n[1]), n[2] + 1>> : n \in {n \in number(t, p) : Is(t, n[2], "e")}}

\* Mutant: a string that ends with the text is taken to be cut.
decodeString_short(t, p) ==
  {<<str(SubSeq(t, n[2] + 1, n[2] + n[1])), n[2] + n[1] + 1>> :
     n \in {n \in number(t, p) : Is(t, n[2], ":") /\ n[2] + n[1] < Len(t)}}

\* The length is unsigned: a negative one is larger than any that is allowed.
decodeString(t, p) ==
  {<<str(SubSeq(t, n[2] + 1, n[2] + n[1])), n[2] + n[1] + 1>> :
     n \in {n \in number(t, p) : /\ Is(t, n[2], ":")
                                 /\ n[1] \in 0 .. MAX_STRING_LENGTH
                                 /\ n[2] + n[1] <= Len(t)}}

RECURSIVE decode_internal(_, _, _), decodeList(_, _, _, _), decodeDict(_, _, _, _)

\* From p on, after the elements of l; the same for the entries of m.
decodeList(t, p, l, depth) ==
  IF Is(t, p, "e") THEN {<<list(l), p + 1>>}
  ELSE UNION {decodeList(t, e[2], Append(l, e[1]), depth) : e \in decode_internal(t, p, depth)}

decodeDict(t, p, m, depth) ==
  IF Is(t, p, "e") THEN {<<dict(m), p + 1>>}
  ELSE UNION {UNION {LET key == k[1].str
                         put == [x \in DOMAIN m \cup {key} |-> IF x = key THEN e[1] ELSE m[x]]
                     IN decodeDict(t, e[2], put, depth)
                     : e \in decode_internal(t, k[2], depth)}
              : k \in decodeString(t, p)}

decode_internal(t, p, depth) ==
  IF depth > RECURSION_LIMIT THEN {}
  ELSE IF Is(t, p, "i") THEN decodeInt(t, p + 1)
  ELSE IF IsDigit(t, p) THEN decodeString(t, p)
  ELSE IF Is(t, p, "l") THEN decodeList(t, p + 1, <<>>, depth + 1)
  ELSE IF Is(t, p, "d") THEN decodeDict(t, p + 1, <<>>, depth + 1)
  ELSE {}

\* Mutant: what is behind the value is ignored.
decode_first(t) == {e[1] : e \in decode_internal(t, 1, 0)}

\* The value of the text, or {} when decode throws; the whole text is used.
decode(t) == {e[1] : e \in {e \in decode_internal(t, 1, 0) : e[2] = Len(t) + 1}}

-----------------------------------------------------------------------------
(* Texts *)

Init == text = <<>> /\ words = 0

Next == /\ words < MaxWords
        /\ words' = words + 1
        /\ \E w \in Words : text' = text \o w

-----------------------------------------------------------------------------
(* Properties *)

\* Values of at most two levels.
Plain == {int(n) : n \in -1 .. 1} \cup {str(s) : s \in {<<>>, <<"e">>, <<"1", ":">>}}
Keys == {<<>>, <<"e">>, <<"d", "e">>}
Built(vs) == {list(l) : l \in UNION {[1 .. n -> vs] : n \in 0 .. 2}}
             \cup {dict(m) : m \in UNION {[ks -> vs] : ks \in {k \in SUBSET Keys : k # Keys}}}
Values == Plain \cup Built(Plain) \cup {list(<<v>>) : v \in Built(Plain)}

\* Each value is decoded from its encoding (deeper values than the limit allows are
\* encoded too, and are not decoded): of every value and of each that a text gives.
EncodedIsDecoded ==
  \A v \in (IF words = 0 THEN Values ELSE decode(text)) : decode(encode(v)) = {v}

\* A text of which the end is missing is not decoded, whatever was cut off: a
\* reply of a tracker is used as a whole or not at all.
CutIsRefused ==
  decode(text) # {} => \A n \in 0 .. Len(text) - 1 : decode(SubSeq(text, 1, n)) = {}

-----------------------------------------------------------------------------
(* What the program relies on, and the model refutes *)

\* The info hash is the hash of encode(decode(info)) (torrent.cpp): of the text in
\* the file only when that is what encode would write.
ReencodingKeeps == \A v \in decode(text) : encode(v) = text

=============================================================================
