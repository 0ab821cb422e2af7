-------------------------------- MODULE Json --------------------------------
(***************************************************************************)
(* The JSON texts of the messages between the processes: JsonHandler.cpp   *)
(* and the part of cJSON.cpp it uses, the printer with its growing buffer  *)
(* and the parser.                                                         *)
(*                                                                         *)
(* A text is a sequence of bytes.  A C string is a text without the byte   *)
(* 0, which ends it.  A node of the tree is a record of its type, its      *)
(* string and its children, each with a key; an element of an array has no *)
(* key.  Numbers are left out: no message has one, and the texts that are  *)
(* parsed here never begin a value with a digit or a minus.                *)
(***************************************************************************)
EXTENDS Integers, Sequences, SequencesExt

CONSTANT CJSON_NESTING_LIMIT  \* 1000 in cJSON.h

ASSUME NestingLimit == CJSON_NESTING_LIMIT \in Nat \ {0}

Quote     == 34
Backslash == 92
NoKey     == <<0>>

Node(type, str, kids) == [type |-> type, str |-> str, kids |-> kids]
CreateString(s) == Node("string", s, <<>>)
CreateObject    == Node("object", <<>>, <<>>)
AddItemToObject(object, key, item) ==
  [object EXCEPT !.kids = Append(@, [key |-> key, val |-> item])]

\* The bytes of a C string, without its final 0
Byte == 1..255

\* The nodes without children, and those whose children are among the nodes
Leaves ==
  [type : {"null", "true", "false"}, str : {<<>>}, kids : {<<>>}]
  \cup [type : {"string"}, str : Seq(Byte), kids : {<<>>}]
Groups(nodes) ==
  [type : {"array"}, str : {<<>>}, kids : Seq([key : {NoKey}, val : nodes])]
  \cup [type : {"object"}, str : {<<>>}, kids : Seq([key : Seq(Byte), val : nodes])]

\* The trees of at most n arrays and objects in one another
Tree[n \in 0..CJSON_NESTING_LIMIT] ==
  Leaves \cup IF n = 0 THEN {} ELSE Groups(Tree[n - 1])

\* The bytes up to the first 0.
CString(bytes) ==
  LET zeros == {i \in DOMAIN bytes : bytes[i] = 0}
  IN  IF zeros = {} THEN bytes
      ELSE SubSeq(bytes, 1, (CHOOSE i \in zeros : \A j \in zeros : i <= j) - 1)

Lower(c) == IF c \in 65..90 THEN c + 32 ELSE c
SameKey(k, l) ==
  /\ k # NoKey /\ l # NoKey /\ Len(k) = Len(l)
  /\ \A i \in DOMAIN k : Lower(k[i]) = Lower(l[i])

\* The first child of that name, whatever the case of its letters.
GetObjectItem(object, name) ==
  SelectInSeq(object.kids, LAMBDA kid : SameKey(name, kid.key))

-----------------------------------------------------------------------------
(* Printing.  A text is printed in pieces: need bytes are asked for of the *)
(* buffer, then the piece is written, in some places with a final 0.       *)

Piece(need, text, nul) == <<[need |-> need, text |-> text, nul |-> nul]>>

\* \b \f \n \r \t \" \\
Short == [c \in {8, 12, 10, 13, 9, 34, 92} |->
            CASE c = 8 -> 98 [] c = 12 -> 102 [] c = 10 -> 110
              [] c = 13 -> 114 [] c = 9 -> 116 [] OTHER -> c]
HexDigit(n) == IF n < 10 THEN 48 + n ELSE 87 + n

Escaped(c) ==
  IF c \in DOMAIN Short THEN <<Backslash, Short[c]>>
  ELSE IF c < 32
  THEN <<Backslash, 117, 48, 48, HexDigit(c \div 16), HexDigit(c % 16)>>
  ELSE <<c>>

Sum(counts) ==
  LET upto[n \in 0..Len(counts)] == IF n = 0 THEN 0 ELSE upto[n - 1] + counts[n]
  IN  upto[Len(counts)]

\* Mutant: five more for every byte below 32 are forgotten.
OutputLengthShort(s) == Sum([i \in DOMAIN s |-> IF s[i] \in DOMAIN Short THEN 2 ELSE 1])

\* What print_string_ptr counts before it writes.
OutputLength(s) ==
  Sum([i \in DOMAIN s |-> IF s[i] \in DOMAIN Short THEN 2
                          ELSE IF s[i] < 32 THEN 6 ELSE 1])

print_string(s) ==
  Piece(OutputLength(s) + 3,
        <<Quote>> \o FlattenSeq([i \in DOMAIN s |-> Escaped(s[i])]) \o <<Quote>>, 1)

Tabs(n) == [i \in 1..n |-> 9]

\* The functions below are called with the printer of the nodes one level deeper.
print_array(kids, format, inside) ==
  LET comma  == IF format THEN <<44, 32>> ELSE <<44>>
      one(i) == inside[kids[i].val]
                \o IF i < Len(kids) THEN Piece(Len(comma) + 1, comma, 1) ELSE <<>>
  IN  Piece(1, <<91>>, 0)
      \o FlattenSeq([i \in DOMAIN kids |-> one(i)])
      \o Piece(2, <<93>>, 1)

print_object(kids, format, depth, inside) ==
  LET open    == IF format THEN <<123, 10>> ELSE <<123>>
      colon   == IF format THEN <<58, 9>> ELSE <<58>>
      stop(i) == (IF i < Len(kids) THEN <<44>> ELSE <<>>)
                 \o (IF format THEN <<10>> ELSE <<>>)
      one(i)  == (IF format THEN Piece(depth + 1, Tabs(depth + 1), 0) ELSE <<>>)
                 \o print_string(kids[i].key)
                 \o Piece(Len(colon), colon, 0)
                 \o inside[kids[i].val]
                 \o Piece(Len(stop(i)) + 1, stop(i), 1)
  IN  Piece(Len(open) + 1, open, 0)
      \o FlattenSeq([i \in DOMAIN kids |-> one(i)])
      \o Piece(IF format THEN depth + 2 ELSE 2,
               (IF format THEN Tabs(depth) ELSE <<>>) \o <<125>>, 1)

print_value(node, format, depth, inside) ==
  CASE node.type = "null"   -> Piece(5, <<110, 117, 108, 108>>, 1)
    [] node.type = "true"   -> Piece(5, <<116, 114, 117, 101>>, 1)
    [] node.type = "false"  -> Piece(6, <<102, 97, 108, 115, 101>>, 1)
    [] node.type = "string" -> print_string(node.str)
    [] node.type = "array"  -> print_array(node.kids, format, inside)
    [] node.type = "object" -> print_object(node.kids, format, depth, inside)
    [] OTHER -> <<>>

\* The pieces of a whole tree, whose root has the depth 0
print(root, format) ==
  LET value[n \in 0..CJSON_NESTING_LIMIT] ==
        [node \in Tree[n] |->
           print_value(node, format, CJSON_NESTING_LIMIT - n, value[n - 1])]
  IN  value[CJSON_NESTING_LIMIT][root]

Printed(root, format) ==
  LET pieces == print(root, format)
  IN  FlattenSeq([i \in DOMAIN pieces |-> pieces[i].text])

\* The length of the buffer after "ensure".
Ensured(length, offset, need) ==
  IF need + offset + 1 <= length THEN length ELSE (need + offset + 1) * 2

\* A buffer is its offset, its length, and whether every byte was written inside.
Write(buf, piece) ==
  LET length == Ensured(buf.length, buf.offset, piece.need)
      offset == buf.offset + Len(piece.text)
  IN  [offset |-> offset, length |-> length,
       inside |-> buf.inside /\ offset + piece.nul <= length]

Written(pieces) ==
  LET buf[n \in 0..Len(pieces)] ==
        IF n = 0 THEN [offset |-> 0, length |-> 0, inside |-> TRUE]
        ELSE Write(buf[n - 1], pieces[n])
  IN  buf[Len(pieces)]

-----------------------------------------------------------------------------
(* Parsing.  t is the text with its final 0, positions count from 1.  The  *)
(* result of a parser is the node and the position after it; position 0 is *)
(* a failure.                                                              *)

Fail == [at |-> 0, node |-> CreateObject]

\* Mutant: of the blanks, a tab is not passed over.
SkipNoTab(t, at) ==
  LET ink == {i \in at..Len(t) : t[i] > 32 \/ t[i] = 9}
  IN  IF ink = {} THEN Len(t) ELSE CHOOSE i \in ink : \A j \in ink : i <= j

\* Bytes up to 32 are blanks, the final 0 among them, but it is not passed.
Skip(t, at) ==
  LET ink == {i \in at..Len(t) : t[i] > 32}
  IN  IF ink = {} THEN Len(t) ELSE CHOOSE i \in ink : \A j \in ink : i <= j

StartsWith(t, at, word) == IsPrefix(word, SubSeq(t, at, Len(t)))

HexValue(c) ==
  CASE c \in 48..57  -> c - 48
    [] c \in 65..70  -> c - 55
    [] c \in 97..102 -> c - 87
    [] OTHER -> -1

Hex4Of(d) == IF \E i \in 0..3 : d[i] < 0 THEN 0
             ELSE 4096 * d[0] + 256 * d[1] + 16 * d[2] + d[3]

\* Four digits; anything else is taken for 0.
parse_hex4(t, at) == Hex4Of([i \in 0..3 |-> HexValue(t[at + i])])

Utf8(code) ==
  LET tail(unit) == 128 + ((code \div unit) % 64)
  IN  IF code < 128 THEN <<code>>
      ELSE IF code < 2048 THEN <<192 + code \div 64, tail(1)>>
      ELSE IF code < 65536 THEN <<224 + code \div 4096, tail(64), tail(1)>>
      ELSE <<240 + code \div 262144, tail(4096), tail(64), tail(1)>>

\* The bytes of one code or of a pair, and the length of the escape, 0 if it is
\* none.  A code of the upper half of a pair needs one of the lower half.
CodePoint(first, second, single, paired) ==
  LET bad == [length |-> 0, out |-> <<>>]
  IN  IF ~single \/ first \in 56320..57343 THEN bad
      ELSE IF first \in 55296..56319
      THEN IF paired /\ second \in 56320..57343
           THEN [length |-> 12,
                 out |-> Utf8(65536 + 1024 * (first % 1024) + (second % 1024))]
           ELSE bad
      ELSE [length |-> 6, out |-> Utf8(first)]

utf16_literal_to_utf8(t, at, end) ==
  CodePoint(parse_hex4(t, at + 2), parse_hex4(t, at + 8), end - at >= 6,
            end - at >= 12 /\ t[at + 6] = Backslash /\ t[at + 7] = 117)

Unescaped(t, at, end) ==
  LET c == t[at + 1]
  IN  IF t[at] # Backslash THEN [length |-> 1, out |-> <<t[at]>>]
      ELSE IF c = 117 THEN utf16_literal_to_utf8(t, at, end)
      ELSE IF c \in {Quote, Backslash, 47} THEN [length |-> 2, out |-> <<c>>]
      ELSE IF \E s \in DOMAIN Short : Short[s] = c
      THEN [length |-> 2, out |-> <<CHOOSE s \in DOMAIN Short : Short[s] = c>>]
      ELSE [length |-> 0, out |-> <<>>]

\* The position of the closing quote, 0 if there is none, and the number of
\* escapes before it.
StringEnd(t, from) ==
  LET end[at \in 1..(Len(t) + 2)] ==
        IF at > Len(t) \/ (t[at] = Backslash /\ at = Len(t))
        THEN [at |-> 0, skipped |-> 0]
        ELSE IF t[at] = Quote THEN [at |-> at, skipped |-> 0]
        ELSE IF t[at] = Backslash THEN [end[at + 2] EXCEPT !.skipped = @ + 1]
        ELSE end[at + 1]
  IN  end[from]

\* What is allocated for a string whose opening quote is at that position.
Allocated(at, close) == close.at - at - close.skipped

\* The bytes of a string up to its end, and whether every escape is right.
StringBytes(t, from, end) ==
  LET bytes[at \in 1..(end + 1)] ==
        LET u == Unescaped(t, at, end)
        IN  IF at >= end THEN [right |-> TRUE, out |-> <<>>]
            ELSE IF u.length = 0 THEN [right |-> FALSE, out |-> <<>>]
            ELSE [bytes[at + u.length] EXCEPT !.out = u.out \o @]
  IN  bytes[from]

parse_string(t, at) ==
  LET close == StringEnd(t, at + 1)
      bytes == StringBytes(t, at + 1, close.at)
  IN  IF t[at] # Quote \/ close.at = 0 \/ ~bytes.right THEN Fail
      ELSE [at |-> close.at + 1, node |-> CreateString(CString(bytes.out))]

Close(type) == IF type = "object" THEN 125 ELSE 93

\* The value of the member whose name was read
MemberValue(t, name, inside) ==
  LET colon == Skip(t, name.at)
  IN  IF name.at > 0 /\ t[colon] = 58 THEN inside[Skip(t, colon + 1)] ELSE Fail

\* The child and the position of what comes next
ItemOf(t, key, value) ==
  [at  |-> IF value.at = 0 THEN 0 ELSE Skip(t, value.at),
   kid |-> [key |-> key, val |-> value.node]]

\* An element of an array, or the name and the value of a member of an object;
\* inside parses a value one level deeper.
parse_item(t, at, type, inside) ==
  LET start == Skip(t, at)
      name  == parse_string(t, start)
  IN  IF type = "array" THEN ItemOf(t, NoKey, inside[start])
      ELSE ItemOf(t, name.node.str, MemberValue(t, name, inside))

\* An item, with those after a comma
AddItem(t, item, type, items) ==
  IF item.at > 0 /\ t[item.at] = 44
  THEN [items[item.at + 1] EXCEPT !.kids = <<item.kid>> \o @]
  ELSE IF item.at > 0 /\ t[item.at] = Close(type)
  THEN [at |-> item.at + 1, kids |-> <<item.kid>>]
  ELSE [at |-> 0, kids |-> <<>>]

\* All of them, from a position on to the bracket.
parse_items(t, from, type, inside) ==
  LET items[at \in DOMAIN t] == AddItem(t, parse_item(t, at, type, inside), type, items)
  IN  items[from]

Group(type, items) ==
  IF items.at = 0 THEN Fail ELSE [at |-> items.at, node |-> Node(type, <<>>, items.kids)]

\* parse_array and parse_object
parse_group(t, at, type, inside) ==
  LET start == Skip(t, at + 1)
  IN  IF t[start] = Close(type)
      THEN [at |-> start + 1, node |-> Node(type, <<>>, <<>>)]
      ELSE Group(type, parse_items(t, at + 1, type, inside))

parse_value(t, at, depth, inside) ==
  CASE StartsWith(t, at, <<110, 117, 108, 108>>) ->
         [at |-> at + 4, node |-> Node("null", <<>>, <<>>)]
    [] StartsWith(t, at, <<102, 97, 108, 115, 101>>) ->
         [at |-> at + 5, node |-> Node("false", <<>>, <<>>)]
    [] StartsWith(t, at, <<116, 114, 117, 101>>) ->
         [at |-> at + 4, node |-> Node("true", <<>>, <<>>)]
    [] t[at] = Quote -> parse_string(t, at)
    [] t[at] = 91 /\ depth < CJSON_NESTING_LIMIT  -> parse_group(t, at, "array", inside)
    [] t[at] = 123 /\ depth < CJSON_NESTING_LIMIT -> parse_group(t, at, "object", inside)
    [] OTHER -> Fail

\* The value that begins at a position, with the depth 0
parse(t, from) ==
  LET value[n \in 0..CJSON_NESTING_LIMIT] ==
        [at \in DOMAIN t |->
           parse_value(t, at, CJSON_NESTING_LIMIT - n, value[n - 1])]
  IN  value[CJSON_NESTING_LIMIT][from]

\* What comes after the value is not looked at.
Parse(text) ==
  LET t   == CString(text) \o <<0>>
      bom == Len(t) >= 5 /\ StartsWith(t, 1, <<239, 187, 191>>)
  IN  parse(t, Skip(t, IF bom THEN 4 ELSE 1))

-----------------------------------------------------------------------------
(* Messages, whose three fields have the names keyname1, keyname2, onoff   *)

CONSTANT Keys  \* the bytes of the three names

ASSUME ThreeKeys ==
  /\ Keys \in [1..3 -> Seq(Byte)]
  /\ \A i, j \in 1..3 : SameKey(Keys[i], Keys[j]) <=> i = j

Message(fields) ==
  LET With(root, i) == AddItemToObject(root, Keys[i], CreateString(fields[i]))
  IN  With(With(With(CreateObject, 1), 2), 3)

GetWarnSendData(fields) == Printed(Message(fields), FALSE)

\* The caller's text is left as it was where there is no string of that name.
GetJsonParse(root, key, old) ==
  LET i == GetObjectItem(root, key)
  IN  IF i = 0 \/ root.kids[i].val.type # "string" THEN old
      ELSE root.kids[i].val.str

WarnMsgParse(text, old) ==
  LET parsed == Parse(text)
  IN  IF parsed.at = 0 THEN old
      ELSE [i \in 1..3 |-> GetJsonParse(parsed.node, Keys[i], old[i])]

=============================================================================
