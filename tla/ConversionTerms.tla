-------------------------- MODULE ConversionTerms --------------------------
(***************************************************************************)
(* The terms in which ConversionProofs speaks of the conversions: what a   *)
(* text is made of and where its parts are, one step of each recursive     *)
(* function, and what a reader keeps of the attributes it was given.       *)
(***************************************************************************)
EXTENDS MCConversions

-----------------------------------------------------------------------------
(* Numbers *)

Less == {ss \in Nat \X Nat : ss[1] < ss[2]}

-----------------------------------------------------------------------------
(* Powers of two: the recursive function exists *)

\* f has the powers of two up to the n-th.
Doubles(f, n) == /\ f \in [0..n -> Nat] /\ f[0] = 1
                 /\ \A i \in 1..n : f[i] = 2 * f[i - 1]

-----------------------------------------------------------------------------
(* Recursive functions of Json *)

\* A function may be defined by recursion along a rank: what it is at x, H[x],
\* looks only at values of a lower rank.
Recursive(D, S, N, r, H) ==
  /\ S # {} /\ N \in Nat /\ r \in [D -> 0..N]
  /\ \A x \in D : \A f \in [D -> S] : H[x][f] \in S
  /\ \A x \in D : \A f, g \in [D -> S] :
       (\A y \in D : r[y] < r[x] => f[y] = g[y]) => H[x][f] = H[x][g]

-----------------------------------------------------------------------------
(* The text of pieces *)

TextOf(pieces) == FlattenSeq([i \in DOMAIN pieces |-> pieces[i].text])

\* Pieces whose text and final 0 have room in what they ask for.
Pieces == {p \in [need : Nat, text : Seq(Byte), nul : 0..1] : Len(p.text) + p.nul <= p.need + 1}

-----------------------------------------------------------------------------
(* A text in another *)

Occurs(t, at, w) == at + Len(w) <= Len(t) + 1 /\ \A i \in 1..Len(w) : t[at + i - 1] = w[i]

\* Where a flattened sequence occurs each part has its place, one after the other.
LaidOut(t, seqs, at, pos) ==
  /\ pos \in [1..(Len(seqs) + 1) -> Nat \ {0}]
  /\ pos[1] = at /\ pos[Len(seqs) + 1] = at + Len(FlattenSeq(seqs))
  /\ \A i \in 1..Len(seqs) : /\ Occurs(t, pos[i], seqs[i])
                            /\ pos[i + 1] = pos[i] + Len(seqs[i])

-----------------------------------------------------------------------------
(* Printing a string *)

Escapes(s) == [i \in DOMAIN s |-> Escaped(s[i])]

-----------------------------------------------------------------------------
(* Trees *)

Elements(S) == Seq([key : {NoKey}, val : S])
Members(S)  == Seq([key : Seq(Byte), val : S])

\* The printer of a level, given that of the level below.
Level(format, n, inside) ==
  [node \in Tree[n] |-> print_value(node, format, CJSON_NESTING_LIMIT - n, inside)]

\* Pieces given by their index, with their texts
TextsAre(n, ps, x) ==
  /\ n \in Nat /\ ps = [i \in 1..n |-> ps[i]] /\ x = [i \in 1..n |-> x[i]]
  /\ \A i \in 1..n : ps[i] \in Seq(Pieces) /\ TextOf(ps[i]) = x[i]

-----------------------------------------------------------------------------
(* Printing an array *)

Comma(format) == IF format THEN <<44, 32>> ELSE <<44>>

ArrayPieces(kids, format, inside) ==
  [i \in 1..Len(kids) |->
     inside[kids[i].val]
     \o IF i < Len(kids) THEN Piece(Len(Comma(format)) + 1, Comma(format), 1) ELSE <<>>]

ArrayTexts(kids, format, inside) ==
  [i \in 1..Len(kids) |->
     TextOf(inside[kids[i].val]) \o IF i < Len(kids) THEN Comma(format) ELSE <<>>]

\* What is printed for an array: the texts of its elements between brackets
ArrayPrints(kids, format, inside) ==
  /\ print_array(kids, format, inside) \in Seq(Pieces)
  /\ ArrayTexts(kids, format, inside) \in Seq(Seq(Byte))
  /\ Len(ArrayTexts(kids, format, inside)) = Len(kids)
  /\ TextOf(print_array(kids, format, inside))
       = (<<91>> \o FlattenSeq(ArrayTexts(kids, format, inside))) \o <<93>>

StringText(s) == (<<Quote>> \o FlattenSeq(Escapes(s))) \o <<Quote>>

-----------------------------------------------------------------------------
(* Printing an object *)

Indent(format, k)  == IF format THEN Tabs(k) ELSE <<>>
Open(format)       == IF format THEN <<123, 10>> ELSE <<123>>
Colon(format)      == IF format THEN <<58, 9>> ELSE <<58>>
Stop(format, more) == (IF more THEN <<44>> ELSE <<>>) \o (IF format THEN <<10>> ELSE <<>>)

IndentPieces(format, k) == IF format THEN Piece(k, Tabs(k), 0) ELSE <<>>

ObjectPieces(kids, format, depth, inside) ==
  [i \in 1..Len(kids) |->
     IndentPieces(format, depth + 1)
     \o print_string(kids[i].key)
     \o Piece(Len(Colon(format)), Colon(format), 0)
     \o inside[kids[i].val]
     \o Piece(Len(Stop(format, i < Len(kids))) + 1, Stop(format, i < Len(kids)), 1)]

ObjectTexts(kids, format, depth, inside) ==
  [i \in 1..Len(kids) |->
     Indent(format, depth + 1)
     \o StringText(kids[i].key)
     \o Colon(format)
     \o TextOf(inside[kids[i].val])
     \o Stop(format, i < Len(kids))]

\* What is printed for an object: the texts of its members between braces
ObjectPrints(kids, format, depth, inside) ==
  /\ print_object(kids, format, depth, inside) \in Seq(Pieces)
  /\ ObjectTexts(kids, format, depth, inside) \in Seq(Seq(Byte))
  /\ Len(ObjectTexts(kids, format, depth, inside)) = Len(kids)
  /\ TextOf(print_object(kids, format, depth, inside))
       = (Open(format) \o FlattenSeq(ObjectTexts(kids, format, depth, inside)))
         \o (Indent(format, depth) \o <<125>>)

-----------------------------------------------------------------------------
(* Printing a tree *)

\* The printers of all levels
Printers(format, P) ==
  /\ \A root \in Tree[CJSON_NESTING_LIMIT] :
       print(root, format) = P[CJSON_NESTING_LIMIT][root]
  /\ \A n \in 0..CJSON_NESTING_LIMIT : \A node \in Tree[n] :
       /\ P[n][node] = print_value(node, format, CJSON_NESTING_LIMIT - n, P[n - 1])
       /\ P[n][node] \in Seq(Pieces)

-----------------------------------------------------------------------------
(* The buffer *)

Buffers == [offset : Nat, length : Nat, inside : {TRUE}]

-----------------------------------------------------------------------------
(* Reading a string *)

Octet == 0..255
Hex4  == {n \in Nat : n <= 65535}
Codes == {n \in Nat : n <= 1114111}
Quad(a, b, c, d) == 4096 * a + 256 * b + 16 * c + d

\* What one step over the bytes of a string passes and gives
OneStep(t, at, end, u) ==
  /\ u.out \in Seq(Octet)
  /\ \/ u.length = 0
     \/ u.length = 1 /\ t[at] # Backslash /\ u.out = <<t[at]>> /\ Len(u.out) = 1
     \/ u.length = 2 /\ t[at] = Backslash /\ Len(u.out) = 1
     \/ u.length = 6 /\ at + 6 <= end /\ Len(u.out) <= 3
     \/ u.length = 12 /\ at + 12 <= end /\ Len(u.out) <= 4

\* Two functions that agree wherever they agree below are the same.
Alike(D, N, r, f, g) ==
  /\ N \in Nat /\ r \in [D -> 0..N]
  /\ f = [x \in D |-> f[x]] /\ g = [x \in D |-> g[x]]
  /\ \A x \in D : (\A y \in D : r[y] < r[x] => f[y] = g[y]) => f[x] = g[x]

Ends == [at : Nat, skipped : Nat]

\* One step of StringEnd
EndAt(t, at, end) ==
  IF at > Len(t) \/ (t[at] = Backslash /\ at = Len(t))
  THEN [at |-> 0, skipped |-> 0]
  ELSE IF t[at] = Quote THEN [at |-> at, skipped |-> 0]
  ELSE IF t[at] = Backslash THEN [end[at + 2] EXCEPT !.skipped = @ + 1]
  ELSE end[at + 1]

EndsOf(t, end) ==
  /\ end \in [1..(Len(t) + 2) -> Ends]
  /\ \A at \in 1..(Len(t) + 2) : end[at] = EndAt(t, at, end)
  /\ \A from : StringEnd(t, from) = end[from]

Readings == [right : BOOLEAN, out : Seq(Octet)]

\* One step of StringBytes
BytesAt(t, at, end, bytes) ==
  LET u == Unescaped(t, at, end)
  IN  IF at >= end THEN [right |-> TRUE, out |-> <<>>]
      ELSE IF u.length = 0 THEN [right |-> FALSE, out |-> <<>>]
      ELSE [bytes[at + u.length] EXCEPT !.out = u.out \o @]

BytesOf(t, end, bytes) ==
  /\ bytes \in [1..(end + 1) -> Readings]
  /\ \A at \in 1..(end + 1) : bytes[at] = BytesAt(t, at, end, bytes)
  /\ \A from : StringBytes(t, from, end) = bytes[from]

-----------------------------------------------------------------------------
(* The room of a string *)

\* From a place or the next one the end is found, after at least so many escapes.
Near(t, close, end, p, s) ==
  /\ s \in Int
  /\ \E q \in {p, p + 1} : /\ q \in 1..(Len(t) + 2)
                           /\ close[q].at = end /\ s <= close[q].skipped

EndStep(t, close, q) ==
  /\ q <= Len(t)
  /\ t[q] = Quote => close[q].at = q /\ close[q].skipped = 0
  /\ t[q] # Quote /\ t[q] = Backslash =>
       /\ q + 2 \in 1..(Len(t) + 2) /\ close[q].at = close[q + 2].at
       /\ close[q].skipped = close[q + 2].skipped + 1
  /\ t[q] # Quote /\ t[q] # Backslash =>
       /\ q + 1 \in 1..(Len(t) + 2) /\ close[q] = close[q + 1]

Found(X, t, close, end) ==
  t \in Seq(X) /\ EndsOf(t, close) /\ end \in 1..Len(t)

-----------------------------------------------------------------------------
(* Parsing *)

\* A text with its final 0
Ended(t) == t \in Seq(Octet) /\ Len(t) > 0 /\ t[Len(t)] = 0

\* What a parser gives for a position: a failure, or a node and a later position.
Gives(t, S, at, v) == v.at = 0 \/ (v.at \in (at + 1)..Len(t) /\ v.node \in S)

KeysOf(type) == IF type = "array" THEN {NoKey} ELSE Seq(Byte)
KidsOf(type, S) == [key : KeysOf(type), val : S]

\* The parser of the values one level deeper
Inside(t, S, inside) == \A p \in 1..Len(t) : Gives(t, S, p, inside[p])

Lists(t, type, S) == [at : 0..Len(t), kids : Seq(KidsOf(type, S))]

\* One step of parse_items
ItemsAt(t, at, type, inside, items) ==
  AddItem(t, parse_item(t, at, type, inside), type, items)

ItemsOf(t, type, inside, S, items) ==
  /\ items \in [1..Len(t) -> Lists(t, type, S)]
  /\ \A at \in 1..Len(t) : items[at] = ItemsAt(t, at, type, inside, items)
  /\ \A from : parse_items(t, from, type, inside) = items[from]

-----------------------------------------------------------------------------
(* The cases of a value *)

Null  == <<110, 117, 108, 108>>
False == <<102, 97, 108, 115, 101>>
True  == <<116, 114, 117, 101>>

ValueCase(t, at, depth, inside, v) ==
  \/ StartsWith(t, at, Null) /\ v = [at |-> at + 4, node |-> Node("null", <<>>, <<>>)]
  \/ StartsWith(t, at, False) /\ v = [at |-> at + 5, node |-> Node("false", <<>>, <<>>)]
  \/ StartsWith(t, at, True) /\ v = [at |-> at + 4, node |-> Node("true", <<>>, <<>>)]
  \/ t[at] = Quote /\ v = parse_string(t, at)
  \/ t[at] = 91 /\ depth < CJSON_NESTING_LIMIT /\ v = parse_group(t, at, "array", inside)
  \/ t[at] = 123 /\ depth < CJSON_NESTING_LIMIT /\ v = parse_group(t, at, "object", inside)
  \/ v = Fail

ValueIs(t, at, depth, inside, v) ==
  /\ StartsWith(t, at, Null) => v = [at |-> at + 4, node |-> Node("null", <<>>, <<>>)]
  /\ StartsWith(t, at, False) => v = [at |-> at + 5, node |-> Node("false", <<>>, <<>>)]
  /\ StartsWith(t, at, True) => v = [at |-> at + 4, node |-> Node("true", <<>>, <<>>)]
  /\ t[at] = Quote => v = parse_string(t, at)
  /\ t[at] = 91 /\ depth < CJSON_NESTING_LIMIT => v = parse_group(t, at, "array", inside)
  /\ t[at] = 123 /\ depth < CJSON_NESTING_LIMIT => v = parse_group(t, at, "object", inside)

\* The parser of a level, given that of the level below.
ParseLevel(t, n, inside) ==
  [at \in DOMAIN t |-> parse_value(t, at, CJSON_NESTING_LIMIT - n, inside)]

Parsers(t, P) ==
  /\ \A from : parse(t, from) = P[CJSON_NESTING_LIMIT][from]
  /\ \A n \in 0..CJSON_NESTING_LIMIT :
       /\ \A at \in 1..Len(t) : P[n][at] = parse_value(t, at, CJSON_NESTING_LIMIT - n, P[n - 1])
       /\ Inside(t, Tree[n], P[n])

\* The text that is parsed
CText(text) == CString(text) \o <<0>>

Start(t) == Skip(t, IF Len(t) >= 5 /\ StartsWith(t, 1, <<239, 187, 191>>) THEN 4 ELSE 1)

-----------------------------------------------------------------------------
(* The tree of a message *)

\* The three fields with their names
Field(fields, i) == [key |-> Keys[i], val |-> CreateString(fields[i])]

-----------------------------------------------------------------------------
(* A printed string is read as it was *)

Units(c) == [length |-> Len(Escaped(c)), out |-> <<c>>]

\* What is printed for a byte is read as that byte, and is no end of the string.
EscapeKept(t, at, end, c) ==
  /\ Unescaped(t, at, end) = Units(c)
  /\ \A close : EndsOf(t, close) => close[at].at = close[at + Len(Escaped(c))].at

\* What is put between two bytes
Between(a, F, b) == (<<a>> \o F) \o <<b>>

BetweenPlaces(t, at, a, F, b, e) ==
  /\ t[at] = a /\ Occurs(t, at + 1, F) /\ t[e] = b
  /\ e \in (at + 1)..Len(t) /\ e + 1 \in (at + 2)..Len(t)
  /\ Len(Between(a, F, b)) = (e + 1) - at

\* The escapes of a string in a text: their places, the closing quote, and what
\* the two passes over the string find from each place on.
Escaping(t, s, pos, e) ==
  /\ Ended(t) /\ s \in Seq(Byte) /\ e \in 1..Len(t) /\ t[e] = Quote
  /\ pos \in [1..(Len(s) + 1) -> Nat \ {0}] /\ pos[Len(s) + 1] = e
  /\ \A i \in 1..Len(s) : /\ Occurs(t, pos[i], Escaped(s[i]))
                         /\ pos[i + 1] = pos[i] + Len(Escaped(s[i]))

\* What a parser gives for a text at a position: the node and the position after the text.
Is(t, at, text, node, v) ==
  /\ v = [at |-> at + Len(text), node |-> node]
  /\ Len(text) \in Nat /\ at + Len(text) \in (at + 1)..Len(t)

-----------------------------------------------------------------------------
(* The items of a group *)

\* The items of a text, one after the other: each is read from q[i] on as a
\* child, up to the comma or bracket at c[i].
Chain(t, type, inside, kids, q, c) ==
  /\ \A i \in 1..Len(kids) :
       /\ q[i] \in 1..Len(t) /\ c[i] > 0
       /\ parse_item(t, q[i], type, inside) = [at |-> c[i], kid |-> kids[i]]
       /\ i < Len(kids) => t[c[i]] = 44 /\ q[i + 1] = c[i] + 1
  /\ t[c[Len(kids)]] = Close(type)

More(r, k) == [r EXCEPT !.kids = <<k>> \o @]

\* The bytes a value begins with: n, t, f, ", [ and {
Firsts == {110, 116, 102, 34, 91, 123}

\* What the printer of a level writes for a node, the parser of the level reads.
ReadBack(t, S, print1, parse1) ==
  \A node \in S : \A at \in Nat \ {0} :
    Occurs(t, at, TextOf(print1[node])) =>
      Is(t, at, TextOf(print1[node]), node, parse1[at]) /\ t[at] \in Firsts

\* Nothing but blanks from q up to p
Gap(t, q, p) == q \in 1..p /\ \A i \in q..(p - 1) : t[i] <= 32

-----------------------------------------------------------------------------
(* A printed array is parsed to itself *)

\* The elements of an array laid out in a text: the value of each and its end
ArrayLaid(t, kids, format, S, g, inside, pos, e) ==
  /\ Ended(t) /\ format \in BOOLEAN /\ \A v \in S : g[v] \in Seq(Pieces)
  /\ ReadBack(t, S, g, inside) /\ kids \in Elements(S)
  /\ \E at : LaidOut(t, ArrayTexts(kids, format, g), at, pos)
  /\ pos[Len(kids) + 1] = e /\ e \in 1..Len(t) /\ t[e] = 93

After(g, kids, pos, i) == pos[i] + Len(TextOf(g[kids[i].val]))

\* The children of a group in a text: item i at pos[i], what follows it at c[i],
\* the closing bracket at e.
Items(t, type, inside, kids, pos, c, e) ==
  /\ e \in 1..Len(t) /\ t[e] = Close(type)
  /\ \A i \in 1..Len(kids) :
       /\ pos[i] \in 1..Len(t) /\ c[i] \in 1..Len(t)
       /\ \A q : Gap(t, q, pos[i]) =>
                   /\ parse_item(t, q, type, inside) = [at |-> c[i], kid |-> kids[i]]
                   /\ t[Skip(t, q)] # Close(type)
       /\ i < Len(kids) => t[c[i]] = 44 /\ Gap(t, c[i] + 1, pos[i + 1])
       /\ i = Len(kids) => c[i] = e

\* What is known of an element laid out in a text
ElementAt(t, kids, inside, pos, e, i, c) ==
  /\ pos[i] \in 1..Len(t) /\ t[pos[i]] \in Firsts
  /\ inside[pos[i]] = [at |-> c, node |-> kids[i].val] /\ c \in (pos[i] + 1)..Len(t)
  /\ i < Len(kids) => t[c] = 44 /\ Gap(t, c + 1, pos[i + 1])
  /\ i = Len(kids) => c = e
  /\ kids[i] = [key |-> NoKey, val |-> kids[i].val]

-----------------------------------------------------------------------------
(* A printed object is parsed to itself *)

\* A text of blanks, and a byte with blanks after it
Blanks(w) == w \in Seq(Octet) /\ \A i \in 1..Len(w) : w[i] <= 32
Marked(w, x) == w \in Seq(Octet) /\ Len(w) > 0 /\ w[1] = x /\ \A i \in 2..Len(w) : w[i] <= 32

MarkPlaces(t, p, w, x) == t[p] = x /\ Gap(t, p + 1, p + Len(w))

\* Five texts, one after the other
FivePlaces(t, p, a, b, c, d, e) ==
  /\ Occurs(t, p, a) /\ Occurs(t, p + Len(a), b) /\ Occurs(t, (p + Len(a)) + Len(b), c)
  /\ Occurs(t, ((p + Len(a)) + Len(b)) + Len(c), d)
  /\ Occurs(t, (((p + Len(a)) + Len(b)) + Len(c)) + Len(d), e)
  /\ Len(a \o b \o c \o d \o e) = (((Len(a) + Len(b)) + Len(c)) + Len(d)) + Len(e)

\* The members of an object laid out in a text
ObjectLaid(t, kids, format, depth, S, g, inside, pos, e) ==
  /\ Ended(t) /\ format \in BOOLEAN /\ depth \in Nat /\ \A v \in S : g[v] \in Seq(Pieces)
  /\ ReadBack(t, S, g, inside) /\ kids \in Members(S)
  /\ \E at : LaidOut(t, ObjectTexts(kids, format, depth, g), at, pos)
  /\ Gap(t, pos[Len(kids) + 1], e) /\ e \in 1..Len(t) /\ t[e] = 125

\* A member whose name is at b, its colon at n, its value from w up to v
MemberAt(t, kid, inside, b, n, w, v) ==
  /\ b \in 1..Len(t) /\ t[b] = Quote /\ parse_string(t, b) = [at |-> n, node |-> CreateString(kid.key)]
  /\ n \in 1..Len(t) /\ t[n] = 58 /\ Gap(t, n + 1, w) /\ w \in 1..Len(t) /\ t[w] \in Firsts
  /\ inside[w] = [at |-> v, node |-> kid.val] /\ v \in 1..Len(t)
  /\ kid = [key |-> kid.key, val |-> kid.val]

MemberPlaces(t, kids, inside, pos, i, b, v) ==
  /\ Gap(t, pos[i], b) /\ \E n, w : MemberAt(t, kids[i], inside, b, n, w, v)
  /\ i < Len(kids) => t[v] = 44 /\ Gap(t, v + 1, pos[i + 1])
  /\ i = Len(kids) => Gap(t, v, pos[i + 1])

NameAt(format, depth, pos, i) == pos[i] + Len(Indent(format, depth + 1))
ValueEnd(format, depth, kids, g, pos, i) ==
  ((NameAt(format, depth, pos, i) + Len(StringText(kids[i].key))) + Len(Colon(format)))
  + Len(TextOf(g[kids[i].val]))

\* The texts of a member and their places
MemberText(t, kids, format, depth, S, g, pos, i, kid) ==
  /\ kid = [key |-> kid.key, val |-> kid.val] /\ kid.key \in Seq(Byte) /\ kid.val \in S
  /\ pos[i] \in Nat \ {0} /\ pos[i + 1] \in Nat \ {0}
  /\ \E a, b, c, d, s \in Seq(Octet) :
       /\ a = Indent(format, depth + 1) /\ b = StringText(kid.key) /\ c = Colon(format)
       /\ d = TextOf(g[kid.val]) /\ s = Stop(format, i < Len(kids))
       /\ FivePlaces(t, pos[i], a, b, c, d, s)
       /\ pos[i + 1] = pos[i] + Len(a \o b \o c \o d \o s)

-----------------------------------------------------------------------------
(* A printed tree is parsed to itself *)

\* The byte order mark that may begin a text
Utf8Mark == <<239, 187, 191>>

-----------------------------------------------------------------------------
(* Files *)

\* One step of a loop of the readers: over the characters of a number, the
\* attributes of a view, the elements in it, the views of a file, the
\* attributes of a sound, the sounds of a file.
LoopStep(loop, s, n, x) ==
  IF loop = "digit"
  THEN IF s[n] \in DOMAIN Digit THEN 10 * x + Digit[s[n]] ELSE x
  ELSE IF loop = "viewAttr" THEN XmlAttrParse(x, s[n])
  ELSE IF loop = "kid" THEN PushChildViewName(x, s[n])
  ELSE IF loop = "view" THEN AddView(x, ViewOf(s[n]))
  ELSE IF loop = "soundAttr" THEN paraseAttr(x, s[n])
  ELSE AddSound(x, SoundOf(s[n].attrs))

LoopOf(loop, s, base, L, f) ==
  f = [n \in 0..L |-> IF n = 0 THEN base ELSE LoopStep(loop, s, n, f[n - 1])]

\* The values a loop takes
Takes(loop, s, base, L, f) ==
  f[0] = base /\ \A n \in 1..L : f[n] = LoopStep(loop, s, n, f[n - 1])

\* What XmlParse gives, if the elements make this map
ParsedAs(file, map) ==
  IF LoadFile(file) THEN [exit |-> FALSE, views |-> map] ELSE [exit |-> TRUE, views |-> Empty]

-----------------------------------------------------------------------------
(* The last attribute of a name *)

Lasts(attrs, n, name) == {i \in 1..n : attrs[i].name = name}
Newest(T) == CHOOSE i \in T : \A j \in T : i >= j
LastAt(attrs, n, name, default) ==
  IF Lasts(attrs, n, name) = {} THEN default ELSE attrs[Newest(Lasts(attrs, n, name))].value

-----------------------------------------------------------------------------
(* The attributes of a view *)

ViewFields ==
  {"name", "pid", "extra", "repeat", "loop", "prority", "type", "notifyType", "mutex",
   "power", "audiobind", "least", "children"}

\* A view with these five values, whatever the others are
ViewWith(info, name, pid, loop, children) ==
  /\ info = [f \in ViewFields |-> info[f]]
  /\ info["name"] = name /\ info["pid"] = pid /\ info["extra"] = pid
  /\ info["loop"] = loop /\ info["children"] = children

\* The number of the last loop, or -1
LoopAt(attrs, n) ==
  IF Lasts(attrs, n, "loop") = {} THEN -1 ELSE GetIntNum(LastAt(attrs, n, "loop", <<>>))

NameOf(attrs) == LastOf(attrs, "name", <<>>)
PidOf(attrs)  == LastOf(attrs, "pid", <<>>)

NamesIn(e) == FlattenSeq([k \in DOMAIN e.kids |-> NameIn(e.kids[k])])

\* An element of a file
Elemental(X, e) == e.attrs \in Seq(X) /\ e.kids \in Seq(Seq(X))

-----------------------------------------------------------------------------
(* The map of a file *)

InsertedNow(r, map, name, v) ==
  /\ DOMAIN r = DOMAIN map \cup {name}
  /\ name \notin DOMAIN map => r[name] = v
  /\ \A x \in DOMAIN map : r[x] = map[x]

\* Those that are good are inserted one after the other.
Inserts(f, L, good, name, info) ==
  /\ L \in Nat /\ good \subseteq 1..L
  /\ f[0] = Empty
  /\ \A n \in 1..L : f[n] = IF n \in good THEN Inserted(f[n - 1], name[n], info[n]) ELSE f[n - 1]

FirstOf(good, name, i) == \A j \in good : name[j] = name[i] => i <= j

FirstsIn(map, good, name, info) ==
  /\ DOMAIN map = {name[i] : i \in good}
  /\ \A i \in good : FirstOf(good, name, i) => map[name[i]] = info[i]

-----------------------------------------------------------------------------
(* The numbers of a loop *)

NumbersAre(f, v, L) ==
  \A n \in 1..L : f[n] = IF v[n] \in DOMAIN Digit THEN 10 * f[n - 1] + Digit[v[n]] ELSE f[n - 1]

IsFifteen(v) == Len(v) \in {2, 3} /\ v[1] = "1" /\ v[2] = "5" /\ (Len(v) = 3 => v[3] = "s")
IsOne(v)     == Len(v) \in {1, 2} /\ v[Len(v)] = "1" /\ (Len(v) = 2 => v[1] = "-")

\* The two loops of the files
LoopSounding == <<"1", "5", "s">>
LoopForever  == <<"-", "1">>

-----------------------------------------------------------------------------
(* The attributes of a sound *)

SoundFields ==
  {"name", "chime_id", "freq", "priority", "power", "loop", "playmode", "stopmode",
   "selfcheck", "ontime", "oninterrupt"}

\* A sound with this name and loop, whatever the others are
SoundWith(sound, name, loop) ==
  sound = [f \in SoundFields |-> sound[f]] /\ sound["name"] = name /\ sound["loop"] = loop

\* The number of the last loop of a sound, or -1
SoundLoopAt(attrs, n) ==
  IF Lasts(attrs, n, "loop") = {} THEN -1 ELSE atoi(LastAt(attrs, n, "loop", <<>>))

-----------------------------------------------------------------------------
(* The last loop *)

\* The loops of a file are those of the two forms.
LoopsKnown(X) == \A a \in X : a.name = "loop" => a.value \in {LoopSounding, LoopForever}

ViewLoop(attrs) ==
  CASE LastOf(attrs, "loop", <<>>) = <<>>         -> -1
    [] LastOf(attrs, "loop", <<>>) = <<"-", "1">> -> 1
    [] OTHER -> 15

SoundLoop(attrs) == IF LastOf(attrs, "loop", <<>>) = <<"1", "5", "s">> THEN 15 ELSE -1

-----------------------------------------------------------------------------
(* The two files *)

\* The files of these attributes
FilesOf(X) == Seq([attrs : Seq(X), kids : Seq(Seq(X))])

\* The view of an element
ViewIs(e, view) ==
  /\ view.pid = LastOf(e.attrs, "pid", <<>>)
  /\ view.loop = ViewLoop(e.attrs)
  /\ view.children = FlattenSeq([k \in DOMAIN e.kids |-> NameIn(e.kids[k])])

\* Each good element has its view in the map.
ViewsInserted(file, L, f, good, name, info) ==
  /\ Inserts(f, L, good, name, info)
  /\ \A i \in 1..L : name[i] = NameOf(file[i].attrs) /\ info[i] = ViewOf(file[i])
                     /\ (i \in good <=> Complete(file[i].attrs)) /\ ViewIs(file[i], info[i])

\* The map of the sounds of these elements
SoundsOf(file, map) ==
  LET Called(i) == LastOf(file[i].attrs, "name", <<>>)
      IsFirst(i) == \A j \in DOMAIN file : Called(j) = Called(i) => i <= j
  IN  /\ DOMAIN map = {Called(i) : i \in DOMAIN file}
      /\ \A i \in {j \in DOMAIN file : IsFirst(j)} : map[Called(i)].loop = SoundLoop(file[i].attrs)

\* The elements that are read
Kept(file) == {i \in DOMAIN file : \A j \in 1..(i - 1) : ~Repeats(file[j])}

-----------------------------------------------------------------------------
(* Pages *)

\* The text of the first n bytes
Spelled(text, b, n) ==
  /\ text \in Seq(Int) /\ Len(text) = 2 * n
  /\ \A i \in 1..n : 16 * HexOf(text[2 * i - 1]) + HexOf(text[2 * i]) = b[i]

\* The bytes of a node
DataOf(node) == IF node.view \in DoorViews THEN Flags(node.doors) ELSE <<IF node.on THEN 1 ELSE 0>>
SizeOf(node) == IF node.view \in DoorViews THEN 6 ELSE 1

\* A page is read as its type, the number of its view, the number of its bytes and these.
PageBytes(bytes, node) ==
  /\ DOMAIN bytes = 1..(3 + SizeOf(node)) /\ Len(bytes) = 3 + SizeOf(node)
  /\ bytes[2] = HMI_MGS_WARNING_ID[node.view] /\ bytes[3] = SizeOf(node)
  /\ \A i \in 1..SizeOf(node) : bytes[3 + i] = DataOf(node)[i]

\* The parts of a node
NodeOK(n) ==
  /\ n.view \in Views /\ n.doors \in SUBSET Doors
  /\ n.view \in DoorViews => (n.on <=> n.doors # {})
  /\ n.view \notin DoorViews => n.doors = {}

-----------------------------------------------------------------------------
(* The machine that makes the inputs *)

\* A gauge below 10000.0000
Below(n) == n \in Nat /\ n < 100000000

\* The kinds of an input as the theorems take them
InputOK ==
  /\ kind = "message" => input \in [1..3 -> Seq(Byte)]
  /\ kind = "text" => input \in Seq(Seq(Octet))
  /\ kind = "float" => input \in Words
  /\ kind = "gauge" => Below(input)
  /\ kind = "file" => input \in FilesOf(ViewParts)
  /\ kind = "node" => input \in Nodes

=============================================================================
