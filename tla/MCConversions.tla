--------------------------- MODULE MCConversions ----------------------------
(***************************************************************************)
(* The conversions of Json, Config and MCCodec on inputs that grow by one  *)
(* piece at a time.                                                        *)
(***************************************************************************)
EXTENDS Json, Config, MCCodec, FiniteSets

CONSTANTS MaxBytes,   \* bound: bytes of the three fields of a message
          MaxTokens,  \* bound: tokens of a JSON text
          MaxParts    \* bound: attributes and elements of a file

ASSUME ConversionBounds ==
  MaxBytes \in Nat /\ MaxTokens \in Nat /\ MaxParts \in Nat

KeyNames == <<<<107, 49>>, <<107, 50>>, <<111>>>>

\* " \ a u and bytes that are escaped or not ASCII
FieldBytes == {34, 92, 97, 117, 1, 10, 31, 200}

\* { } [ ] : , " \ a newline, "a", "a": "a":null null, \u0041, \u00e9, and the
\* halves of a pair
Tokens ==
  {<<b>> : b \in {123, 125, 91, 93, 58, 44, 34, 92, 97, 10}}
  \cup {<<34, 97, 34>>, <<34, 97, 34, 58>>, <<34, 97, 34, 58, 110, 117, 108, 108>>,
        <<110, 117, 108, 108>>, <<92, 117, 48, 48, 52, 49>>, <<92, 117, 48, 48, 101, 57>>,
        <<92, 117, 100, 56, 51, 100>>, <<92, 117, 100, 101, 48, 48>>}

\* { [ "
Openings == {<<123>>, <<91>>, <<34>>}

ViewParts ==
  {Attribute("name", <<"a">>), Attribute("name", <<"b">>), Attribute("pid", <<"p">>),
   Attribute("pid", <<"q">>), Attribute("loop", <<"1", "5", "s">>),
   Attribute("loop", <<"-", "1">>)}

First(k) ==
  CASE k = "message" -> <<<<>>, <<>>, <<>>>>
    [] k = "text"    -> <<>>
    [] k = "float"   -> [negative |-> FALSE, power |-> 0, fraction |-> 0]
    [] k = "gauge"   -> 0
    [] k = "node"    -> [view |-> "doorinfo", on |-> FALSE, doors |-> {}]
    [] k = "file"    -> <<>>

Kinds == {"message", "text", "float", "gauge", "node", "file"}

Init == kind \in Kinds /\ input = First(kind)

TypeByte ==
  /\ kind = "message"
  /\ Len(input[1]) + Len(input[2]) + Len(input[3]) < MaxBytes
  /\ \E i \in 1..3, b \in FieldBytes : input' = [input EXCEPT ![i] = Append(@, b)]

AddToken ==
  /\ kind = "text" /\ Len(input) < MaxTokens
  /\ \E t \in IF input = <<>> THEN Openings ELSE Tokens : input' = Append(input, t)

Parts(e) == Len(e.attrs) + FoldLeft(LAMBDA n, kid : n + 1 + Len(kid), 0, e.kids)

\* A new element, an attribute of the last one, or a new element or an
\* attribute in it.
AddPart ==
  LET n == Len(input)
      k == Len(input[n].kids)
  IN  /\ kind = "file"
      /\ FoldLeft(LAMBDA sum, e : sum + Parts(e), n, input) < MaxParts
      /\ \/ input' = Append(input, Element(<<>>, <<>>))
         \/ n > 0 /\ \E a \in ViewParts :
              input' = [input EXCEPT ![n].attrs = Append(@, a)]
         \/ n > 0 /\ input' = [input EXCEPT ![n].kids = Append(@, <<>>)]
         \/ n > 0 /\ k > 0 /\ \E a \in ViewParts :
              input' = [input EXCEPT ![n].kids[k] = Append(@, a)]

Next ==
  /\ UNCHANGED kind
  /\ \/ TypeByte
     \/ AddToken
     \/ NextWord
     \/ TypeDigit
     \/ ChangeNode
     \/ AddPart

Spec == Init /\ [][Next]_vars

-----------------------------------------------------------------------------
(* Properties *)

\* The receiver of a message reads the three texts its sender gave to
\* GetWarnSendData, whatever bytes they have and whatever it read before; and
\* what was parsed is printed so that it is parsed to the same tree, with and
\* without layout: no escape, pair or nesting is read in one way and written in
\* another.
TextsKept ==
  /\ kind = "message" =>
       \A text \in {GetWarnSendData(input)} :
         WarnMsgParse(text, <<<<120>>, <<120>>, <<120>>>>) = input
  /\ kind = "text" =>
       \A text \in {FlattenSeq(input)} : \A parsed \in {Parse(text)} :
         parsed.at > 0 =>
           \A again \in {Printed(parsed.node, format) : format \in BOOLEAN} :
             Parse(again).node = parsed.node

\* print_value never writes beyond the buffer it has asked for, final 0
\* included, though each place counts what it needs in its own way: neither for
\* a message nor for a tree that was parsed.  And what parse_string counts as
\* escapes before it reads them is enough for what it then writes, for every
\* quote that begins a string of the text.
BuffersKept ==
  LET Inside(node) == \A format \in BOOLEAN : Written(print(node, format)).inside
  IN  /\ kind = "message" => \A node \in {Message(input)} : Inside(node)
      /\ kind = "text" =>
           \A text \in {FlattenSeq(input)} :
             /\ \A parsed \in {Parse(text)} : parsed.at > 0 => Inside(parsed.node)
             /\ \A t \in {text \o <<0>>} : \A at \in DOMAIN t :
                  LET close == StringEnd(t, at + 1)
                  IN  t[at] = Quote /\ close.at > 0 =>
                        Len(StringBytes(t, at + 1, close.at).out) <= Allocated(at, close)

\* The value of the last attribute of that name, or the default.
LastOf(attrs, name, default) ==
  LET at == {i \in DOMAIN attrs : attrs[i].name = name}
  IN  IF at = {} THEN default
      ELSE attrs[CHOOSE i \in at : \A j \in at : i >= j].value

Complete(attrs) == LastOf(attrs, "name", <<>>) # <<>> /\ LastOf(attrs, "pid", <<>>) # <<>>

\* The attributes that have the name of an earlier one; those up to the first of
\* them.
Again(attrs) == {n \in DOMAIN attrs : \E i \in 1..(n - 1) : attrs[i].name = attrs[n].name}
Until(attrs) ==
  IF Again(attrs) = {} THEN attrs
  ELSE SubSeq(attrs, 1, CHOOSE n \in Again(attrs) : \A i \in Again(attrs) : n <= i)

\* An element that repeats an attribute, or has an element in it that does.
Repeats(e) == Again(e.attrs) # {} \/ \E k \in DOMAIN e.kids : Again(e.kids[k]) # {}

\* The name an element gives to the view it is in, if it is complete.
NameIn(attrs) == IF Complete(attrs) THEN <<LastOf(attrs, "name", <<>>)>> ELSE <<>>

\* ViewService exits exactly if an attribute is repeated.  Otherwise a view is
\* configured by the first complete element of its name, from that element's
\* attributes alone, with the default for one that is missing, and the names of
\* the complete elements in it.
ViewsRead ==
  LET parsed == XmlParse(input)
      map == parsed.views
      complete == {i \in DOMAIN input : Complete(input[i].attrs)}
      NameAt(i) == LastOf(input[i].attrs, "name", <<>>)
      IsFirst(i) == \A j \in complete : NameAt(j) = NameAt(i) => i <= j
  IN  /\ parsed.exit <=> \E i \in DOMAIN input : Repeats(input[i])
      /\ ~parsed.exit => DOMAIN map = {NameAt(i) : i \in complete}
      /\ ~parsed.exit => \A i \in {j \in complete : IsFirst(j)} :
           LET e    == input[i]
               view == map[NameAt(i)]
           IN  /\ view.pid = LastOf(e.attrs, "pid", <<>>)
               /\ view.loop = CASE LastOf(e.attrs, "loop", <<>>) = <<>>         -> -1
                                [] LastOf(e.attrs, "loop", <<>>) = <<"-", "1">> -> 1
                                [] OTHER -> 15
               /\ view.children = FlattenSeq([k \in DOMAIN e.kids |-> NameIn(e.kids[k])])

\* AudioService goes on without the elements after a repeated attribute.  A
\* sound is configured by the first element of its name, complete or not, from
\* its attributes up to a repeated one; a loop of -1, which is for ever, stays
\* -1.
SoundsRead ==
  LET map == paraseFile(input)
      kept == {i \in DOMAIN input : \A j \in 1..(i - 1) : ~Repeats(input[j])}
      NameAt(i) == LastOf(Until(input[i].attrs), "name", <<>>)
      IsFirst(i) == \A j \in kept : NameAt(j) = NameAt(i) => i <= j
  IN  /\ DOMAIN map = {NameAt(i) : i \in kept}
      /\ \A i \in {j \in kept : IsFirst(j)} :
           map[NameAt(i)].loop =
             IF LastOf(Until(input[i].attrs), "loop", <<>>) = <<"1", "5", "s">> THEN 15 ELSE -1

\* Both configuration files are read so, however often a name or an attribute
\* comes in them: an attribute that was pasted twice stops one service, and
\* silently takes the rest of its sounds from the other.
FilesRead == kind = "file" => ViewsRead /\ SoundsRead

=============================================================================
