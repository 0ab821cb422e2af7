------------------------------- MODULE Config -------------------------------
(***************************************************************************)
(* What XmlManager.cpp makes of view.xml and readXmlFile.cpp of audio.xml. *)
(*                                                                         *)
(* A file is the sequence of the elements below its root, an element the   *)
(* sequence of its attributes, each a name and a value, and the sequence   *)
(* of its own elements, of which only the attributes count.  A value is a  *)
(* sequence of characters.                                                 *)
(***************************************************************************)
EXTENDS Integers, Sequences, SequencesExt

\* The value of a digit.
Digits10 == <<"0", "1", "2", "3", "4", "5", "6", "7", "8", "9">>
Digit    == [c \in Range(Digits10) |-> (CHOOSE n \in 1..10 : Digits10[n] = c) - 1]

Attribute(name, value) == [name |-> name, value |-> value]
Element(attrs, kids)   == [attrs |-> attrs, kids |-> kids]

\* The attributes before the first that has the name of an earlier one; that one
\* gives the earlier its value.
Repeated(attrs)  == {n \in DOMAIN attrs : \E i \in 1..(n - 1) : attrs[i].name = attrs[n].name}
FirstOfSet(set)  == CHOOSE n \in set : \A i \in set : n <= i
ReadAttributes(attrs) ==
  LET n == FirstOfSet(Repeated(attrs))
  IN  IF Repeated(attrs) = {} THEN attrs
      ELSE [i \in 1..(n - 1) |-> IF attrs[i].name = attrs[n].name THEN attrs[n] ELSE attrs[i]]

\* TinyXML stops at a repeated attribute: what it has read of the element and of
\* those before it stays, the elements in it and after it are missing.
BrokenKids(e) == {k \in DOMAIN e.kids : Repeated(e.kids[k]) # {}}
Broken(file)  == {i \in DOMAIN file : Repeated(file[i].attrs) # {} \/ BrokenKids(file[i]) # {}}
ReadElement(e) ==
  IF Repeated(e.attrs) # {} THEN Element(ReadAttributes(e.attrs), <<>>)
  ELSE IF BrokenKids(e) # {} THEN
         Element(e.attrs, [k \in 1..FirstOfSet(BrokenKids(e)) |-> ReadAttributes(e.kids[k])])
  ELSE e

\* Whether a file is read without an error, and what is read of it.
LoadFile(file)     == Broken(file) = {}
ElementsRead(file) ==
  IF LoadFile(file) THEN file
  ELSE [i \in 1..FirstOfSet(Broken(file)) |-> ReadElement(file[i])]

Empty == [name \in {} |-> <<>>]

\* The first of a name stays.
Inserted(map, name, info) ==
  [n \in DOMAIN map \cup {name} |-> IF n \in DOMAIN map THEN map[n] ELSE info]

\* Whatever is no digit is passed over, a sign too.
GetIntNum(value) ==
  LET num[n \in 0..Len(value)] ==
        IF n = 0 THEN 0
        ELSE IF value[n] \in DOMAIN Digit THEN 10 * num[n - 1] + Digit[value[n]]
        ELSE num[n - 1]
  IN  num[Len(value)]

\* The digits up to the first character that is none.
Leading(value) ==
  LET stops == {i \in DOMAIN value : value[i] \notin DOMAIN Digit}
  IN  IF stops = {} THEN value
      ELSE SubSeq(value, 1, (CHOOSE i \in stops : \A j \in stops : i <= j) - 1)

atoi(value) ==
  IF value # <<>> /\ value[1] = "-" THEN -GetIntNum(Leading(Tail(value)))
  ELSE GetIntNum(Leading(value))

-----------------------------------------------------------------------------
(* view.xml *)

NoView ==
  [name |-> <<>>, pid |-> <<>>, extra |-> <<>>, repeat |-> <<>>, loop |-> -1,
   prority |-> -1, type |-> <<>>, notifyType |-> <<>>, mutex |-> <<>>,
   power |-> <<>>, audiobind |-> <<>>, least |-> -1, children |-> <<>>]

\* The attributes of a view are spelled as in view.xml.
ViewTexts   == {"name", "repeat", "type", "notifyType", "mutex", "power", "audiobind"}
ViewNumbers == {"loop", "prority", "least"}

XmlAttrParse(info, attr) ==
  CASE attr.name = "pid" -> [info EXCEPT !.pid = attr.value, !.extra = attr.value]
    [] attr.name \in ViewTexts   -> [info EXCEPT ![attr.name] = attr.value]
    [] attr.name \in ViewNumbers -> [info EXCEPT ![attr.name] = GetIntNum(attr.value)]
    [] OTHER -> info

\* A view needs a name and a pid.
Named(info) == info.name # <<>> /\ info.extra # <<>>

ViewInfoOf(attrs) ==
  LET info[n \in 0..Len(attrs)] ==
        IF n = 0 THEN NoView ELSE XmlAttrParse(info[n - 1], attrs[n])
  IN  info[Len(attrs)]

PushChildViewName(info, kid) ==
  LET son == ViewInfoOf(kid)
  IN  IF Named(son) THEN [info EXCEPT !.children = Append(@, son.name)] ELSE info

\* The view of an element, with the names of the elements in it.
ViewOf(e) ==
  LET info[n \in 0..Len(e.kids)] ==
        IF n = 0 THEN ViewInfoOf(e.attrs) ELSE PushChildViewName(info[n - 1], e.kids[n])
  IN  info[Len(e.kids)]

AddView(map, info) == IF Named(info) THEN Inserted(map, info.name, info) ELSE map

\* Mutant: a view that comes twice is read from its last element.
XmlParseLast(file) ==
  LET map[n \in 0..Len(file)] ==
        IF n = 0 THEN Empty ELSE AddView(map[n - 1], ViewOf(Reverse(file)[n]))
  IN  IF LoadFile(file) THEN [exit |-> FALSE, views |-> map[Len(file)]]
      ELSE [exit |-> TRUE, views |-> Empty]

\* ViewService exits if its file has an error.
XmlParse(file) ==
  LET map[n \in 0..Len(file)] ==
        IF n = 0 THEN Empty ELSE AddView(map[n - 1], ViewOf(file[n]))
  IN  IF LoadFile(file) THEN [exit |-> FALSE, views |-> map[Len(file)]]
      ELSE [exit |-> TRUE, views |-> Empty]

-----------------------------------------------------------------------------
(* audio.xml *)

NoSound ==
  [name |-> <<>>, chime_id |-> <<>>, freq |-> <<>>, priority |-> -1, power |-> <<>>,
   loop |-> -1, playmode |-> <<>>, stopmode |-> <<>>, selfcheck |-> FALSE,
   ontime |-> -1, oninterrupt |-> TRUE]

SoundTexts == {"name", "chime_id", "freq", "power", "playmode", "stopmode"}

\* A sound is checked at the start only if its selfcheck is "delay", where the
\* comment of audio.xml has true and false.
paraseAttr(sound, attr) ==
  CASE attr.name \in SoundTexts -> [sound EXCEPT ![attr.name] = attr.value]
    [] attr.name = "priority"   -> [sound EXCEPT !.priority = GetIntNum(attr.value)]
    [] attr.name \in {"loop", "ontime"} -> [sound EXCEPT ![attr.name] = atoi(attr.value)]
    [] attr.name = "selfcheck"   -> [sound EXCEPT !.selfcheck = (attr.value = <<"delay">>)]
    [] attr.name = "oninterrupt" -> [sound EXCEPT !.oninterrupt = (attr.value = <<"true">>)]
    [] OTHER -> sound

SoundOf(attrs) ==
  LET sound[n \in 0..Len(attrs)] ==
        IF n = 0 THEN NoSound ELSE paraseAttr(sound[n - 1], attrs[n])
  IN  sound[Len(attrs)]

\* Also a sound without a name is kept.
AddSound(map, sound) == Inserted(map, sound.name, sound)

paraseNode(elements) ==
  LET map[n \in 0..Len(elements)] ==
        IF n = 0 THEN Empty ELSE AddSound(map[n - 1], SoundOf(elements[n].attrs))
  IN  map[Len(elements)]

\* AudioService takes no notice of an error.
paraseFile(file) == paraseNode(ElementsRead(file))

=============================================================================
