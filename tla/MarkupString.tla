---------------------------- MODULE MarkupString ----------------------------
(***************************************************************************)
(* A markup string of mudcore: plain text, the tags that its source opened *)
(* and, for every character, an entry of idx.  decode_markup reads the     *)
(* source one character at a time; each step below is one turn of its      *)
(* loop.  A tag is START, a type, a text and END; a text that begins with  *)
(* a slash closes.                                                         *)
(*                                                                         *)
(* Markup objects are shared between strings: tags is the heap, and a tag  *)
(* is named by its index there.  A color tag's codes are checked by a      *)
(* member function called through a null pointer (nothing ever allocates   *)
(* the AnsiData); it reads no member, and in an unchecked build it does    *)
(* what is written, which is what is modelled.                             *)
(***************************************************************************)
EXTENDS Integers, SequencesExt

CONSTANTS Char,     \* characters, with "START", "END", "/", "!", " ", "p"
          Letters,  \* those of them that are lower-case letters
          Sources,  \* the strings that are decoded
          Repeated, \* bound: those that are decoded among other calls,
                    \* where the rest are by themselves
          Plains,   \* the strings that are appended or made without markup
          MaxOps    \* bound: calls in one behaviour

None == 0

ASSUME MarkupAssumption ==
  /\ {"START", "END", "/", "!", " ", "p"} \subseteq Char
  /\ Letters \subseteq Char
  /\ Sources \subseteq Seq(Char) /\ Plains \subseteq Seq(Char)
  /\ MaxOps \in Nat

VARIABLES str,      \* the string that is worked on
          saved,    \* a copy of it that was made earlier
          tags,     \* every Markup object
          pc,       \* "ready", "decode", or "undefined" for good
          state,    \* decode_markup's state, 0 .. 4
          unread,   \* what decode_markup has yet to read
          tag,      \* its locals
          mstack,
          current,
          outcome,  \* how the last call ended, if it was decode_markup
          mark,     \* history: tags there were when it began
          stale,    \* history: tags the string had but did not clear
          ops       \* calls so far

objectVars  == <<str, saved, tags>>
decoderVars == <<state, unread, tag, mstack, current>>
historyVars == <<mark, stale, ops>>
vars == <<objectVars, pc, decoderVars, outcome, historyVars>>

Text == Seq(Char \cup {"ERROR"})

Tag == [type : {"Color", "MXP"}, parent : Nat, start_text : Seq(Char),
        end_text : Seq(Char), enclosing : Nat, mark : Nat]

Entry == [markup : {None}, char : Char \cup {"ERROR"}]

(* written is a history: a character was changed through operator[], which *)
(* hands out a reference into the text.                                    *)
String == [text : Text, source : Seq(Char), markup : Seq(Nat),
           idx : Seq(Entry), written : BOOLEAN]

TypeOK ==
  /\ str \in String /\ saved \in String
  /\ tags \in Seq(Tag)
  /\ pc \in {"ready", "decode", "undefined"}
  /\ state \in 0 .. 4
  /\ unread \in Seq(Char)
  /\ tag \in Char
  /\ mstack \in Seq(Nat)
  /\ current \in Nat
  /\ outcome \in {"none", "decoded", "rejected", "threw"}
  /\ mark \in Nat /\ stale \in Seq(Nat) /\ ops \in 0 .. MaxOps

Plain(s) == [i \in DOMAIN s |-> [markup |-> None, char |-> s[i]]]

Empty == [text |-> << >>, source |-> << >>, markup |-> << >>, idx |-> << >>,
          written |-> FALSE]

Init ==
  /\ str = Empty /\ saved = Empty /\ tags = << >>
  /\ pc = "ready" /\ state = 0 /\ unread = << >> /\ tag = "p"
  /\ mstack = << >> /\ current = None
  /\ outcome = "none"
  /\ mark = 0 /\ stale = << >> /\ ops = 0

-----------------------------------------------------------------------------
(* The calls that a program makes on strings.                              *)

MayCall == pc = "ready" /\ ops < MaxOps

Call == MayCall /\ ops' = ops + 1

Edit ==
  /\ Call
  /\ outcome' = "none"
  /\ UNCHANGED <<tags, pc, decoderVars, mark, stale>>

(* MarkupString(const std::string &)                                       *)
MakePlain(s) ==
  /\ Edit
  /\ str' = [text |-> s, source |-> s, markup |-> << >>, idx |-> Plain(s),
             written |-> FALSE]
  /\ UNCHANGED saved

(* operator+= of plain characters, which leaves the source alone.          *)
AppendPlain(s) ==
  /\ Edit
  /\ str' = [str EXCEPT !.text = @ \o s, !.idx = @ \o Plain(s)]
  /\ UNCHANGED saved

(* A character is assigned through operator[]: idx keeps the old one.      *)
WriteChar(i, c) ==
  /\ Edit
  /\ i \in DOMAIN str.text
  /\ str' = [str EXCEPT !.text[i] = c, !.written = TRUE]
  /\ UNCHANGED saved

(* The copy constructor; the tags are shared.                              *)
Copy ==
  /\ Edit
  /\ saved' = str
  /\ UNCHANGED str

(* operator+= of the copy; operator+ does the same to a clone.             *)
AppendSaved ==
  /\ Edit
  /\ str' = [text    |-> str.text \o saved.text,
             source  |-> str.source \o saved.source,
             markup  |-> str.markup \o saved.markup,
             idx     |-> str.idx \o saved.idx,
             written |-> str.written \/ saved.written]
  /\ UNCHANGED saved

Clear ==
  /\ Edit
  /\ str' = Empty
  /\ UNCHANGED saved

-----------------------------------------------------------------------------
(* decode_markup.  What the string held goes only if it held text.         *)

(* A call of decode_markup.                                                *)
CallDecode(src) ==
  /\ MayCall
  /\ src \in Repeated \/ ops = 0
  /\ ops' = IF src \in Repeated THEN ops + 1 ELSE MaxOps

(* Mutated form of Decode: goes on in the tag that an earlier call was in. *)
DecodeInTag(src) ==
  /\ CallDecode(src)
  /\ str' = IF str.idx # << >> THEN [Empty EXCEPT !.source = src]
                               ELSE [str EXCEPT !.source = src]
  /\ pc' = "decode" /\ state' = 0 /\ unread' = src
  /\ mstack' = << >> /\ UNCHANGED current
  /\ outcome' = "none"
  /\ mark' = Len(tags)
  /\ stale' = IF str.idx # << >> THEN << >> ELSE str.markup
  /\ UNCHANGED <<saved, tags, tag>>

Decode(src) ==
  /\ CallDecode(src)
  /\ str' = IF str.idx # << >> THEN [Empty EXCEPT !.source = src]
                               ELSE [str EXCEPT !.source = src]
  /\ pc' = "decode" /\ state' = 0 /\ unread' = src
  /\ mstack' = << >> /\ current' = None
  /\ outcome' = "none"
  /\ mark' = Len(tags)
  /\ stale' = IF str.idx # << >> THEN << >> ELSE str.markup
  /\ UNCHANGED <<saved, tags, tag>>

(* The decoder takes the next character, which it finds in this state.     *)
Take(s, now, next) ==
  /\ pc = "decode" /\ unread # << >> /\ state = now
  /\ s = Head(unread)
  /\ unread' = Tail(unread) /\ state' = next
  /\ UNCHANGED <<saved, historyVars>>

Goes == UNCHANGED <<pc, outcome>>

(* It returns or throws in the middle of the source.                       *)
Ends(how) == pc' = "ready" /\ outcome' = how

TakeChar(s) ==
  /\ s # "START" /\ Take(s, 0, 0)
  /\ str' = [str EXCEPT !.text = Append(@, s),
                        !.idx = Append(@, [markup |-> None, char |-> s])]
  /\ Goes /\ UNCHANGED <<tags, tag, mstack, current>>

TakeStart(s) ==
  /\ s = "START" /\ Take(s, 0, 1)
  /\ Goes /\ UNCHANGED <<str, tags, tag, mstack, current>>

(* Mutated form of TakeType: gives up a tag that ends at once.             *)
TakeTypeOrEnd(s) ==
  /\ Take(s, 1, IF s = "END" THEN 0 ELSE 2)
  /\ tag' = s
  /\ Goes /\ UNCHANGED <<str, tags, mstack, current>>

TakeType(s) ==
  /\ Take(s, 1, 2)
  /\ tag' = s
  /\ Goes /\ UNCHANGED <<str, tags, mstack, current>>

(* The first character of the text decides; it may be END itself.          *)
OpenTag(s) ==
  /\ s # "/" /\ Take(s, 2, 3)
  /\ LET new == Len(tags) + 1
     IN  /\ tags' = Append(tags,
                      [type       |-> IF tag = "p" THEN "MXP" ELSE "Color",
                       parent     |-> current,
                       start_text |-> <<s>>,
                       end_text   |-> << >>,
                       enclosing  |-> IF mstack = << >> THEN None
                                      ELSE Last(mstack),
                       mark       |-> mark])
         /\ str' = [str EXCEPT !.markup = Append(@, new)]
         /\ current' = new
         /\ mstack' = Append(mstack, new)
  /\ Goes /\ UNCHANGED tag

OpenText(s) ==
  /\ s # "END" /\ Take(s, 3, 3)
  /\ tags' = [tags EXCEPT ![Last(str.markup)].start_text = Append(@, s)]
  /\ Goes /\ UNCHANGED <<str, tag, mstack, current>>

OpenEnd(s) ==
  /\ s = "END" /\ Take(s, 3, 0)
  /\ Goes /\ UNCHANGED <<str, tags, tag, mstack, current>>

(* Mutated form of CloseTag: goes on in a state that the loop has not.     *)
CloseTagPast(s) ==
  /\ s = "/" /\ Take(s, 2, 5)
  /\ Goes /\ UNCHANGED <<str, tags, tag, mstack, current>>

CloseTag(s) ==
  /\ s = "/" /\ Take(s, 2, 4)
  /\ Goes /\ UNCHANGED <<str, tags, tag, mstack, current>>

(* The text of a closing tag goes to the innermost open tag; there may be  *)
(* none, and mstack.back() is undefined.                                   *)
CloseText(s) ==
  /\ s # "END" /\ Take(s, 4, 4)
  /\ IF mstack = << >>
     THEN pc' = "undefined" /\ UNCHANGED <<tags, outcome>>
     ELSE /\ tags' = [tags EXCEPT ![Last(mstack)].end_text = Append(@, s)]
          /\ Goes
  /\ UNCHANGED <<str, tag, mstack, current>>

-----------------------------------------------------------------------------
(* parse_markup: behind any slashes, exclamation marks and spaces comes    *)
(* nothing or one code that is all of the rest.  Of the codes, the letters *)
(* are modelled: letters and spaces that end in a letter.                  *)
Separators == {"/", "!", " "}

IsCode(s) ==
  /\ s # << >>
  /\ \A i \in DOMAIN s : s[i] \in Letters \cup {" "}
  /\ Last(s) \in Letters

IsAnsi(s) ==
  \E n \in 0 .. Len(s) :
    /\ \A i \in 1 .. n : s[i] \in Separators
    /\ n < Len(s) => s[n + 1] \notin Separators
    /\ n = Len(s) \/ IsCode(SubSeq(s, n + 1, Len(s)))

Validate(t) == t.type = "MXP" \/ IsAnsi(t.start_text)

ErrorText == <<"ERROR">>

(* Mutated form of Reject: leaves idx as it is.                            *)
RejectKeepingIdx ==
  /\ str' = [str EXCEPT !.text = ErrorText, !.markup = << >>,
                        !.written = FALSE]
  /\ mstack' = << >>
  /\ Ends("rejected") /\ UNCHANGED current

Reject ==
  /\ str' = [str EXCEPT !.text = ErrorText, !.markup = << >>,
                        !.idx = Plain(ErrorText), !.written = FALSE]
  /\ mstack' = << >>
  /\ Ends("rejected") /\ UNCHANGED current

(* Mutated form of Pop: takes the top twice.                               *)
PopTwice ==
  /\ mstack # << >>
  /\ current' = Last(mstack)
  /\ mstack' = IF Len(mstack) > 1 THEN Front(Front(mstack)) ELSE << >>
  /\ Goes /\ UNCHANGED str

(* Mutated form of Pop: what was current stays current.                    *)
PopStaying ==
  /\ mstack # << >>
  /\ mstack' = Front(mstack)
  /\ Goes /\ UNCHANGED <<str, current>>

(* "pop up a depth level."                                                 *)
Pop ==
  /\ mstack # << >>
  /\ current' = Last(mstack)
  /\ mstack' = Front(mstack)
  /\ Goes /\ UNCHANGED str

(* The end of a closing tag: the tag that is current is checked, not the   *)
(* one that is closed.  Without a current one, current.value() throws.     *)
CloseEnd(s) ==
  /\ s = "END" /\ Take(s, 4, 0)
  /\ \/ /\ current = None
        /\ Ends("threw") /\ UNCHANGED <<str, mstack, current>>
     \/ /\ current # None /\ ~Validate(tags[current])
        /\ Reject
     \/ /\ current # None /\ Validate(tags[current])
        /\ \/ Pop
           \/ /\ mstack = << >> /\ pc' = "undefined"
              /\ UNCHANGED <<str, mstack, current, outcome>>
  /\ UNCHANGED <<tags, tag>>

(* The whole source has been read, whatever it left open.                  *)
Decoded ==
  /\ pc = "decode" /\ unread = << >>
  /\ Ends("decoded")
  /\ UNCHANGED <<objectVars, decoderVars, historyVars>>

-----------------------------------------------------------------------------
CallStep ==
  \/ \E s \in Plains : MakePlain(s) \/ AppendPlain(s)
  \/ \E i \in DOMAIN str.text, c \in Letters : WriteChar(i, c)
  \/ Copy \/ AppendSaved \/ Clear
  \/ MayCall /\ \E src \in Sources : Decode(src)

DecodeStep ==
  \/ \E s \in Char :
       \/ TakeChar(s) \/ TakeStart(s) \/ TakeType(s)
       \/ OpenTag(s) \/ OpenText(s) \/ OpenEnd(s)
       \/ CloseTag(s) \/ CloseText(s) \/ CloseEnd(s)
  \/ Decoded

Next == CallStep \/ DecodeStep

Spec == Init /\ [][Next]_vars

-----------------------------------------------------------------------------
(* A source read as a sequence of elements, without the decoder: a         *)
(* character, or a tag up to the first END behind the first character of   *)
(* its text, or up to the end of the source.                               *)
EndOf(s, i) ==
  LET ends == {j \in i + 3 .. Len(s) : s[j] = "END"}
  IN  IF ends = {} THEN Len(s) + 1
                   ELSE CHOOSE j \in ends : \A k \in ends : j <= k

ElementAt(s, i) ==
  IF s[i] # "START"
  THEN [kind |-> "char", type |-> "", text |-> <<s[i]>>]
  ELSE [kind |-> IF s[i + 2] = "/" THEN "close" ELSE "open",
        type |-> s[i + 1],
        text |-> SubSeq(s, i + 2, EndOf(s, i) - 1)]

ElementsFrom(s) ==
  LET from[i \in 1 .. Len(s) + 2] ==
        IF i > Len(s) \/ (s[i] = "START" /\ i + 2 > Len(s))
        THEN << >>
        ELSE <<ElementAt(s, i)>>
               \o from[IF s[i] # "START" THEN i + 1 ELSE EndOf(s, i) + 1]
  IN  from

Elements(s) == ElementsFrom(s)[1]

(* How many of the first n elements are of this kind.                      *)
CountOf(elements, n, kind) ==
  Cardinality({i \in 1 .. n : elements[i].kind = kind})

(* How many tags are open behind the first n elements.                     *)
Depth(elements, n) ==
  CountOf(elements, n, "open") - CountOf(elements, n, "close")

(* Element j closes the tag that element i opens: it is the first one      *)
(* behind that leaves the tag.                                             *)
Closes(elements, j, i) ==
  /\ elements[i].kind = "open" /\ elements[j].kind = "close" /\ i < j
  /\ Depth(elements, j) < Depth(elements, i)
  /\ \A m \in i .. j - 1 : Depth(elements, m) >= Depth(elements, i)

(* The tag that was opened or closed last before element j is that of      *)
(* element i.                                                              *)
LastTagBefore(elements, j, i) ==
  \E k \in i .. j - 1 :
    /\ \/ k = i /\ elements[i].kind = "open"
       \/ Closes(elements, k, i)
    /\ \A m \in k + 1 .. j - 1 : elements[m].kind = "char"

(* The text and its idx always belong together, whatever was decoded,      *)
(* rejected, appended or cleared: one entry for each character, and for    *)
(* the same character unless operator[] was written through.               *)
Paired(s) ==
  /\ Len(s.idx) = Len(s.text)
  /\ ~s.written => \A i \in 1 .. Len(s.text) : s.idx[i].char = s.text[i]

TextMatchesIdx == Paired(str) /\ Paired(saved)

(* What decode_markup accepts, it strips of its tags and of nothing else.  *)
TagsAreStripped ==
  outcome = "decoded" =>
    LET elements == Elements(str.source)
    IN  str.text = FlattenSeq([i \in DOMAIN elements |->
                                 IF elements[i].kind = "char"
                                 THEN elements[i].text ELSE << >>])

(* decode_markup throws, or leaves the vector's bounds, only on a source   *)
(* that somewhere has closed more tags than it has opened.                 *)
FailsOnlyUnbalanced ==
  outcome = "threw" \/ pc = "undefined" =>
    LET elements == Elements(str.source)
    IN  \E n \in 1 .. Len(elements) :
          CountOf(elements, n, "close") > CountOf(elements, n, "open")

(* At the end of a closing tag the codes that are checked are those of the *)
(* tag that was opened or closed last before it: of the tag it closes if   *)
(* that has no tags inside, else of the last one inside.  A source is      *)
(* rejected for such codes that are wrong, and accepted only if there are  *)
(* none.  So the codes of a tag around others are checked one closing tag  *)
(* late, and those of an outermost one around others never.                *)
WrongCodes(e) == e.kind = "open" /\ e.type # "p" /\ ~IsAnsi(e.text)

RejectedForCodes ==
  LET elements == Elements(str.source)
      Fails(j) == /\ elements[j].kind = "close"
                  /\ \E i \in DOMAIN elements :
                       LastTagBefore(elements, j, i) /\ WrongCodes(elements[i])
  IN  /\ outcome = "rejected" => \E j \in DOMAIN elements : Fails(j)
      /\ outcome = "decoded" =>
           \A j \in DOMAIN elements :
             j < Len(elements) \/ state = 0 => ~Fails(j)

(* The tags of an accepted source are all there, in order, and none from   *)
(* before, except those of a source that had no text, which nothing        *)
(* cleared; and none is the child of a tag of another source.              *)
MarkupOfSource ==
  /\ outcome = "decoded" =>
       str.markup = stale \o [i \in 1 .. Len(tags) - mark |-> mark + i]
  /\ \A t \in DOMAIN tags :
       tags[t].parent # None => tags[t].parent > tags[t].mark

(* "pop up a depth level.": a tag's parent is the one that encloses it.    *)
ParentEncloses == \A t \in DOMAIN tags : tags[t].parent = tags[t].enclosing

=============================================================================
