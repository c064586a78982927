------------------------- MODULE MarkupStringProofs -------------------------
(***************************************************************************)
(* Safety of markup strings, for every set of characters, every source and *)
(* every sequence of calls: text and idx belong together (IInv), the tags  *)
(* of a string are those of its source (MInv), and decode_markup agrees    *)
(* with Elements, the reading of a source as a whole (DInv).               *)
(***************************************************************************)
EXTENDS MarkupString, SequenceLemmas, FiniteSetTheorems

-----------------------------------------------------------------------------
(* The inductive invariant: both strings are paired, and of the types that *)
(* operations on sequences need.  What they hold of markup is free.        *)

Shaped(s) ==
  /\ s = [text |-> s.text, source |-> s.source, markup |-> s.markup,
          idx |-> s.idx, written |-> s.written]
  /\ s.text \in Text
  /\ s.idx \in Seq(Entry)
  /\ s.written \in BOOLEAN

Sound(s) == Shaped(s) /\ Paired(s)

IInv == Sound(str) /\ Sound(saved)

-----------------------------------------------------------------------------
(* An entry is made for each character of a plain string.                  *)
LEMMA PlainPaired ==
  ASSUME NEW s \in Text
  PROVE  /\ Plain(s) \in Seq(Entry)
         /\ Len(Plain(s)) = Len(s)
         /\ \A i \in 1 .. Len(s) : Plain(s)[i].char = s[i]
  <1>1. /\ Len(s) \in Nat /\ DOMAIN s = 1 .. Len(s)
        /\ \A i \in 1 .. Len(s) : s[i] \in Char \cup {"ERROR"}
    BY LenProperties, ElementOfSeq DEF Text
  <1>2. Plain(s) = [i \in 1 .. Len(s) |-> [markup |-> None, char |-> s[i]]]
    BY <1>1 DEF Plain
  <1>3. \A i \in 1 .. Len(s) : [markup |-> None, char |-> s[i]] \in Entry
    BY <1>1 DEF Entry
  <1>4. Plain(s) \in Seq(Entry) /\ Len(Plain(s)) = Len(s)
    BY <1>1, <1>2, <1>3, IsASeq
  <1>5. \A i \in 1 .. Len(s) : Plain(s)[i].char = s[i]
    BY <1>2
  <1> QED BY <1>4, <1>5

(* Appending to both keeps what is paired paired.                          *)
LEMMA ConcatPaired ==
  ASSUME NEW t \in Text, NEW u \in Text,
         NEW d \in Seq(Entry), NEW e \in Seq(Entry),
         Len(d) = Len(t), Len(e) = Len(u)
  PROVE  /\ t \o u \in Text /\ d \o e \in Seq(Entry)
         /\ Len(d \o e) = Len(t \o u)
         /\ (\A i \in 1 .. Len(t) : d[i].char = t[i]) /\
            (\A i \in 1 .. Len(u) : e[i].char = u[i]) =>
              \A i \in 1 .. Len(t \o u) : (d \o e)[i].char = (t \o u)[i]
  <1>1. /\ t \o u \in Text
        /\ Len(t \o u) = Len(t) + Len(u)
        /\ \A i \in 1 .. Len(t) + Len(u) :
             (t \o u)[i] = IF i <= Len(t) THEN t[i] ELSE u[i - Len(t)]
    BY ConcatProperties DEF Text
  <1>2. /\ d \o e \in Seq(Entry)
        /\ Len(d \o e) = Len(t) + Len(u)
        /\ \A i \in 1 .. Len(t) + Len(u) :
             (d \o e)[i] = IF i <= Len(t) THEN d[i] ELSE e[i - Len(t)]
    <2>1. /\ d \o e \in Seq(Entry)
          /\ Len(d \o e) = Len(d) + Len(e)
          /\ \A i \in 1 .. Len(d) + Len(e) :
               (d \o e)[i] = IF i <= Len(d) THEN d[i] ELSE e[i - Len(d)]
      BY ConcatProperties
    <2> QED BY <2>1
  <1>3. Len(t) \in Nat /\ Len(u) \in Nat
    BY LenProperties DEF Text
  <1>4. ASSUME \A i \in 1 .. Len(t) : d[i].char = t[i],
               \A i \in 1 .. Len(u) : e[i].char = u[i],
               NEW i \in 1 .. Len(t) + Len(u)
        PROVE  (d \o e)[i].char = (t \o u)[i]
    <2>1. CASE i <= Len(t)
      <3>1. i \in 1 .. Len(t)
        BY <1>3, <2>1
      <3> QED BY <1>1, <1>2, <1>4, <2>1, <3>1
    <2>2. CASE ~(i <= Len(t))
      <3>1. i - Len(t) \in 1 .. Len(u)
        BY <1>3, <2>2
      <3> QED BY <1>1, <1>2, <1>4, <2>2, <3>1
    <2> QED BY <2>1, <2>2
  <1> QED BY <1>1, <1>2, <1>4

(* What a string is after each kind of change.                             *)
LEMMA MadePlain ==
  ASSUME NEW s \in Text, NEW source, NEW markup
  PROVE  Sound([text |-> s, source |-> source, markup |-> markup,
                idx |-> Plain(s), written |-> FALSE])
  BY PlainPaired DEF Sound, Shaped, Paired

LEMMA Emptied ==
  ASSUME NEW source, NEW markup
  PROVE  Sound([text |-> << >>, source |-> source, markup |-> markup,
                idx |-> << >>, written |-> FALSE])
  <1>1. << >> \in Text /\ << >> \in Seq(Entry) /\ Len(<< >>) = 0
    BY EmptySeq DEF Text
  <1> QED BY <1>1 DEF Sound, Shaped, Paired

LEMMA Appended ==
  ASSUME NEW s, Sound(s), NEW u \in Text, NEW e \in Seq(Entry),
         Len(e) = Len(u), NEW w \in BOOLEAN, NEW source, NEW markup,
         ~w => \A i \in 1 .. Len(u) : e[i].char = u[i]
  PROVE  Sound([text |-> s.text \o u, source |-> source,
                markup |-> markup, idx |-> s.idx \o e,
                written |-> s.written \/ w])
  <1> DEFINE t == s.text
             d == s.idx
  <1>1. /\ t \in Text /\ d \in Seq(Entry) /\ s.written \in BOOLEAN
        /\ Len(d) = Len(t)
        /\ ~s.written => \A i \in 1 .. Len(t) : d[i].char = t[i]
    BY DEF Sound, Shaped, Paired
  <1> HIDE DEF t, d
  <1>a. /\ t \o u \in Text /\ d \o e \in Seq(Entry)
        /\ Len(d \o e) = Len(t \o u)
        /\ (\A i \in 1 .. Len(t) : d[i].char = t[i]) /\
           (\A i \in 1 .. Len(u) : e[i].char = u[i]) =>
             \A i \in 1 .. Len(t \o u) : (d \o e)[i].char = (t \o u)[i]
    BY <1>1, ConcatPaired
  <1>2. /\ t \o u \in Text /\ d \o e \in Seq(Entry)
        /\ Len(d \o e) = Len(t \o u)
        /\ ~s.written /\ ~w =>
             \A i \in 1 .. Len(t \o u) : (d \o e)[i].char = (t \o u)[i]
    BY <1>a, <1>1
  <1>3. Sound([text |-> t \o u, source |-> source, markup |-> markup,
               idx |-> d \o e, written |-> s.written \/ w])
    BY <1>1, <1>2 DEF Sound, Shaped, Paired
  <1> QED BY <1>3 DEF t, d

LEMMA TwoFields ==
  ASSUME NEW s,
         s = [text |-> s.text, source |-> s.source, markup |-> s.markup,
              idx |-> s.idx, written |-> s.written],
         NEW t, NEW w
  PROVE  [s EXCEPT !.text = t, !.written = w]
           = [text |-> t, source |-> s.source, markup |-> s.markup,
              idx |-> s.idx, written |-> w]
  <1> DEFINE r == [s EXCEPT !.text = t]
  <1>1. r = [text |-> t, source |-> s.source, markup |-> s.markup,
             idx |-> s.idx, written |-> s.written]
    OBVIOUS
  <1>2. [s EXCEPT !.text = t, !.written = w] = [r EXCEPT !.written = w]
    OBVIOUS
  <1> HIDE DEF r
  <1>3. [r EXCEPT !.written = w]
          = [text |-> t, source |-> s.source, markup |-> s.markup,
             idx |-> s.idx, written |-> w]
    BY <1>1
  <1> QED BY <1>2, <1>3

LEMMA Written ==
  ASSUME NEW s, Sound(s), NEW i \in DOMAIN s.text, NEW c \in Char
  PROVE  Sound([s EXCEPT !.text[i] = c, !.written = TRUE])
  <1> DEFINE t == [s.text EXCEPT ![i] = c]
  <1>1. /\ s.text \in Text /\ s.idx \in Seq(Entry)
        /\ Len(s.idx) = Len(s.text)
        /\ s = [text |-> s.text, source |-> s.source, markup |-> s.markup,
                idx |-> s.idx, written |-> s.written]
    BY DEF Sound, Shaped, Paired
  <1>2. [s EXCEPT !.text[i] = c, !.written = TRUE]
          = [text |-> t, source |-> s.source, markup |-> s.markup,
             idx |-> s.idx, written |-> TRUE]
    <2>1. [s EXCEPT !.text[i] = c, !.written = TRUE]
            = [s EXCEPT !.text = t, !.written = TRUE]
      OBVIOUS
    <2> HIDE DEF t
    <2>2. \A w : [s EXCEPT !.text = t, !.written = w]
                   = [text |-> t, source |-> s.source, markup |-> s.markup,
                      idx |-> s.idx, written |-> w]
      BY <1>1, TwoFields, Zenon
    <2> QED BY <2>1, <2>2, Zenon
  <1>3. t \in Text /\ Len(t) = Len(s.text)
    <2>1. i \in 1 .. Len(s.text)
      BY <1>1, LenProperties DEF Text
    <2> QED BY <1>1, <2>1, ExceptSeq DEF Text
  <1> HIDE DEF t
  <1> QED BY <1>1, <1>2, <1>3 DEF Sound, Shaped, Paired

-----------------------------------------------------------------------------
(* The steps.                                                              *)

LEMMA InitInvariant == Init => IInv
  <1> SUFFICES ASSUME Init PROVE IInv
    OBVIOUS
  <1>1. str = Empty /\ saved = Empty
    BY DEF Init
  <1>2. Sound(Empty)
    BY Emptied DEF Empty
  <1> QED BY <1>1, <1>2 DEF IInv

LEMMA CallInvariant ==
  ASSUME IInv, CallStep
  PROVE  IInv'
  <1>1. Sound(str) /\ Sound(saved)
    BY DEF IInv
  <1>2. Plains \subseteq Text /\ Letters \subseteq Char
    <2>1. \A s \in Seq(Char) : s \in Text
      BY SeqMonotonic DEF Text
    <2> QED BY <2>1, MarkupAssumption
  <1>3. ASSUME NEW s \in Plains, MakePlain(s)
        PROVE  IInv'
    <2>1. str' = [text |-> s, source |-> s, markup |-> << >>,
                  idx |-> Plain(s), written |-> FALSE]
      BY <1>3 DEF MakePlain
    <2>2. Sound(str')
      BY <1>2, <2>1, MadePlain
    <2> QED BY <1>1, <1>3, <2>2 DEF MakePlain, IInv
  <1>4. ASSUME NEW s \in Plains, AppendPlain(s)
        PROVE  IInv'
    <2>1. /\ Plain(s) \in Seq(Entry) /\ Len(Plain(s)) = Len(s)
          /\ \A i \in 1 .. Len(s) : Plain(s)[i].char = s[i]
      BY <1>2, PlainPaired
    <2>2. str' = [text |-> str.text \o s, source |-> str.source,
                  markup |-> str.markup, idx |-> str.idx \o Plain(s),
                  written |-> str.written]
      BY <1>1, <1>4 DEF AppendPlain, Sound, Shaped
    <2>3. str.written = (str.written \/ FALSE)
      BY <1>1 DEF Sound, Shaped
    <2>4. Sound([text |-> str.text \o s, source |-> str.source,
                 markup |-> str.markup, idx |-> str.idx \o Plain(s),
                 written |-> str.written \/ FALSE])
      BY <1>1, <1>2, <2>1, Appended
    <2>5. Sound(str')
      BY <2>2, <2>3, <2>4
    <2> QED BY <1>1, <1>4, <2>5 DEF AppendPlain, IInv
  <1>5. ASSUME NEW i \in DOMAIN str.text, NEW c \in Letters, WriteChar(i, c)
        PROVE  IInv'
    <2>1. Sound(str')
      BY <1>1, <1>2, <1>5, Written DEF WriteChar
    <2> QED BY <1>1, <1>5, <2>1 DEF WriteChar, IInv
  <1>6. CASE Copy
    BY <1>1, <1>6 DEF Copy, IInv
  <1>7. CASE AppendSaved
    <2>1. /\ saved.text \in Text /\ saved.idx \in Seq(Entry)
          /\ Len(saved.idx) = Len(saved.text) /\ saved.written \in BOOLEAN
          /\ ~saved.written => \A i \in 1 .. Len(saved.text) :
                                saved.idx[i].char = saved.text[i]
      BY <1>1 DEF Sound, Shaped, Paired
    <2>2. Sound([text |-> str.text \o saved.text,
                 source |-> str.source \o saved.source,
                 markup |-> str.markup \o saved.markup,
                 idx |-> str.idx \o saved.idx,
                 written |-> str.written \/ saved.written])
      BY <1>1, <2>1, Appended
    <2>3. Sound(str')
      BY <1>7, <2>2 DEF AppendSaved
    <2> QED BY <1>1, <1>7, <2>3 DEF AppendSaved, IInv
  <1>8. CASE Clear
    <2>1. Sound(Empty)
      BY Emptied DEF Empty
    <2> QED BY <1>1, <1>8, <2>1 DEF Clear, IInv
  <1>9. ASSUME NEW src \in Sources, Decode(src)
        PROVE  IInv'
    <2>1. Sound([Empty EXCEPT !.source = src])
      BY Emptied DEF Empty
    <2>2. Sound([str EXCEPT !.source = src])
      BY <1>1 DEF Sound, Shaped, Paired
    <2>3. Sound(str')
      BY <1>9, <2>1, <2>2 DEF Decode
    <2> QED BY <1>1, <1>9, <2>3 DEF Decode, IInv
  <1> QED BY <1>3, <1>4, <1>5, <1>6, <1>7, <1>8, <1>9 DEF CallStep

LEMMA DecodeInvariant ==
  ASSUME IInv, DecodeStep
  PROVE  IInv'
  <1>1. Sound(str) /\ Sound(saved)
    BY DEF IInv
  <1>2. ASSUME NEW s \in Char, TakeChar(s)
        PROVE  IInv'
    <2> DEFINE e == <<[markup |-> None, char |-> s]>>
    <2>1. /\ <<s>> \in Text /\ Len(<<s>>) = 1
          /\ e \in Seq(Entry) /\ Len(e) = 1
          /\ \A i \in 1 .. Len(<<s>>) : e[i].char = <<s>>[i]
      BY DEF Text, Entry
    <2>2. str' = [text |-> Append(str.text, s), source |-> str.source,
                  markup |-> str.markup,
                  idx |-> Append(str.idx, [markup |-> None, char |-> s]),
                  written |-> str.written]
      BY <1>1, <1>2 DEF TakeChar, Sound, Shaped
    <2>3. /\ Append(str.text, s) = str.text \o <<s>>
          /\ Append(str.idx, [markup |-> None, char |-> s]) = str.idx \o e
      <3>1. str.text \in Seq(Char \cup {"ERROR"}) /\ str.idx \in Seq(Entry)
        BY <1>1 DEF Sound, Shaped, Text
      <3>2. [markup |-> None, char |-> s] \in Entry
        BY DEF Entry
      <3>3. Append(str.text, s) = str.text \o <<s>>
        BY <3>1, AppendIsConcat
      <3>4. Append(str.idx, [markup |-> None, char |-> s])
              = str.idx \o <<[markup |-> None, char |-> s]>>
        BY <3>1, <3>2, AppendIsConcat, Zenon
      <3> QED BY <3>3, <3>4
    <2>4. str.written = (str.written \/ FALSE)
      BY <1>1 DEF Sound, Shaped
    <2> HIDE DEF e
    <2>5. Sound([text |-> str.text \o <<s>>, source |-> str.source,
                 markup |-> str.markup, idx |-> str.idx \o e,
                 written |-> str.written \/ FALSE])
      BY <1>1, <2>1, Appended
    <2>6. Sound(str')
      BY <2>2, <2>3, <2>4, <2>5
    <2> QED BY <1>1, <1>2, <2>6 DEF TakeChar, Take, IInv
  <1>3. ASSUME NEW s \in Char,
               \/ TakeStart(s) \/ TakeType(s) \/ OpenText(s) \/ OpenEnd(s)
               \/ CloseTag(s) \/ CloseText(s)
        PROVE  IInv'
    <2>1. str' = str /\ saved' = saved
      BY <1>3 DEF TakeStart, TakeType, OpenText, OpenEnd, CloseTag, CloseText,
                  Take
    <2> QED BY <1>1, <2>1 DEF IInv
  <1>4. ASSUME NEW s \in Char, OpenTag(s)
        PROVE  IInv'
    <2>1. PICK new : str' = [str EXCEPT !.markup = Append(@, new)]
      BY <1>4 DEF OpenTag
    <2>2. Sound(str')
      BY <1>1, <2>1 DEF Sound, Shaped, Paired
    <2> QED BY <1>1, <1>4, <2>2 DEF OpenTag, Take, IInv
  <1>5. ASSUME NEW s \in Char, CloseEnd(s)
        PROVE  IInv'
    <2>1. saved' = saved
      BY <1>5 DEF CloseEnd, Take
    <2>2. CASE Reject
      <3>1. str' = [text |-> ErrorText, source |-> str.source,
                    markup |-> << >>, idx |-> Plain(ErrorText),
                    written |-> FALSE]
        BY <1>1, <2>2 DEF Reject, Sound, Shaped
      <3>2. ErrorText \in Text
        BY DEF ErrorText, Text
      <3>3. Sound(str')
        BY <3>1, <3>2, MadePlain
      <3> QED BY <1>1, <2>1, <3>3 DEF IInv
    <2>3. CASE ~Reject
      <3>1. str' = str
        BY <1>5, <2>3 DEF CloseEnd, Pop
      <3> QED BY <1>1, <2>1, <3>1 DEF IInv
    <2> QED BY <2>2, <2>3
  <1>6. CASE Decoded
    BY <1>1, <1>6 DEF Decoded, objectVars, IInv
  <1> QED BY <1>2, <1>3, <1>4, <1>5, <1>6 DEF DecodeStep

(* The invariant is inductive.                                             *)
THEOREM Invariance == Spec => []IInv
  <1>1. ASSUME IInv, UNCHANGED vars
        PROVE  IInv'
    BY <1>1 DEF IInv, vars, objectVars
  <1>2. IInv /\ [Next]_vars => IInv'
    BY <1>1, CallInvariant, DecodeInvariant DEF Next
  <1> QED BY InitInvariant, <1>2, PTL DEF Spec

(* However decoding ends, and whatever is called between, a string has one *)
(* idx entry for each character of its text.                               *)
THEOREM TextAlwaysMatches == Spec => []TextMatchesIdx
  <1>1. IInv => TextMatchesIdx
    BY DEF IInv, Sound, TextMatchesIdx
  <1> QED BY <1>1, Invariance, PTL


-----------------------------------------------------------------------------
(* The types, which are inductive by themselves.                           *)

(* One more character in a text of one tag leaves all else as it is; a     *)
(* number that names no tag changes nothing.                               *)
LEMMA TextGrows ==
  ASSUME NEW ts, ts \in Seq(Tag), NEW i, NEW s, s \in Char,
         NEW new,
         \/ new = [ts EXCEPT ![i].start_text = Append(@, s)]
         \/ new = [ts EXCEPT ![i].end_text = Append(@, s)]
  PROVE  /\ new \in Seq(Tag) /\ Len(new) = Len(ts)
         /\ \A j \in 1 .. Len(ts) :
              /\ new[j].parent = ts[j].parent /\ new[j].mark = ts[j].mark
              /\ new[j].type = ts[j].type
              /\ j # i => new[j] = ts[j]
              /\ new = [ts EXCEPT ![i].end_text = Append(@, s)]
                   => new[j].start_text = ts[j].start_text
  <1>1. /\ Len(ts) \in Nat /\ DOMAIN ts = 1 .. Len(ts)
        /\ \A j \in 1 .. Len(ts) : ts[j] \in Tag
    BY LenProperties, ElementOfSeq
  <1>2. CASE i \notin 1 .. Len(ts)
    <2>1. new = ts
      <3>1. DOMAIN new = DOMAIN ts
        OBVIOUS
      <3>2. \A j \in DOMAIN ts : new[j] = ts[j]
        BY <1>1, <1>2
      <3>3. \A j \in DOMAIN ts : j # i
        BY <1>1, <1>2
      <3>4. ts = [j \in DOMAIN ts |-> ts[j]]
        BY <1>1
      <3> QED BY <3>1, <3>2, <3>4
    <2> QED BY <2>1
  <1>3. CASE i \in 1 .. Len(ts)
    <2>1. PICK r : r = ts[i]
      OBVIOUS
    <2>2. r \in Tag
      BY <1>1, <1>3, <2>1
    <2>3. Append(r.start_text, s) \in Seq(Char) /\ Append(r.end_text, s) \in Seq(Char)
      <3>1. r.start_text \in Seq(Char) /\ r.end_text \in Seq(Char)
        BY <2>2 DEF Tag
      <3> QED BY <3>1, AppendProperties
    <2>4. PICK a, b : a = Append(r.start_text, s) /\ b = Append(r.end_text, s)
      OBVIOUS
    <2>5. /\ [r EXCEPT !.start_text = a] \in Tag
          /\ [r EXCEPT !.end_text = b] \in Tag
      BY <2>2, <2>3, <2>4 DEF Tag
    <2>6. \/ new = [ts EXCEPT ![i] = [r EXCEPT !.start_text = a]]
          \/ new = [ts EXCEPT ![i] = [r EXCEPT !.end_text = b]]
      BY <2>1, <2>4
    <2>7. new = [ts EXCEPT ![i].end_text = Append(@, s)]
             => new = [ts EXCEPT ![i] = [r EXCEPT !.end_text = b]]
      BY <2>1, <2>4
    <2>8. ASSUME NEW q, q \in Tag, new = [ts EXCEPT ![i] = q]
          PROVE  /\ new \in Seq(Tag) /\ Len(new) = Len(ts)
                 /\ \A j \in 1 .. Len(ts) : new[j] = IF j = i THEN q ELSE ts[j]
      BY <1>1, <1>3, <2>8, ExceptSeq
    <2>9. /\ new \in Seq(Tag) /\ Len(new) = Len(ts)
          /\ \A j \in 1 .. Len(ts) : j # i => new[j] = ts[j]
          /\ \/ new[i] = [r EXCEPT !.start_text = a]
             \/ new[i] = [r EXCEPT !.end_text = b]
      BY <1>3, <2>5, <2>6, <2>8
    <2>10. new = [ts EXCEPT ![i].end_text = Append(@, s)]
             => new[i] = [r EXCEPT !.end_text = b]
      BY <1>3, <2>5, <2>7, <2>8
    <2>11. /\ new[i].parent = r.parent /\ new[i].mark = r.mark
           /\ new[i].type = r.type
      BY <2>2, <2>9 DEF Tag
    <2>12. new = [ts EXCEPT ![i].end_text = Append(@, s)]
             => new[i].start_text = r.start_text
      BY <2>2, <2>10 DEF Tag
    <2> QED BY <2>1, <2>9, <2>11, <2>12
  <1> QED BY <1>2, <1>3

(* A sequence without its last element.                                    *)
LEMMA FrontAndLast ==
  ASSUME NEW S, NEW s, s \in Seq(S), s # << >>
  PROVE  /\ Len(s) \in Nat /\ Len(s) > 0
         /\ Last(s) \in S /\ Last(s) = s[Len(s)]
         /\ Front(s) \in Seq(S) /\ Len(Front(s)) = Len(s) - 1
         /\ \A i \in 1 .. Len(s) - 1 : Front(s)[i] = s[i]
  <1>1. Len(s) \in Nat /\ Len(s) > 0
    BY LenProperties, EmptySeq
  <1>2. \A i \in 1 .. Len(s) : s[i] \in S
    BY ElementOfSeq
  <1>3. Len(s) \in 1 .. Len(s) /\ Len(s) - 1 \in Int
    BY <1>1
  <1>4. Last(s) \in S /\ Last(s) = s[Len(s)]
    BY <1>2, <1>3 DEF Last
  <1>5. \A i \in 1 .. Len(s) - 1 : s[i] \in S
    BY <1>1, <1>2
  <1>6. /\ SubSeq(s, 1, Len(s) - 1) \in Seq(S)
        /\ Len(SubSeq(s, 1, Len(s) - 1)) = Len(s) - 1
        /\ \A i \in 1 .. Len(s) - 1 : SubSeq(s, 1, Len(s) - 1)[i] = s[i]
    <2>1. PICK n : n = Len(s) - 1
      OBVIOUS
    <2>2. /\ SubSeq(s, 1, n) \in Seq(S)
          /\ Len(SubSeq(s, 1, n)) = IF 1 <= n THEN n - 1 + 1 ELSE 0
          /\ \A i \in 1 .. n - 1 + 1 : SubSeq(s, 1, n)[i] = s[1 + i - 1]
      BY <1>3, <1>5, <2>1, SubSeqProperties
    <2>3. n \in Nat /\ n - 1 + 1 = n /\ (~(1 <= n) => n = 0)
      BY <1>1, <2>1
    <2>4. \A i \in 1 .. n : SubSeq(s, 1, n)[i] = s[i]
      <3> SUFFICES ASSUME NEW i \in 1 .. n PROVE SubSeq(s, 1, n)[i] = s[i]
        OBVIOUS
      <3>1. 1 + i - 1 = i
        OBVIOUS
      <3> QED BY <2>2, <2>3, <3>1
    <2> QED BY <2>1, <2>2, <2>3, <2>4
  <1> QED BY <1>1, <1>4, <1>6 DEF Front

LEMMA PlainIsTyped ==
  ASSUME NEW s, s \in Text
  PROVE  Plain(s) \in Seq(Entry)
  BY PlainPaired

LEMMA TextsAreText ==
  /\ \A s \in Seq(Char) : s \in Text
  /\ Plains \subseteq Seq(Char) /\ Sources \subseteq Seq(Char)
  /\ Letters \subseteq Char /\ MaxOps \in Nat
  /\ << >> \in Seq(Char) /\ << >> \in Text /\ << >> \in Seq(Entry) /\ << >> \in Seq(Nat)
  <1>1. \A s \in Seq(Char) : s \in Text
    BY SeqMonotonic DEF Text
  <1>2. << >> \in Seq(Char) /\ << >> \in Text /\ << >> \in Seq(Entry) /\ << >> \in Seq(Nat)
    BY EmptySeq DEF Text
  <1> QED BY <1>1, <1>2, MarkupAssumption

(* The fields of a string, and what makes one.                             *)
LEMMA StringFields ==
  ASSUME NEW s, s \in String
  PROVE  /\ s.text \in Text /\ s.source \in Seq(Char) /\ s.markup \in Seq(Nat)
         /\ s.idx \in Seq(Entry) /\ s.written \in BOOLEAN
  BY DEF String

LEMMA StringMade ==
  ASSUME NEW t, t \in Text, NEW c, c \in Seq(Char), NEW m, m \in Seq(Nat),
         NEW e, e \in Seq(Entry), NEW w, w \in BOOLEAN
  PROVE  [text |-> t, source |-> c, markup |-> m, idx |-> e, written |-> w] \in String
  BY DEF String

LEMMA CallTypes ==
  ASSUME TypeOK, CallStep
  PROVE  TypeOK'
  <1>1. /\ str.text \in Text /\ str.source \in Seq(Char) /\ str.markup \in Seq(Nat)
        /\ str.idx \in Seq(Entry) /\ str.written \in BOOLEAN
    BY StringFields DEF TypeOK
  <1>2. /\ saved.text \in Text /\ saved.source \in Seq(Char) /\ saved.markup \in Seq(Nat)
        /\ saved.idx \in Seq(Entry) /\ saved.written \in BOOLEAN
    BY StringFields DEF TypeOK
  <1>e. ASSUME NEW src, src \in Seq(Char) PROVE [Empty EXCEPT !.source = src] \in String
    <2>1. [text |-> << >>, source |-> src, markup |-> << >>, idx |-> << >>,
           written |-> FALSE] \in String
      BY <1>e, TextsAreText, StringMade
    <2>2. [Empty EXCEPT !.source = src]
            = [text |-> << >>, source |-> src, markup |-> << >>, idx |-> << >>,
               written |-> FALSE]
      <3>1. PICK n, f : n = << >> /\ f = FALSE
        OBVIOUS
      <3>2. Empty = [text |-> n, source |-> n, markup |-> n, idx |-> n,
                     written |-> f]
        BY <3>1, Zenon DEF Empty
      <3>3. [Empty EXCEPT !.source = src]
              = [text |-> n, source |-> src, markup |-> n, idx |-> n,
                 written |-> f]
        BY ONLY <3>2
      <3> QED BY <3>1, <3>3, Zenon
    <2> QED BY <2>1, <2>2, Zenon
  <1>f. Empty \in String
    <2>1. [text |-> << >>, source |-> << >>, markup |-> << >>, idx |-> << >>,
           written |-> FALSE] \in String
      BY TextsAreText, StringMade
    <2> QED BY <2>1 DEF Empty
  <1>3. ASSUME Edit, str' \in String, saved' \in String PROVE TypeOK'
    <2>1. ops' \in 0 .. MaxOps
      <3>1. ops \in 0 .. MaxOps /\ ops < MaxOps /\ MaxOps \in Nat /\ ops' = ops + 1
        BY <1>3, MarkupAssumption DEF TypeOK, Edit, Call, MayCall
      <3> QED BY ONLY <3>1
    <2> QED BY <1>3, <2>1 DEF TypeOK, Edit, decoderVars
  <1>4. ASSUME NEW s \in Plains, MakePlain(s) PROVE TypeOK'
    <2>1. s \in Text /\ s \in Seq(Char)
      BY TextsAreText
    <2>2. str' \in String
      BY <1>4, <2>1, PlainIsTyped, StringMade, TextsAreText DEF MakePlain
    <2> QED BY <1>3, <1>4, <2>2 DEF MakePlain, TypeOK
  <1>5. ASSUME NEW s \in Plains, AppendPlain(s) PROVE TypeOK'
    <2>1. s \in Text /\ Plain(s) \in Seq(Entry)
      BY TextsAreText, PlainIsTyped
    <2>2. str.text \o s \in Text /\ str.idx \o Plain(s) \in Seq(Entry)
      BY <1>1, <2>1, ConcatProperties DEF Text
    <2>3. PICK t, e : t = str.text \o s /\ e = str.idx \o Plain(s)
      OBVIOUS
    <2>4. str' = [str EXCEPT !.text = t, !.idx = e]
      BY <1>5, <2>3 DEF AppendPlain
    <2>5. str' \in String
      BY <1>1, <2>2, <2>3, <2>4 DEF TypeOK, String
    <2> QED BY <1>3, <1>5, <2>5 DEF AppendPlain, TypeOK
  <1>6. ASSUME NEW i \in DOMAIN str.text, NEW c \in Letters, WriteChar(i, c)
        PROVE  TypeOK'
    <2> DEFINE t == [str.text EXCEPT ![i] = c]
    <2>1. t \in Text
      <3>1. i \in 1 .. Len(str.text) /\ c \in Char \cup {"ERROR"}
        BY <1>1, LenProperties, TextsAreText DEF Text
      <3> QED BY <1>1, <3>1, ExceptSeq DEF Text
    <2>2. str' = [str EXCEPT !.text = t, !.written = TRUE]
      BY <1>6 DEF WriteChar
    <2> HIDE DEF t
    <2>3. str' \in String
      BY <2>1, <2>2 DEF TypeOK, String
    <2> QED BY <1>3, <1>6, <2>3 DEF WriteChar, TypeOK
  <1>7. CASE Copy
    BY <1>3, <1>7 DEF Copy, TypeOK
  <1>8. CASE AppendSaved
    <2>1. /\ str.text \o saved.text \in Text
          /\ str.source \o saved.source \in Seq(Char)
          /\ str.markup \o saved.markup \in Seq(Nat)
          /\ str.idx \o saved.idx \in Seq(Entry)
      BY <1>1, <1>2, ConcatProperties DEF Text
    <2>2. (str.written \/ saved.written) \in BOOLEAN
      OBVIOUS
    <2>3. str' \in String
      BY <1>8, <2>1, <2>2, StringMade DEF AppendSaved
    <2> QED BY <1>3, <1>8, <2>3 DEF AppendSaved, TypeOK
  <1>9. CASE Clear
    BY <1>3, <1>9, <1>f DEF Clear, TypeOK
  <1>10. ASSUME NEW src \in Sources, Decode(src) PROVE TypeOK'
    <2>1. src \in Seq(Char)
      BY TextsAreText
    <2>2. [str EXCEPT !.source = src] \in String
      BY <2>1 DEF TypeOK, String
    <2>3. str' \in String
      BY <1>10, <1>e, <2>1, <2>2 DEF Decode
    <2>4. ops' \in 0 .. MaxOps
      <3>1. ops \in 0 .. MaxOps /\ ops < MaxOps /\ MaxOps \in Nat
        BY <1>10, MarkupAssumption DEF TypeOK, Decode, CallDecode, MayCall
      <3>2. ops' = ops + 1 \/ ops' = MaxOps
        BY <1>10 DEF Decode, CallDecode
      <3> QED BY ONLY <3>1, <3>2
    <2>5. mark' \in Nat /\ stale' \in Seq(Nat)
      BY <1>1, <1>10, TextsAreText, LenProperties DEF Decode, TypeOK
    <2> QED BY <1>10, <2>1, <2>3, <2>4, <2>5, TextsAreText DEF Decode, TypeOK, None
  <1> QED BY <1>4, <1>5, <1>6, <1>7, <1>8, <1>9, <1>10 DEF CallStep

LEMMA DecodeTypes ==
  ASSUME TypeOK, DecodeStep
  PROVE  TypeOK'
  <1>1. /\ str.text \in Text /\ str.source \in Seq(Char) /\ str.markup \in Seq(Nat)
        /\ str.idx \in Seq(Entry) /\ str.written \in BOOLEAN
    BY StringFields DEF TypeOK
  <1>2. ASSUME NEW s, NEW now, NEW next, Take(s, now, next)
        PROVE  /\ unread' \in Seq(Char) /\ saved' \in String /\ s \in Char
               /\ mark' \in Nat /\ stale' \in Seq(Nat) /\ ops' \in 0 .. MaxOps
               /\ state' = next
    <2>1. unread \in Seq(Char) /\ unread # << >>
      BY <1>2 DEF TypeOK, Take
    <2>2. Head(unread) \in Char /\ Tail(unread) \in Seq(Char)
      BY <2>1, HeadTailProperties
    <2> QED BY <1>2, <2>2 DEF TypeOK, Take, historyVars
  <1>3. ASSUME NEW s \in Char, TakeChar(s) PROVE TypeOK'
    <2> DEFINE t == Append(str.text, s)
               e == Append(str.idx, [markup |-> None, char |-> s])
    <2>1. t \in Text /\ e \in Seq(Entry)
      <3>1. s \in Char \cup {"ERROR"} /\ [markup |-> None, char |-> s] \in Entry
        BY DEF Entry
      <3> QED BY <1>1, <3>1, AppendProperties DEF Text
    <2>2. str' = [str EXCEPT !.text = t, !.idx = e]
      BY <1>3 DEF TakeChar
    <2> HIDE DEF t, e
    <2>3. str' \in String
      BY <1>1, <2>1, <2>2 DEF TypeOK, String
    <2> QED BY <1>2, <1>3, <2>3 DEF TypeOK, TakeChar, Goes
  <1>4. ASSUME NEW s \in Char, TakeStart(s) PROVE TypeOK'
    BY <1>2, <1>4 DEF TypeOK, TakeStart, Goes
  <1>5. ASSUME NEW s \in Char, TakeType(s) PROVE TypeOK'
    BY <1>2, <1>5 DEF TypeOK, TakeType, Goes
  <1>6. ASSUME NEW s \in Char, OpenTag(s) PROVE TypeOK'
    <2> DEFINE new == Len(tags) + 1
               r == [type       |-> IF tag = "p" THEN "MXP" ELSE "Color",
                     parent     |-> current,
                     start_text |-> <<s>>,
                     end_text   |-> << >>,
                     enclosing  |-> IF mstack = << >> THEN None ELSE Last(mstack),
                     mark       |-> mark]
    <2>1. new \in Nat /\ mstack \in Seq(Nat)
      BY LenProperties DEF TypeOK
    <2>2. (IF mstack = << >> THEN None ELSE Last(mstack)) \in Nat
      <3>1. mstack # << >> => Last(mstack) \in Nat
        <4>1. mstack # << >> => Len(mstack) \in 1 .. Len(mstack)
          BY <2>1, LenProperties, EmptySeq
        <4> QED BY <2>1, <4>1, ElementOfSeq DEF Last
      <3> QED BY <3>1 DEF None
    <2>3. r \in Tag
      <3>1. <<s>> \in Seq(Char) /\ << >> \in Seq(Char)
        BY TextsAreText
      <3>2. (IF tag = "p" THEN "MXP" ELSE "Color") \in {"Color", "MXP"}
        OBVIOUS
      <3> QED BY <2>2, <3>1, <3>2 DEF Tag, TypeOK
    <2>4. /\ tags' = Append(tags, r)
          /\ str' = [str EXCEPT !.markup = Append(@, new)]
          /\ current' = new /\ mstack' = Append(mstack, new)
      BY <1>6 DEF OpenTag
    <2>5. Append(str.markup, new) \in Seq(Nat) /\ Append(mstack, new) \in Seq(Nat)
      BY <1>1, <2>1, AppendProperties
    <2>6. tags' \in Seq(Tag)
      <3>1. tags \in Seq(Tag)
        BY DEF TypeOK
      <3> HIDE DEF r
      <3> QED BY <2>3, <2>4, <3>1, AppendProperties
    <2>7. str' \in String
      BY <2>4, <2>5 DEF TypeOK, String
    <2> QED BY <1>2, <1>6, <2>1, <2>4, <2>5, <2>6, <2>7 DEF TypeOK, OpenTag, Goes
  <1>7. ASSUME NEW s \in Char, OpenText(s) PROVE TypeOK'
    <2>1. tags' \in Seq(Tag)
      BY <1>7, TextGrows DEF OpenText, TypeOK
    <2> QED BY <1>2, <1>7, <2>1 DEF TypeOK, OpenText, Goes
  <1>8. ASSUME NEW s \in Char, OpenEnd(s) PROVE TypeOK'
    BY <1>2, <1>8 DEF TypeOK, OpenEnd, Goes
  <1>9. ASSUME NEW s \in Char, CloseTag(s) PROVE TypeOK'
    BY <1>2, <1>9 DEF TypeOK, CloseTag, Goes
  <1>10. ASSUME NEW s \in Char, CloseText(s) PROVE TypeOK'
    <2>1. tags' \in Seq(Tag)
      <3>1. tags \in Seq(Tag)
        BY DEF TypeOK
      <3>2. CASE mstack = << >>
        BY <1>10, <3>1, <3>2 DEF CloseText
      <3>3. CASE mstack # << >>
        <4>1. PICK i : i = Last(mstack)
          OBVIOUS
        <4>2. tags' = [tags EXCEPT ![i].end_text = Append(@, s)]
          BY <1>10, <3>3, <4>1 DEF CloseText
        <4> QED BY <3>1, <4>2, TextGrows
      <3> QED BY <3>2, <3>3
    <2> QED BY <1>2, <1>10, <2>1 DEF TypeOK, CloseText, Goes
  <1>11. ASSUME NEW s \in Char, CloseEnd(s) PROVE TypeOK'
    <2>1. /\ unread' \in Seq(Char) /\ saved' \in String
          /\ mark' \in Nat /\ stale' \in Seq(Nat) /\ ops' \in 0 .. MaxOps
          /\ state' = 0 /\ tags' = tags /\ tag' = tag
      BY <1>2, <1>11 DEF CloseEnd
    <2>2. CASE Reject
      <3>1. ErrorText \in Text
        BY DEF ErrorText, Text
      <3>2. Plain(ErrorText) \in Seq(Entry)
        BY <3>1, PlainIsTyped
      <3>3. PICK e, p : e = ErrorText /\ p = Plain(ErrorText)
        OBVIOUS
      <3>4. str' = [str EXCEPT !.text = e, !.markup = << >>, !.idx = p,
                               !.written = FALSE]
        BY <2>2, <3>3 DEF Reject
      <3>5. str' = [text |-> e, source |-> str.source, markup |-> << >>,
                    idx |-> p, written |-> FALSE]
        BY <3>4 DEF TypeOK, String
      <3>6. str' \in String
        BY <1>1, <3>1, <3>2, <3>3, <3>5, TextsAreText, StringMade
      <3> QED BY <2>1, <2>2, <3>6, TextsAreText DEF TypeOK, Reject, Ends
    <2>3. CASE Pop
      <3>1. mstack \in Seq(Nat) /\ mstack # << >>
        BY <2>3 DEF TypeOK, Pop
      <3>2. Last(mstack) \in Nat /\ Front(mstack) \in Seq(Nat)
        BY <3>1, FrontAndLast
      <3> QED BY <2>1, <2>3, <3>2 DEF TypeOK, Pop, Goes
    <2>4. CASE ~Reject /\ ~Pop
      <3>1. /\ str' = str /\ mstack' = mstack /\ current' = current
            /\ pc' \in {"ready", "decode", "undefined"}
            /\ outcome' \in {"none", "decoded", "rejected", "threw"}
        BY <1>11, <2>4 DEF CloseEnd, Ends, TypeOK
      <3> QED BY <2>1, <3>1 DEF TypeOK
    <2> QED BY <2>2, <2>3, <2>4
  <1>12. CASE Decoded
    BY <1>12 DEF Decoded, TypeOK, Ends, objectVars, decoderVars, historyVars
  <1> QED BY <1>3, <1>4, <1>5, <1>6, <1>7, <1>8, <1>9, <1>10, <1>11, <1>12
          DEF DecodeStep

LEMMA InitTypes == Init => TypeOK
  <1> SUFFICES ASSUME Init PROVE TypeOK
    OBVIOUS
  <1>1. Empty \in String
    <2>1. [text |-> << >>, source |-> << >>, markup |-> << >>, idx |-> << >>,
           written |-> FALSE] \in String
      BY TextsAreText, StringMade
    <2> QED BY <2>1 DEF Empty
  <1>2. tags \in Seq(Tag) /\ "p" \in Char
    BY EmptySeq, MarkupAssumption DEF Init
  <1> QED BY <1>1, <1>2, TextsAreText DEF Init, TypeOK, None

(* Every variable has its type.                                            *)
THEOREM TypesHold == Spec => []TypeOK
  <1>1. ASSUME TypeOK, UNCHANGED vars
        PROVE  TypeOK'
    BY <1>1 DEF TypeOK, vars, objectVars, decoderVars, historyVars
  <1>2. TypeOK /\ [Next]_vars => TypeOK'
    BY <1>1, CallTypes, DecodeTypes DEF Next
  <1> QED BY InitTypes, <1>2, PTL DEF Spec


-----------------------------------------------------------------------------
(* The tags of a source.  Once a source is being decoded the string holds  *)
(* what was not cleared and then every tag made since, and the decoder's   *)
(* own references, current and mstack, are to these alone.                 *)
MadeSince(n) == [i \in 1 .. n |-> mark + i]

MInv ==
  /\ mark <= Len(tags)
  /\ pc = "decode" \/ outcome = "decoded" =>
       str.markup = stale \o MadeSince(Len(tags) - mark)
  /\ pc = "decode" =>
       /\ current = None \/ current > mark
       /\ \A i \in 1 .. Len(mstack) : mstack[i] > mark
  /\ \A t \in 1 .. Len(tags) :
       tags[t].parent # None => tags[t].parent > tags[t].mark

(* One more tag.                                                           *)
LEMMA OneMoreMade ==
  ASSUME mark \in Nat, NEW n, n \in Nat
  PROVE  /\ MadeSince(n) \in Seq(Nat)
         /\ Append(MadeSince(n), mark + n + 1) = MadeSince(n + 1)
         /\ MadeSince(0) = << >>
  <1>1. ASSUME NEW k, k \in Nat
        PROVE  /\ MadeSince(k) \in Seq(Nat) /\ Len(MadeSince(k)) = k
               /\ \A i \in 1 .. k : MadeSince(k)[i] = mark + i
    <2>1. \A i \in 1 .. k : mark + i \in Nat
      BY <1>1
    <2> QED BY <1>1, <2>1, IsASeq DEF MadeSince
  <1>2. PICK s, t, m : s = MadeSince(n) /\ t = MadeSince(n + 1) /\ m = mark + n + 1
    OBVIOUS
  <1>3. n + 1 \in Nat /\ m \in Nat
    BY <1>2
  <1>4. /\ s \in Seq(Nat) /\ Len(s) = n /\ t \in Seq(Nat) /\ Len(t) = n + 1
        /\ \A i \in 1 .. n : s[i] = mark + i
        /\ \A i \in 1 .. n + 1 : t[i] = mark + i
    BY <1>1, <1>2, <1>3
  <1>5. /\ Append(s, m) \in Seq(Nat) /\ Len(Append(s, m)) = n + 1
        /\ \A i \in 1 .. n : Append(s, m)[i] = s[i]
        /\ Append(s, m)[n + 1] = m
    BY <1>3, <1>4, AppendProperties
  <1>6. \A i \in 1 .. n + 1 : Append(s, m)[i] = t[i]
    <2> SUFFICES ASSUME NEW i \in 1 .. n + 1 PROVE Append(s, m)[i] = t[i]
      OBVIOUS
    <2>1. CASE i = n + 1
      BY <1>2, <1>4, <1>5, <2>1
    <2>2. CASE i # n + 1
      <3>1. i \in 1 .. n
        BY <2>2
      <3> QED BY <1>4, <1>5, <3>1
    <2> QED BY <2>1, <2>2
  <1>7. Append(s, m) = t
    BY <1>4, <1>5, <1>6, SeqEqual
  <1>8. MadeSince(0) = << >>
    <2>1. MadeSince(0) \in Seq(Nat) /\ Len(MadeSince(0)) = 0
      BY <1>1
    <2> QED BY <2>1, EmptySeq
  <1> QED BY <1>2, <1>4, <1>7, <1>8

LEMMA CallMInv ==
  ASSUME TypeOK, MInv, CallStep
  PROVE  MInv'
  <1>1. pc = "ready"
    BY DEF CallStep, MakePlain, AppendPlain, WriteChar, Copy, AppendSaved, Clear,
           Edit, Call, MayCall
  <1>2. ASSUME Edit PROVE MInv'
    BY <1>1, <1>2 DEF MInv, Edit
  <1>3. ASSUME NEW src \in Sources, Decode(src) PROVE MInv'
    <2>1. Len(tags) \in Nat
      BY LenProperties DEF TypeOK
    <2>2. /\ mark' = Len(tags) /\ tags' = tags /\ current' = None
          /\ mstack' = << >>
          /\ stale' = IF str.idx # << >> THEN << >> ELSE str.markup
          /\ str' = IF str.idx # << >> THEN [Empty EXCEPT !.source = src]
                               ELSE [str EXCEPT !.source = src]
      BY <1>3 DEF Decode
    <2>3. [Empty EXCEPT !.source = src].markup = << >>
      <3>1. PICK n, f : n = << >> /\ f = FALSE
        OBVIOUS
      <3>2. Empty = [text |-> n, source |-> n, markup |-> n, idx |-> n,
                     written |-> f]
        BY <3>1, Zenon DEF Empty
      <3>3. [Empty EXCEPT !.source = src].markup = n
        BY ONLY <3>2
      <3> QED BY <3>1, <3>3, Zenon
    <2>4. [str EXCEPT !.source = src].markup = str.markup
      BY DEF TypeOK, String
    <2>5. str'.markup = stale'
      BY <2>2, <2>3, <2>4, Zenon
    <2>6. MadeSince(0)' = << >>
      <3>1. [i \in 1 .. 0 |-> mark' + i] \in Seq(Nat)
        <4>1. \A i \in 1 .. 0 : mark' + i \in Nat
          OBVIOUS
        <4> QED BY <4>1, IsASeq
      <3>2. Len([i \in 1 .. 0 |-> mark' + i]) = 0
        <4>1. DOMAIN [i \in 1 .. 0 |-> mark' + i] = 1 .. 0
          OBVIOUS
        <4> QED BY <3>1, <4>1, LenProperties
      <3> QED BY <3>1, <3>2, EmptySeq DEF MadeSince
    <2>7. stale' \o << >> = stale'
      <3>1. str.markup \in Seq(Nat) /\ << >> \in Seq(Nat)
        BY StringFields, EmptySeq DEF TypeOK
      <3>2. stale' \in Seq(Nat)
        BY <2>2, <3>1
      <3> QED BY <3>2, ConcatEmptySeq
    <2>8. Len(tags') - mark' = 0 /\ mark' <= Len(tags')
      BY <2>1, <2>2
    <2>9. str'.markup = stale' \o MadeSince(Len(tags) - mark)'
      BY <2>5, <2>6, <2>7, <2>8, Zenon
    <2>10. \A i \in 1 .. Len(mstack') : mstack'[i] > mark'
      BY <2>2, EmptySeq
    <2> QED BY <2>2, <2>8, <2>9, <2>10 DEF MInv
  <1> QED BY <1>2, <1>3 DEF CallStep, MakePlain, AppendPlain, WriteChar, Copy,
                            AppendSaved, Clear

LEMMA DecodeMInv ==
  ASSUME TypeOK, MInv, DecodeStep
  PROVE  MInv'
  <1>1. /\ str.markup \in Seq(Nat) /\ mark \in Nat /\ current \in Nat
        /\ mstack \in Seq(Nat) /\ tags \in Seq(Tag) /\ stale \in Seq(Nat)
        /\ Len(tags) \in Nat /\ Len(mstack) \in Nat
    BY StringFields, LenProperties DEF TypeOK
  <1>2. pc = "decode" => str.markup = stale \o MadeSince(Len(tags) - mark)
    BY DEF MInv
  (* A step that leaves the tags' number and parents and the stack alone.  *)
  <1>3. ASSUME pc = "decode", mark' = mark, stale' = stale,
               current' = current, mstack' = mstack,
               Len(tags') = Len(tags), str'.markup = str.markup,
               \A t \in 1 .. Len(tags) : /\ tags'[t].parent = tags[t].parent
                                         /\ tags'[t].mark = tags[t].mark
        PROVE  MInv'
    <2>1. MadeSince(Len(tags) - mark)' = MadeSince(Len(tags) - mark)
      BY <1>3 DEF MadeSince
    <2>2. str'.markup = stale' \o MadeSince(Len(tags) - mark)'
      BY <1>2, <1>3, <2>1, Zenon
    <2> QED BY <1>3, <2>2 DEF MInv
  <1>4. ASSUME NEW s, NEW now, NEW next, Take(s, now, next)
        PROVE  pc = "decode" /\ mark' = mark /\ stale' = stale
    BY <1>4 DEF Take, historyVars
  <1>5. ASSUME NEW s \in Char, TakeChar(s) PROVE MInv'
    <2>1. str'.markup = str.markup
      <3> DEFINE t == Append(str.text, s)
                 e == Append(str.idx, [markup |-> None, char |-> s])
      <3>1. str' = [str EXCEPT !.text = t, !.idx = e]
        BY <1>5 DEF TakeChar
      <3> HIDE DEF t, e
      <3> QED BY <3>1 DEF TypeOK, String
    <2> QED BY <1>3, <1>4, <1>5, <2>1 DEF TakeChar
  <1>6. ASSUME NEW s \in Char,
               TakeStart(s) \/ TakeType(s) \/ OpenEnd(s) \/ CloseTag(s)
        PROVE MInv'
    <2>1. /\ pc = "decode" /\ mark' = mark /\ stale' = stale
          /\ UNCHANGED <<str, tags, mstack, current>>
      BY <1>4, <1>6 DEF TakeStart, TakeType, OpenEnd, CloseTag
    <2> QED BY <1>3, <2>1
  <1>7. ASSUME NEW s \in Char, OpenTag(s) PROVE MInv'
    <2> DEFINE new == Len(tags) + 1
               r == [type       |-> IF tag = "p" THEN "MXP" ELSE "Color",
                     parent     |-> current,
                     start_text |-> <<s>>,
                     end_text   |-> << >>,
                     enclosing  |-> IF mstack = << >> THEN None ELSE Last(mstack),
                     mark       |-> mark]
    <2>1. /\ pc = "decode" /\ mark' = mark /\ stale' = stale
          /\ tags' = Append(tags, r)
          /\ str' = [str EXCEPT !.markup = Append(@, new)]
          /\ current' = new /\ mstack' = Append(mstack, new)
      BY <1>4, <1>7 DEF OpenTag
    <2>2. r.parent = current /\ r.mark = mark
      OBVIOUS
    <2> HIDE DEF r
    <2>3. /\ Len(tags') = new
          /\ \A t \in 1 .. Len(tags) : tags'[t] = tags[t]
          /\ tags'[new] = r
      BY <1>1, <2>1, AppendProperties
    <2>4. /\ Len(mstack') = Len(mstack) + 1
          /\ \A i \in 1 .. Len(mstack) : mstack'[i] = mstack[i]
          /\ mstack'[Len(mstack) + 1] = new
      <3>1. new \in Nat
        BY <1>1
      <3> QED BY <1>1, <2>1, <3>1, AppendProperties
    <2>5. mark <= Len(tags) /\ new > mark
      BY <1>1 DEF MInv
    <2>6. str'.markup = stale' \o MadeSince(Len(tags) - mark)'
      <3>1. PICK n : n = Len(tags) - mark
        OBVIOUS
      <3>2. n \in Nat /\ new = mark + n + 1 /\ Len(tags') - mark' = n + 1
            /\ new \in Nat
        <4>1. Len(tags') = Len(tags) + 1 /\ mark' = mark /\ mark <= Len(tags)
          BY <2>1, <2>3, <2>5
        <4>2. mark \in Nat /\ Len(tags) \in Nat
          BY <1>1
        <4> QED BY ONLY <3>1, <4>1, <4>2
      <3>3. str'.markup = Append(str.markup, new)
        BY <2>1 DEF TypeOK, String
      <3>4. MadeSince(n) \in Seq(Nat) /\ Append(MadeSince(n), new) = MadeSince(n + 1)
        BY <1>1, <3>2, OneMoreMade, Zenon
      <3>5. Append(stale \o MadeSince(n), new) = stale \o Append(MadeSince(n), new)
        <4>1. PICK q, e : q = MadeSince(n) /\ e = new
          OBVIOUS
        <4>2. stale \in Seq(Nat)
          BY <1>1
        <4>3. q \in Seq(Nat)
          BY <3>4, <4>1
        <4>4. e \in Nat
          BY <3>2, <4>1
        <4>5. stale \o Append(q, e) = Append(stale \o q, e)
          BY ONLY <4>2, <4>3, <4>4, ConcatAppend
        <4> QED BY <4>1, <4>5, Zenon
      <3>6. str.markup = stale \o MadeSince(n)
        BY <1>2, <2>1, <3>1
      <3>7. MadeSince(Len(tags) - mark)' = MadeSince(n + 1)
        BY <2>1, <3>2 DEF MadeSince
      <3> QED BY <2>1, <3>3, <3>4, <3>5, <3>6, <3>7, Zenon
    <2>7. \A t \in 1 .. Len(tags') :
            tags'[t].parent # None => tags'[t].parent > tags'[t].mark
      <3> SUFFICES ASSUME NEW t \in 1 .. Len(tags')
                   PROVE  tags'[t].parent # None => tags'[t].parent > tags'[t].mark
        OBVIOUS
      <3>1. CASE t = new
        BY <2>1, <2>2, <2>3, <3>1 DEF MInv
      <3>2. CASE t # new
        <4>1. t \in 1 .. Len(tags)
          BY <1>1, <2>3, <3>2
        <4> QED BY <2>3, <4>1 DEF MInv
      <3> QED BY <3>1, <3>2
    <2>8. \A i \in 1 .. Len(mstack') : mstack'[i] > mark'
      <3> SUFFICES ASSUME NEW i \in 1 .. Len(mstack')
                   PROVE  mstack'[i] > mark'
        OBVIOUS
      <3>1. CASE i = Len(mstack) + 1
        BY <2>1, <2>4, <2>5, <3>1
      <3>2. CASE i # Len(mstack) + 1
        <4>1. i \in 1 .. Len(mstack)
          BY <1>1, <2>4, <3>2
        <4> QED BY <2>1, <2>4, <4>1 DEF MInv
      <3> QED BY <3>1, <3>2
    <2>9. mark' <= Len(tags')
      BY <1>1, <2>1, <2>3, <2>5
    <2> QED BY <2>1, <2>5, <2>6, <2>7, <2>8, <2>9 DEF MInv
  <1>8. ASSUME NEW s \in Char, OpenText(s) PROVE MInv'
    <2>1. PICK i : i = Last(str.markup)
      OBVIOUS
    <2>2. tags' = [tags EXCEPT ![i].start_text = Append(@, s)]
      BY <1>8, <2>1 DEF OpenText
    <2>3. /\ Len(tags') = Len(tags)
          /\ \A t \in 1 .. Len(tags) : /\ tags'[t].parent = tags[t].parent
                                       /\ tags'[t].mark = tags[t].mark
      BY <1>1, <2>2, TextGrows
    <2> QED BY <1>3, <1>4, <1>8, <2>3 DEF OpenText
  <1>9. ASSUME NEW s \in Char, CloseText(s) PROVE MInv'
    <2>1. CASE mstack = << >>
      BY <1>3, <1>4, <1>9, <2>1 DEF CloseText
    <2>2. CASE mstack # << >>
      <3>1. PICK i : i = Last(mstack)
        OBVIOUS
      <3>2. tags' = [tags EXCEPT ![i].end_text = Append(@, s)]
        BY <1>9, <2>2, <3>1 DEF CloseText
      <3>3. /\ Len(tags') = Len(tags)
            /\ \A t \in 1 .. Len(tags) : /\ tags'[t].parent = tags[t].parent
                                         /\ tags'[t].mark = tags[t].mark
        BY <1>1, <3>2, TextGrows
      <3> QED BY <1>3, <1>4, <1>9, <3>3 DEF CloseText
    <2> QED BY <2>1, <2>2
  <1>10. ASSUME NEW s \in Char, CloseEnd(s) PROVE MInv'
    <2>1. /\ pc = "decode" /\ mark' = mark /\ stale' = stale /\ tags' = tags
      BY <1>4, <1>10 DEF CloseEnd
    <2>2. CASE Reject
      BY <2>1, <2>2 DEF Reject, Ends, MInv
    <2>3. CASE Pop
      <3>1. /\ mstack # << >> /\ current' = Last(mstack)
            /\ mstack' = Front(mstack) /\ str' = str
        BY <2>3 DEF Pop
      <3>2. /\ Len(mstack) > 0 /\ Last(mstack) = mstack[Len(mstack)]
            /\ Len(mstack') = Len(mstack) - 1
            /\ \A i \in 1 .. Len(mstack) - 1 : mstack'[i] = mstack[i]
        BY <1>1, <3>1, FrontAndLast
      <3>3. current' > mark' /\ \A i \in 1 .. Len(mstack') : mstack'[i] > mark'
        BY <1>1, <2>1, <3>1, <3>2 DEF MInv
      <3>4. MadeSince(Len(tags) - mark)' = MadeSince(Len(tags) - mark)
        BY <2>1 DEF MadeSince
      <3>5. str'.markup = stale' \o MadeSince(Len(tags) - mark)'
        BY <1>2, <2>1, <3>1, <3>4, Zenon
      <3> QED BY <2>1, <3>3, <3>5 DEF MInv
    <2>4. CASE ~Reject /\ ~Pop
      BY <1>3, <1>10, <2>1, <2>4 DEF CloseEnd
    <2> QED BY <2>2, <2>3, <2>4
  <1>11. CASE Decoded
    <2>1. pc = "decode" /\ UNCHANGED <<str, tags, mark, stale, current, mstack>>
      BY <1>11 DEF Decoded, objectVars, decoderVars, historyVars
    <2> QED BY <1>3, <2>1
  <1> QED BY <1>5, <1>6, <1>7, <1>8, <1>9, <1>10, <1>11 DEF DecodeStep

LEMMA MarkupInvariance == Spec => []MInv
  <1>1. Init => MInv
    <2> SUFFICES ASSUME Init PROVE MInv
      OBVIOUS
    <2>1. Len(tags) = 0 /\ mark = 0 /\ pc = "ready" /\ outcome = "none"
      BY EmptySeq DEF Init
    <2> QED BY <2>1 DEF MInv
  <1>2. TypeOK /\ MInv /\ [Next]_vars => MInv'
    <2> SUFFICES ASSUME TypeOK, MInv, [Next]_vars PROVE MInv'
      OBVIOUS
    <2>1. CASE UNCHANGED vars
      BY <2>1 DEF MInv, MadeSince, vars, objectVars, decoderVars, historyVars
    <2>2. CASE Next
      BY <2>2, CallMInv, DecodeMInv DEF Next
    <2> QED BY <2>1, <2>2
  <1> QED BY TypesHold, <1>1, <1>2, PTL DEF Spec

(* An accepted source's tags are all there, in order, and none from before *)
(* but those that nothing cleared; no tag is the child of another source's.*)
THEOREM TagsAreOfSource == Spec => []MarkupOfSource
  <1>1. TypeOK /\ MInv => MarkupOfSource
    <2> SUFFICES ASSUME TypeOK, MInv PROVE MarkupOfSource
      OBVIOUS
    <2>1. DOMAIN tags = 1 .. Len(tags)
      BY LenProperties DEF TypeOK
    <2> QED BY <2>1 DEF MInv, MadeSince, MarkupOfSource
  <1> QED BY TypesHold, MarkupInvariance, <1>1, PTL

-----------------------------------------------------------------------------
(* The elements of a source.                                               *)
Element == [kind : {"char", "open", "close"}, type : Char \cup {""},
            text : Seq(Char)]

(* A tag's text ends at the first END behind its first character, or at    *)
(* the end of the source.                                                  *)
LEMMA WhereTagsEnd ==
  ASSUME NEW s, s \in Seq(Char), NEW i, i \in Nat, i + 2 <= Len(s)
  PROVE  /\ EndOf(s, i) \in i + 3 .. Len(s) + 1
         /\ (\A j \in i + 3 .. Len(s) : s[j] # "END") => EndOf(s, i) = Len(s) + 1
         /\ \A q \in i + 3 .. Len(s) :
              s[q] = "END" /\ (\A j \in i + 3 .. q - 1 : s[j] # "END")
                => EndOf(s, i) = q
  <1> DEFINE ends == {j \in i + 3 .. Len(s) : s[j] = "END"}
  <1>1. EndOf(s, i) = IF ends = {} THEN Len(s) + 1
                      ELSE CHOOSE j \in ends : \A k \in ends : j <= k
    BY DEF EndOf
  <1>2. Len(s) \in Nat
    BY LenProperties
  <1>3. ends \subseteq Nat
    BY <1>2
  <1>4. ASSUME ends # {}
        PROVE  EndOf(s, i) \in ends /\ \A k \in ends : EndOf(s, i) <= k
    <2> HIDE DEF ends
    <2>1. \E m \in ends : \A y \in ends : m <= y
      BY <1>3, <1>4, LeastOfNats
    <2> QED BY <1>1, <1>4, <2>1
  <1>5. EndOf(s, i) \in i + 3 .. Len(s) + 1
    <2>1. CASE ends = {}
      BY <1>1, <1>2, <2>1
    <2>2. CASE ends # {}
      BY <1>2, <1>4, <2>2
    <2> QED BY <2>1, <2>2
  <1>6. ASSUME \A j \in i + 3 .. Len(s) : s[j] # "END"
        PROVE  EndOf(s, i) = Len(s) + 1
    BY <1>1, <1>6
  <1>7. ASSUME NEW q \in i + 3 .. Len(s), s[q] = "END",
               \A j \in i + 3 .. q - 1 : s[j] # "END"
        PROVE  EndOf(s, i) = q
    <2>1. q \in ends
      BY <1>7
    <2>2. EndOf(s, i) \in ends /\ EndOf(s, i) <= q
      BY <1>4, <2>1
    <2>3. ~(EndOf(s, i) \in i + 3 .. q - 1)
      BY <1>7, <2>2
    <2> QED BY <1>2, <2>2, <2>3
  <1> QED BY <1>5, <1>6, <1>7

(* No element begins here; where the one that does is followed.            *)
NoneAt(s, i) == i > Len(s) \/ (s[i] = "START" /\ i + 2 > Len(s))
Following(s, i) == IF s[i] # "START" THEN i + 1 ELSE EndOf(s, i) + 1

LEMMA ElementIsTyped ==
  ASSUME NEW s, s \in Seq(Char), NEW i, i \in 1 .. Len(s), ~NoneAt(s, i)
  PROVE  /\ ElementAt(s, i) \in Element
         /\ Following(s, i) \in i + 1 .. Len(s) + 2
         /\ ElementAt(s, i).kind = IF s[i] # "START" THEN "char"
                                   ELSE IF s[i + 2] = "/" THEN "close" ELSE "open"
         /\ s[i] # "START" => ElementAt(s, i).text = <<s[i]>>
         /\ s[i] = "START" => /\ ElementAt(s, i).type = s[i + 1]
                              /\ ElementAt(s, i).text
                                   = SubSeq(s, i + 2, EndOf(s, i) - 1)
  <1>1. Len(s) \in Nat /\ \A j \in 1 .. Len(s) : s[j] \in Char
    BY LenProperties, ElementOfSeq
  <1>2. CASE s[i] # "START"
    <2>1. ElementAt(s, i) = [kind |-> "char", type |-> "", text |-> <<s[i]>>]
      BY <1>2 DEF ElementAt
    <2>2. <<s[i]>> \in Seq(Char)
      BY <1>1
    <2>3. [kind |-> "char", type |-> "", text |-> <<s[i]>>] \in Element
      <3>1. "" \in Char \cup {""}
        OBVIOUS
      <3> QED BY <2>2, <3>1 DEF Element
    <2>4. Following(s, i) \in i + 1 .. Len(s) + 2
      <3>1. Following(s, i) = i + 1
        BY <1>2 DEF Following
      <3> QED BY <1>1, <3>1
    <2>5. ElementAt(s, i).kind = "char" /\ ElementAt(s, i).text = <<s[i]>>
      <3>1. PICK t, k, u : t = <<s[i]>> /\ k = "char" /\ u = ""
        OBVIOUS
      <3>2. ElementAt(s, i) = [kind |-> k, type |-> u, text |-> t]
        BY <2>1, <3>1, Zenon
      <3>3. ElementAt(s, i).kind = k /\ ElementAt(s, i).text = t
        BY ONLY <3>2
      <3> QED BY <3>1, <3>3, Zenon
    <2>6. ElementAt(s, i) \in Element
      BY <2>1, <2>3, Zenon
    <2> QED BY <1>2, <2>4, <2>5, <2>6, Zenon
  <1>3. CASE s[i] = "START"
    <2>1. i \in Nat /\ i + 2 <= Len(s) /\ i + 1 \in 1 .. Len(s)
      BY <1>1, <1>3 DEF NoneAt
    <2>2. EndOf(s, i) \in i + 3 .. Len(s) + 1
      BY <2>1, WhereTagsEnd
    <2>3. SubSeq(s, i + 2, EndOf(s, i) - 1) \in Seq(Char)
      <3>1. PICK e : e = EndOf(s, i) - 1
        OBVIOUS
      <3>2. e \in Int /\ i + 2 \in Int /\ e <= Len(s)
        BY <1>1, <2>2, <3>1
      <3>3. \A j \in i + 2 .. e : s[j] \in Char
        BY <1>1, <3>2
      <3>4. PICK a : a = i + 2
        OBVIOUS
      <3>5. SubSeq(s, a, e) \in Seq(Char)
        BY <3>2, <3>3, <3>4, SubSeqProperties
      <3> QED BY <3>1, <3>4, <3>5
    <2>4. PICK k, c, t : /\ k = IF s[i + 2] = "/" THEN "close" ELSE "open"
                         /\ c = s[i + 1]
                         /\ t = SubSeq(s, i + 2, EndOf(s, i) - 1)
      OBVIOUS
    <2>5. ElementAt(s, i) = [kind |-> k, type |-> c, text |-> t]
      BY <1>3, <2>4, Zenon DEF ElementAt
    <2>6. k \in {"char", "open", "close"} /\ c \in Char \cup {""} /\ t \in Seq(Char)
      BY <1>1, <2>1, <2>3, <2>4
    <2>7. [kind |-> k, type |-> c, text |-> t] \in Element
      BY <2>6 DEF Element
    <2>8. Following(s, i) = EndOf(s, i) + 1
      BY <1>3 DEF Following
    <2>9. Following(s, i) \in i + 1 .. Len(s) + 2
      BY <1>1, <2>1, <2>2, <2>8
    <2>10. /\ ElementAt(s, i).kind = k /\ ElementAt(s, i).type = c
           /\ ElementAt(s, i).text = t
      BY ONLY <2>5
    <2> QED BY <1>3, <2>4, <2>5, <2>7, <2>9, <2>10
  <1> QED BY <1>2, <1>3

(* The elements from each place on, as their definition has them: of what  *)
(* such a function is where it is called, only what comes behind matters.  *)
LEMMA ElementsRead ==
  ASSUME NEW s, s \in Seq(Char), NEW i, i \in 1 .. Len(s) + 2
  PROVE  /\ ElementsFrom(s)[i] \in Seq(Element)
         /\ NoneAt(s, i) => ElementsFrom(s)[i] = << >>
         /\ ~NoneAt(s, i) => ElementsFrom(s)[i]
                               = <<ElementAt(s, i)>> \o ElementsFrom(s)[Following(s, i)]
  <1> DEFINE n == Len(s) + 2
             Rest(f, j) == IF NoneAt(s, j) THEN << >>
                           ELSE <<ElementAt(s, j)>> \o f[Following(s, j)]
             Reads(f, k) == \A j \in k .. n : f[j] = Rest(f, j)
             Has(k) == \E f : Reads(f, k) /\ DOMAIN f = k .. n
             P == {d \in Nat : d < n => Has(n - d)}
             from == CHOOSE f : f = [j \in 1 .. n |-> Rest(f, j)]
  <1>1. n \in Nat /\ n > 1 /\ Len(s) \in Nat
    BY LenProperties
  <1>2. ASSUME NEW j \in 1 .. n, ~NoneAt(s, j)
        PROVE  Following(s, j) \in j + 1 .. n
    <2>1. j \in 1 .. Len(s)
      BY <1>1, <1>2 DEF NoneAt
    <2> QED BY <1>2, <2>1, ElementIsTyped
  <1>3. NoneAt(s, n)
    BY <1>1 DEF NoneAt
  <1>4. 0 \in P
    <2> DEFINE f == [j \in n .. n |-> << >>]
    <2>1. DOMAIN f = n .. n /\ f[n] = << >>
      BY <1>1
    <2>2. \A j \in n .. n : j = n
      BY <1>1
    <2>3. Reads(f, n)
      BY <1>3, <2>1, <2>2
    <2>4. Has(n - 0)
      <3>1. n - 0 = n
        BY <1>1
      <3> HIDE DEF f
      <3> QED BY <2>1, <2>3, <3>1
    <2> QED BY <2>4
  <1>5. ASSUME NEW d \in Nat, d \in P PROVE d + 1 \in P
    <2>1. SUFFICES ASSUME d + 1 < n PROVE Has(n - (d + 1))
      OBVIOUS
    <2>2. PICK k : k = n - (d + 1)
      OBVIOUS
    <2>3. k \in 1 .. n /\ n - d = k + 1 /\ k \in Nat
      BY <1>1, <2>1, <2>2
    <2>4. Has(k + 1)
      BY <1>1, <1>5, <2>1, <2>3
    <2>5. PICK f : Reads(f, k + 1) /\ DOMAIN f = k + 1 .. n
      BY <2>4
    <2> DEFINE g == [j \in k .. n |-> IF j = k THEN Rest(f, j) ELSE f[j]]
    <2>6. \A j \in k .. n : g[j] = IF j = k THEN Rest(f, j) ELSE f[j]
      OBVIOUS
    <2>7. \A j \in k + 1 .. n : g[j] = f[j]
      <3> SUFFICES ASSUME NEW j \in k + 1 .. n PROVE g[j] = f[j]
        OBVIOUS
      <3>1. j \in k .. n /\ j # k
        BY <2>3
      <3> QED BY <2>6, <3>1
    <2>8. g[k] = Rest(f, k)
      BY <2>3
    <2>9. DOMAIN g = k .. n
      OBVIOUS
    <2> HIDE DEF g
    <2>10. \A j \in k .. n : Rest(g, j) = Rest(f, j)
      <3> SUFFICES ASSUME NEW j \in k .. n, ~NoneAt(s, j)
                   PROVE  g[Following(s, j)] = f[Following(s, j)]
        OBVIOUS
      <3>1. j \in 1 .. n
        BY <2>3
      <3>2. Following(s, j) \in j + 1 .. n
        BY <1>2, <3>1
      <3>3. Following(s, j) \in k + 1 .. n
        BY <1>1, <2>3, <3>1, <3>2
      <3> QED BY <2>7, <3>3
    <2>11. Reads(g, k)
      <3> SUFFICES ASSUME NEW j \in k .. n PROVE g[j] = Rest(g, j)
        OBVIOUS
      <3>1. CASE j = k
        BY <2>8, <2>10, <3>1
      <3>2. CASE j # k
        <4>1. j \in k + 1 .. n
          BY <2>3, <3>2
        <4>2. f[j] = Rest(f, j)
          BY <2>5, <4>1
        <4> HIDE DEF Rest
        <4> QED BY <2>7, <2>10, <4>1, <4>2
      <3> QED BY <3>1, <3>2
    <2> HIDE DEF Reads
    <2> QED BY <2>2, <2>9, <2>11
  <1>6. PICK f : Reads(f, 1) /\ DOMAIN f = 1 .. n
    <2>1. n - 1 \in Nat /\ n - 1 < n /\ n - (n - 1) = 1
      BY <1>1
    <2>2. n - 1 \in P
      <3> HIDE DEF P
      <3> QED BY <1>4, <1>5, <2>1, NatSetInduction
    <2> HIDE DEF Has
    <2>3. Has(1)
      BY <2>1, <2>2
    <2> QED BY <2>3 DEF Has
  <1> DEFINE g == [j \in 1 .. n |-> f[j]]
  <1>7. g = [j \in 1 .. n |-> Rest(g, j)]
    <2>1. \A j \in 1 .. n : g[j] = f[j]
      OBVIOUS
    <2>2. \A j \in 1 .. n : f[j] = Rest(f, j)
      BY <1>6
    <2>3. \A j \in 1 .. n : Rest(f, j) = Rest(g, j)
      <3> SUFFICES ASSUME NEW j \in 1 .. n, ~NoneAt(s, j)
                   PROVE  g[Following(s, j)] = f[Following(s, j)]
        OBVIOUS
      <3>1. Following(s, j) \in 1 .. n
        BY <1>2
      <3> QED BY <2>1, <3>1
    <2> HIDE DEF Rest
    <2> QED BY <2>2, <2>3
  <1>8. from = [j \in 1 .. n |-> Rest(from, j)]
    <2> HIDE DEF g, Rest
    <2> QED BY <1>7, Zenon
  <1>9. ElementsFrom(s) = from
    BY Zenon DEF ElementsFrom, NoneAt, Following
  <1>10. \A j \in 1 .. n : from[j] = Rest(from, j)
    <2> HIDE DEF from, Rest
    <2> QED BY <1>8
  <1> HIDE DEF from
  <1> DEFINE Q == {d \in Nat : \A j \in 1 .. n : n - j <= d => from[j] \in Seq(Element)}
  <1>11. ASSUME NEW j \in 1 .. n,
                ~NoneAt(s, j) => from[Following(s, j)] \in Seq(Element)
         PROVE  from[j] \in Seq(Element)
    <2>1. CASE NoneAt(s, j)
      BY <1>10, <2>1, EmptySeq
    <2>2. CASE ~NoneAt(s, j)
      <3>1. j \in 1 .. Len(s)
        BY <1>1, <2>2 DEF NoneAt
      <3>2. PICK e : e = ElementAt(s, j)
        OBVIOUS
      <3>3. e \in Element
        BY <2>2, <3>1, <3>2, ElementIsTyped
      <3>4. <<e>> \in Seq(Element)
        BY <3>3
      <3>5. <<e>> \o from[Following(s, j)] \in Seq(Element)
        BY <1>11, <2>2, <3>4, ConcatProperties
      <3> QED BY <1>10, <2>2, <3>2, <3>5
    <2> QED BY <2>1, <2>2
  <1>12. 0 \in Q
    <2> SUFFICES ASSUME NEW j \in 1 .. n, n - j <= 0 PROVE from[j] \in Seq(Element)
      OBVIOUS
    <2>1. j = n
      BY <1>1
    <2> QED BY <1>3, <1>11, <2>1
  <1>13. ASSUME NEW d \in Nat, d \in Q PROVE d + 1 \in Q
    <2> SUFFICES ASSUME NEW j \in 1 .. n, n - j <= d + 1 PROVE from[j] \in Seq(Element)
      OBVIOUS
    <2>1. ASSUME ~NoneAt(s, j) PROVE from[Following(s, j)] \in Seq(Element)
      <3>1. PICK k : k = Following(s, j)
        OBVIOUS
      <3>2. k \in j + 1 .. n
        BY <1>2, <2>1, <3>1
      <3>3. k \in 1 .. n /\ n - k <= d
        BY <1>1, <3>2
      <3> QED BY <1>13, <3>1, <3>3
    <2> QED BY <1>11, <2>1
  <1>14. from[i] \in Seq(Element)
    <2>1. n \in Q
      <3> HIDE DEF Q
      <3> QED BY <1>1, <1>12, <1>13, NatSetInduction
    <2>2. n - i <= n
      BY <1>1
    <2> QED BY <2>1, <2>2
  <1>15. from[i] = Rest(from, i)
    BY <1>10
  <1> QED BY <1>9, <1>14, <1>15


(* The characters among elements, which are the text of what they came     *)
(* from without its tags.                                                  *)
TextOf == [e \in Element |-> IF e.kind = "char" THEN e.text ELSE << >>]
Chars(es) == FlattenSeq(Mapped(TextOf, es))

LEMMA TextOfIsMap ==
  TextOf \in Maps(Element, Text)
  <1>1. \A e \in Element : e.text \in Text
    BY TextsAreText DEF Element
  <1>2. << >> \in Text
    BY TextsAreText
  <1> QED BY <1>1, <1>2 DEF TextOf, Maps

LEMMA CharsAppend ==
  ASSUME NEW es, es \in Seq(Element), NEW e, e \in Element
  PROVE  /\ Chars(es) \in Text
         /\ e.kind = "char" => Chars(Append(es, e)) = Chars(es) \o e.text
         /\ e.kind # "char" => Chars(Append(es, e)) = Chars(es)
         /\ Chars(<< >>) = << >>
  <1>1. PICK A, B, f : A = Element /\ B = Char \cup {"ERROR"} /\ f = TextOf
    OBVIOUS
  <1>2. f \in Maps(A, Seq(B))
    BY <1>1, TextOfIsMap DEF Text
  <1>3. es \in Seq(A)
    BY <1>1
  <1>4. e \in A
    BY <1>1
  <1>5. Mapped(f, es) \in Seq(Seq(B))
    <2>1. PICK T : T = Seq(B)
      OBVIOUS
    <2>2. f \in Maps(A, T)
      BY <1>2, <2>1
    <2>3. Mapped(f, es) \in Seq(T)
      BY ONLY <2>2, <1>3, MapIsTyped
    <2> QED BY <2>1, <2>3
  <1>6. Mapped(f, Append(es, e)) = Append(Mapped(f, es), f[e])
    BY ONLY <1>2, <1>3, <1>4, MapAppend
  <1>7. f[e] \in Seq(B)
    BY <1>2, <1>4 DEF Maps
  <1>8. FlattenSeq(Mapped(f, es)) \in Seq(B)
    BY ONLY <1>5, FlattenIsTyped
  <1>9. FlattenSeq(Append(Mapped(f, es), f[e])) = FlattenSeq(Mapped(f, es)) \o f[e]
    BY ONLY <1>5, <1>7, FlattenAppend
  <1>10. e.kind = "char" => f[e] = e.text
    BY <1>1 DEF TextOf
  <1>11. e.kind # "char" => f[e] = << >>
    BY <1>1 DEF TextOf
  <1>12. FlattenSeq(Mapped(f, es)) \o << >> = FlattenSeq(Mapped(f, es))
    BY <1>8, ConcatEmptySeq
  <1>13. Chars(<< >>) = << >>
    <2>1. PICK none : none = << >>
      OBVIOUS
    <2>a. none \in Seq(A)
      BY <2>1, EmptySeq
    <2>2. PICK T : T = Seq(B)
      OBVIOUS
    <2>3. f \in Maps(A, T)
      BY <1>2, <2>2
    <2>4. Mapped(f, none) \in Seq(T) /\ Len(Mapped(f, none)) = Len(none)
      BY ONLY <2>a, <2>3, MapIsTyped
    <2>5. Mapped(f, << >>) = << >>
      BY <2>1, <2>4, EmptySeq
    <2> QED BY <1>1, <2>5, FlattenOfNothing DEF Chars
  <1>14. Chars(es) \in Text
    BY <1>1, <1>8 DEF Chars, Text
  <1>15. Chars(Append(es, e)) = Chars(es) \o f[e] /\ Chars(es) \o << >> = Chars(es)
    BY <1>1, <1>6, <1>9, <1>12, Zenon DEF Chars
  <1> QED BY <1>10, <1>11, <1>13, <1>14, <1>15, Zenon

LEMMA CharsWritten ==
  ASSUME NEW es, es \in Seq(Element)
  PROVE  Chars(es) = FlattenSeq([i \in DOMAIN es |-> IF es[i].kind = "char"
                                                      THEN es[i].text ELSE << >>])
  <1>1. \A i \in DOMAIN es : es[i] \in Element
    BY LenProperties, ElementOfSeq
  <1>2. \A i \in DOMAIN es :
          TextOf[es[i]] = IF es[i].kind = "char" THEN es[i].text ELSE << >>
    BY <1>1 DEF TextOf
  <1>3. Mapped(TextOf, es) = [i \in DOMAIN es |-> IF es[i].kind = "char"
                                                  THEN es[i].text ELSE << >>]
    BY <1>2 DEF Mapped
  <1> QED BY <1>3 DEF Chars

(* Counting: one element more, and the first of more elements.             *)
LEMMA Counting ==
  ASSUME NEW es, es \in Seq(Element), NEW kind
  PROVE  /\ CountOf(es, Len(es), kind) \in Nat
         /\ \A e \in Element :
              CountOf(Append(es, e), Len(es) + 1, kind)
                = CountOf(es, Len(es), kind) + IF e.kind = kind THEN 1 ELSE 0
         /\ \A rest \in Seq(Element) :
              CountOf(es \o rest, Len(es), kind) = CountOf(es, Len(es), kind)
  <1> DEFINE n == Len(es)
             T == {i \in 1 .. n : es[i].kind = kind}
  <1>1. n \in Nat
    BY LenProperties
  <1>2. IsFiniteSet(T) /\ Cardinality(T) \in Nat
    <2>1. IsFiniteSet(1 .. n)
      BY <1>1, FS_Interval
    <2>2. T \in SUBSET (1 .. n)
      OBVIOUS
    <2> HIDE DEF T
    <2>3. IsFiniteSet(T)
      BY <2>1, <2>2, FS_Subset
    <2> QED BY <2>3, FS_CardinalityType
  <1>3. CountOf(es, n, kind) = Cardinality(T)
    BY DEF CountOf
  <1>4. ASSUME NEW e \in Element
        PROVE  CountOf(Append(es, e), n + 1, kind)
                 = Cardinality(T) + IF e.kind = kind THEN 1 ELSE 0
    <2>1. /\ \A i \in 1 .. n : Append(es, e)[i] = es[i]
          /\ Append(es, e)[n + 1] = e
      BY AppendProperties
    <2> DEFINE U == {i \in 1 .. n + 1 : Append(es, e)[i].kind = kind}
    <2>2. U = IF e.kind = kind THEN T \cup {n + 1} ELSE T
      <3>1. \A i : i \in 1 .. n + 1 <=> i \in 1 .. n \/ i = n + 1
        BY <1>1
      <3> QED BY <2>1, <3>1
    <2>3. CountOf(Append(es, e), n + 1, kind) = Cardinality(U)
      BY DEF CountOf
    <2>4. n + 1 \notin T
      BY <1>1
    <2> HIDE DEF T, U
    <2>5. Cardinality(T \cup {n + 1}) = Cardinality(T) + 1
      BY <1>2, <2>4, FS_AddElement
    <2> QED BY <1>2, <2>2, <2>3, <2>5
  <1>5. ASSUME NEW rest \in Seq(Element)
        PROVE  CountOf(es \o rest, n, kind) = Cardinality(T)
    <2>1. Len(rest) \in Nat
      BY LenProperties
    <2>2. \A i \in 1 .. n : (es \o rest)[i] = es[i]
      <3>1. \A i \in 1 .. Len(es) + Len(rest) :
              (es \o rest)[i] = IF i <= Len(es) THEN es[i] ELSE rest[i - Len(es)]
        BY ConcatProperties
      <3> SUFFICES ASSUME NEW i \in 1 .. n PROVE (es \o rest)[i] = es[i]
        OBVIOUS
      <3>2. i \in 1 .. Len(es) + Len(rest) /\ i <= Len(es)
        BY <1>1, <2>1
      <3> QED BY <3>1, <3>2
    <2>3. {i \in 1 .. n : (es \o rest)[i].kind = kind} = T
      BY <2>2
    <2> QED BY <2>3 DEF CountOf
  <1> QED BY <1>2, <1>3, <1>4, <1>5

(* The same a position at a time, of any sequence.                         *)
LEMMA CountStep ==
  ASSUME NEW es, NEW n \in Nat, NEW kind
  PROVE  /\ CountOf(es, n, kind) \in Nat
         /\ CountOf(es, n + 1, kind)
              = CountOf(es, n, kind) + IF es[n + 1].kind = kind THEN 1 ELSE 0
  <1> DEFINE T == {i \in 1 .. n : es[i].kind = kind}
             U == {i \in 1 .. n + 1 : es[i].kind = kind}
  <1>1. IsFiniteSet(T) /\ Cardinality(T) \in Nat
    <2>1. IsFiniteSet(1 .. n)
      BY FS_Interval
    <2>2. T \in SUBSET (1 .. n)
      OBVIOUS
    <2> HIDE DEF T
    <2>3. IsFiniteSet(T)
      BY <2>1, <2>2, FS_Subset
    <2> QED BY <2>3, FS_CardinalityType
  <1>2. U = IF es[n + 1].kind = kind THEN T \cup {n + 1} ELSE T
    <2>1. \A i : i \in 1 .. n + 1 <=> i \in 1 .. n \/ i = n + 1
      OBVIOUS
    <2> QED BY <2>1
  <1>3. n + 1 \notin T
    OBVIOUS
  <1>4. CountOf(es, n, kind) = Cardinality(T) /\ CountOf(es, n + 1, kind) = Cardinality(U)
    BY DEF CountOf
  <1> HIDE DEF T, U
  <1>5. Cardinality(T \cup {n + 1}) = Cardinality(T) + 1
    BY <1>1, <1>3, FS_AddElement
  <1> QED BY <1>1, <1>2, <1>4, <1>5

LEMMA DepthStep ==
  ASSUME NEW es, NEW n \in Nat
  PROVE  /\ Depth(es, n) \in Int
         /\ es[n + 1].kind = "open" => Depth(es, n + 1) = Depth(es, n) + 1
         /\ es[n + 1].kind = "close" => Depth(es, n + 1) = Depth(es, n) - 1
         /\ es[n + 1].kind = "char" => Depth(es, n + 1) = Depth(es, n)
  <1>1. PICK o, c, o2, c2 :
          /\ o = CountOf(es, n, "open") /\ c = CountOf(es, n, "close")
          /\ o2 = CountOf(es, n + 1, "open") /\ c2 = CountOf(es, n + 1, "close")
    OBVIOUS
  <1>2. /\ o \in Nat /\ c \in Nat
        /\ o2 = o + IF es[n + 1].kind = "open" THEN 1 ELSE 0
        /\ c2 = c + IF es[n + 1].kind = "close" THEN 1 ELSE 0
    BY <1>1, CountStep, Zenon
  <1>3. Depth(es, n) = o - c /\ Depth(es, n + 1) = o2 - c2
    BY <1>1, Zenon DEF Depth
  <1> QED BY <1>2, <1>3

(* Sequences that begin alike.                                             *)
LEMMA SameBeginning ==
  ASSUME NEW es, NEW more, NEW n \in Nat, \A i \in 1 .. n : more[i] = es[i]
  PROVE  /\ \A m \in 0 .. n : Depth(more, m) = Depth(es, m)
         /\ \A i, j \in 1 .. n : Closes(more, j, i) <=> Closes(es, j, i)
         /\ \A i \in 1 .. n, j \in 1 .. n + 1 :
              LastTagBefore(more, j, i) <=> LastTagBefore(es, j, i)
  <1>1. \A m \in 0 .. n : Depth(more, m) = Depth(es, m)
    <2> SUFFICES ASSUME NEW m \in 0 .. n PROVE Depth(more, m) = Depth(es, m)
      OBVIOUS
    <2>1. \A i \in 1 .. m : more[i] = es[i]
      OBVIOUS
    <2>2. \A kind : {i \in 1 .. m : more[i].kind = kind} = {i \in 1 .. m : es[i].kind = kind}
      BY <2>1
    <2>3. \A kind : CountOf(more, m, kind) = CountOf(es, m, kind)
      BY <2>2, Zenon DEF CountOf
    <2>4. /\ CountOf(more, m, "open") = CountOf(es, m, "open")
          /\ CountOf(more, m, "close") = CountOf(es, m, "close")
      BY <2>3
    <2> QED BY <2>4 DEF Depth
  <1>2. ASSUME NEW i \in 1 .. n, NEW j \in 1 .. n
        PROVE  Closes(more, j, i) <=> Closes(es, j, i)
    <2>1. \A m \in i .. j - 1 : Depth(more, m) = Depth(es, m)
      BY <1>1
    <2>2. Depth(more, i) = Depth(es, i) /\ Depth(more, j) = Depth(es, j)
      BY <1>1
    <2>3. more[i] = es[i] /\ more[j] = es[j]
      OBVIOUS
    <2> QED BY <2>1, <2>2, <2>3 DEF Closes
  <1>3. ASSUME NEW i \in 1 .. n, NEW j \in 1 .. n + 1
        PROVE  LastTagBefore(more, j, i) <=> LastTagBefore(es, j, i)
    <2>1. ASSUME NEW k \in i .. j - 1
          PROVE  /\ Closes(more, k, i) <=> Closes(es, k, i)
                 /\ \A m \in k + 1 .. j - 1 : more[m] = es[m]
      <3>1. k \in 1 .. n
        OBVIOUS
      <3>2. \A m \in k + 1 .. j - 1 : m \in 1 .. n
        OBVIOUS
      <3> QED BY <1>2, <3>1, <3>2
    <2>2. more[i] = es[i]
      OBVIOUS
    <2> QED BY <2>1, <2>2 DEF LastTagBefore
  <1> QED BY <1>1, <1>2, <1>3

(* A closing tag closes one tag.                                           *)
LEMMA ClosesOne ==
  ASSUME NEW es, NEW j \in Nat, NEW i1 \in 1 .. j, NEW i2 \in 1 .. j,
         Closes(es, j, i1), Closes(es, j, i2)
  PROVE  i1 = i2
  <1>1. ASSUME NEW a \in 1 .. j, NEW c \in 1 .. j, a < c,
               Closes(es, j, a), Closes(es, j, c)
        PROVE  FALSE
    <2>1. /\ es[c].kind = "open" /\ es[j].kind = "close" /\ c < j
          /\ Depth(es, j) < Depth(es, a) /\ Depth(es, j) < Depth(es, c)
          /\ \A m \in a .. j - 1 : Depth(es, m) >= Depth(es, a)
          /\ \A m \in c .. j - 1 : Depth(es, m) >= Depth(es, c)
      BY <1>1 DEF Closes
    <2>2. j - 1 \in Nat /\ c - 1 \in Nat /\ c - 1 \in a .. j - 1 /\ j - 1 \in c .. j - 1
          /\ (j - 1) + 1 = j /\ (c - 1) + 1 = c
      BY <1>1, <2>1
    <2>3. Depth(es, j - 1) \in Int /\ Depth(es, j) = Depth(es, j - 1) - 1
      BY <2>1, <2>2, DepthStep
    <2>4. Depth(es, c - 1) \in Int /\ Depth(es, c) = Depth(es, c - 1) + 1
      BY <2>1, <2>2, DepthStep
    <2>5. Depth(es, a) \in Int /\ Depth(es, c - 1) >= Depth(es, a)
          /\ Depth(es, j - 1) >= Depth(es, c)
      BY <2>1, <2>2, DepthStep
    <2> QED BY <2>1, <2>3, <2>4, <2>5
  <1>2. i1 < i2 \/ i2 < i1 \/ i1 = i2
    OBVIOUS
  <1> QED BY <1>1, <1>2

-----------------------------------------------------------------------------
(* A source divided where an element begins, or none does.                 *)
Divided(s, es, b) ==
  es \in Seq(Element) /\ Elements(s) = es \o ElementsFrom(s)[b]

(* What decode_markup knows in the middle of a source.  The part that it   *)
(* has dealt with is the elements es; the next one begins at b; p          *)
(* characters have been read.                                              *)
Covers(e, t) ==
  /\ e.kind = "open" /\ e.text = t.start_text
  /\ (e.type = "p") <=> (t.type = "MXP")

(* Where it is, in each of its states.                                     *)
Reading(b, p) ==
  /\ p \in Nat /\ Len(str.source) = p + Len(unread)
  /\ \A i \in 1 .. Len(unread) : unread[i] = str.source[p + i]
  /\ b \in 1 .. Len(str.source) + 1
  /\ state = 0 => b = p + 1
  /\ state # 0 => b <= Len(str.source) /\ str.source[b] = "START"
  /\ state = 1 => b = p
  /\ state = 2 => b + 1 = p /\ tag = str.source[b + 1]
  /\ state \in {3, 4} =>
       /\ b + 2 <= p
       /\ state = 4 <=> str.source[b + 2] = "/"
       /\ \A j \in b + 3 .. p : str.source[j] # "END"

(* The tag of element i is the one that was opened or closed last.         *)
IsLast(es, i) == LastTagBefore(es, Len(es) + 1, i)

(* No closing tag came behind a tag with wrong codes.                      *)
Settled(es) ==
  \A i, j \in 1 .. Len(es) :
    es[j].kind = "close" /\ LastTagBefore(es, j, i) => ~WrongCodes(es[i])

(* The tag that was opened or closed last is the current one.              *)
Opened(es) ==
  /\ \A i \in 1 .. Len(es) :
       IsLast(es, i) => current # None /\ Covers(es[i], tags[current])
  /\ current # None =>
       \E i \in 1 .. Len(es) : IsLast(es, i) /\ Covers(es[i], tags[current])

(* The tag k deep on mstack is the one whose element made the depth k and  *)
(* behind which it has not been less.                                      *)
Held(es, k, t) ==
  \E i \in 1 .. Len(es) :
    /\ Covers(es[i], tags[t])
    /\ Depth(es, i) = k
    /\ \A m \in i .. Len(es) : Depth(es, m) >= k

(* All of mstack is, but for a tag that is still being read in state 3.    *)
Stacked(es) ==
  \A k \in 1 .. Len(mstack) :
    \/ state = 3 /\ k = Len(mstack)
    \/ /\ Held(es, k, mstack[k])
       /\ state = 3 => mstack[k] < Len(tags)

Newest(b, p) ==
  /\ current = Len(tags) /\ Len(tags) > mark
  /\ mstack # << >> /\ mstack[Len(mstack)] = current
  /\ tags[Len(tags)].start_text = SubSeq(str.source, b + 2, p)
  /\ (str.source[b + 1] = "p") <=> (tags[Len(tags)].type = "MXP")

(* Every open element put one tag on mstack, every close took one off.     *)
Balanced(es) ==
  CountOf(es, Len(es), "open") + (IF state = 3 THEN 1 ELSE 0)
    = CountOf(es, Len(es), "close") + Len(mstack)

Referring ==
  /\ current <= Len(tags)
  /\ current = None => mstack = << >>
  /\ \A i \in 1 .. Len(mstack) : mstack[i] \in 1 .. Len(tags)

Decoding(es, b, p) ==
  /\ Reading(b, p)
  /\ Divided(str.source, es, b)
  /\ str.text = Chars(es)
  /\ Settled(es)
  /\ state # 3 => Opened(es)
  /\ Stacked(es)
  /\ state = 3 => Newest(b, p)
  /\ Balanced(es)
  /\ Referring

DInv ==
  /\ pc = "decode" => \E es, b, p : Decoding(es, b, p)
  /\ pc # "ready" => outcome = "none"
  /\ TagsAreStripped /\ FailsOnlyUnbalanced /\ RejectedForCodes

-----------------------------------------------------------------------------
(* One element more.                                                       *)
OneMore(es, e, more) ==
  /\ Len(es) \in Nat /\ Len(more) = Len(es) + 1
  /\ \A i \in 1 .. Len(es) : more[i] = es[i]
  /\ more[Len(es) + 1] = e

(* The next element is dealt with.                                         *)
LEMMA Another ==
  ASSUME NEW s, s \in Seq(Char), NEW es, NEW b, b \in 1 .. Len(s),
         ~NoneAt(s, b), Divided(s, es, b),
         NEW e, e = ElementAt(s, b), NEW more, more = Append(es, e),
         NEW next, next = Following(s, b)
  PROVE  /\ e \in Element
         /\ OneMore(es, e, more)
         /\ next \in 1 .. Len(s) + 2
         /\ Divided(s, more, next)
  <1>0. es \in Seq(Element) /\ Elements(s) = es \o ElementsFrom(s)[b]
    BY DEF Divided
  <1>1. Len(s) \in Nat /\ Len(es) \in Nat
    BY <1>0, LenProperties
  <1>2. e \in Element /\ Following(s, b) \in b + 1 .. Len(s) + 2
    BY ElementIsTyped
  <1>3. Following(s, b) \in 1 .. Len(s) + 2 /\ b \in 1 .. Len(s) + 2
    BY <1>1, <1>2
  <1>4. PICK r, k : r = ElementsFrom(s)[Following(s, b)] /\ k = Following(s, b)
    OBVIOUS
  <1>5. r \in Seq(Element)
    BY <1>3, <1>4, ElementsRead
  <1>6. ElementsFrom(s)[b] = <<e>> \o r
    BY <1>3, <1>4, ElementsRead
  <1>7. PICK A, one : A = Element /\ one = <<e>>
    OBVIOUS
  <1>8. es \in Seq(A) /\ one \in Seq(A) /\ r \in Seq(A) /\ e \in A
    BY <1>0, <1>2, <1>5, <1>7
  <1>9. (es \o one) \o r = es \o (one \o r)
    BY ONLY <1>8, ConcatAssociative
  <1>10. Append(es, e) = es \o one
    BY <1>7, <1>8, AppendIsConcat
  <1>11. Elements(s) = Append(es, e) \o r
    BY <1>0, <1>6, <1>7, <1>9, <1>10, Zenon
  <1>12. /\ Append(es, e) \in Seq(A) /\ Len(Append(es, e)) = Len(es) + 1
         /\ \A i \in 1 .. Len(es) : Append(es, e)[i] = es[i]
         /\ Append(es, e)[Len(es) + 1] = e
    BY ONLY <1>8, AppendProperties
  <1>13. Elements(s) = more \o ElementsFrom(s)[next]
    BY <1>4, <1>11, Zenon
  <1>14. more \in Seq(Element)
    BY <1>7, <1>12
  <1>15. Divided(s, more, next)
    BY <1>13, <1>14 DEF Divided
  <1>16. OneMore(es, e, more)
    BY <1>1, <1>12 DEF OneMore
  <1> QED BY <1>2, <1>3, <1>15, <1>16

LEMMA SettledAppend ==
  ASSUME NEW es, NEW e, NEW more, OneMore(es, e, more), Settled(es),
         e.kind = "close" =>
           \A i \in 1 .. Len(es) : IsLast(es, i) => ~WrongCodes(es[i])
  PROVE  Settled(more)
  <1> DEFINE n == Len(es)
  <1>1. /\ n \in Nat /\ Len(more) = n + 1
        /\ \A i \in 1 .. n : more[i] = es[i]
        /\ more[n + 1] = e
    BY DEF OneMore
  <1>2. SUFFICES ASSUME NEW i \in 1 .. n + 1, NEW j \in 1 .. n + 1,
                        more[j].kind = "close", LastTagBefore(more, j, i)
                 PROVE  ~WrongCodes(more[i])
    BY <1>1 DEF Settled
  <1>3. i \in 1 .. n /\ more[i] = es[i]
    <2>1. \E k \in i .. j - 1 : TRUE
      BY <1>2 DEF LastTagBefore
    <2>2. i \in 1 .. n
      BY <1>1, <2>1
    <2> QED BY <1>1, <2>2
  <1>4. LastTagBefore(es, j, i)
    <2>1. \A a \in 1 .. n, c \in 1 .. n + 1 :
            LastTagBefore(more, c, a) <=> LastTagBefore(es, c, a)
      BY <1>1, SameBeginning
    <2> QED BY <1>2, <1>3, <2>1
  <1>5. CASE j = n + 1
    BY <1>1, <1>2, <1>3, <1>4, <1>5 DEF IsLast
  <1>6. CASE j # n + 1
    <2>1. j \in 1 .. n /\ more[j] = es[j]
      BY <1>1, <1>6
    <2> QED BY <1>2, <1>3, <1>4, <2>1 DEF Settled
  <1> QED BY <1>5, <1>6

(* The tag that is opened or closed last, with one element more.           *)
LEMMA NextIsLast ==
  ASSUME NEW es, NEW e, NEW more, OneMore(es, e, more),
         NEW i \in 1 .. Len(more)
  PROVE  /\ e.kind = "char" =>
              (IsLast(more, i) <=> i \in 1 .. Len(es) /\ IsLast(es, i))
         /\ e.kind = "open" => (IsLast(more, i) <=> i = Len(more))
         /\ e.kind = "close" => (IsLast(more, i) <=> Closes(more, Len(more), i))
  <1> DEFINE n == Len(es)
             Tags(k) == \/ k = i /\ more[i].kind = "open"
                        \/ Closes(more, k, i)
  <1>1. /\ n \in Nat /\ Len(more) = n + 1 /\ i \in 1 .. n + 1
        /\ \A k \in 1 .. n : more[k] = es[k]
        /\ more[n + 1] = e
    BY DEF OneMore
  <1>2. IsLast(more, i) <=>
          \E k \in i .. n + 1 : Tags(k) /\ \A m \in k + 1 .. n + 1 : more[m].kind = "char"
    <2>1. Len(more) + 1 - 1 = n + 1
      BY <1>1
    <2> QED BY <2>1 DEF IsLast, LastTagBefore
  <1>3. \A k : Tags(k) => more[k].kind \in {"open", "close"}
    BY DEF Closes
  <1>4. Closes(more, n + 1, i) => e.kind = "close"
    BY <1>1 DEF Closes
  <1>5. ASSUME e.kind = "char"
        PROVE  IsLast(more, i) <=> i \in 1 .. n /\ IsLast(es, i)
    <2>1. \A k \in i .. n + 1 :
            /\ Tags(k) => k \in i .. n
            /\ k \in i .. n =>
                 ((\A m \in k + 1 .. n + 1 : more[m].kind = "char")
                    <=> \A m \in k + 1 .. n : more[m].kind = "char")
      <3> SUFFICES ASSUME NEW k \in i .. n + 1
                   PROVE  /\ Tags(k) => k \in i .. n
                          /\ k \in i .. n =>
                               ((\A m \in k + 1 .. n + 1 : more[m].kind = "char")
                                  <=> \A m \in k + 1 .. n : more[m].kind = "char")
        OBVIOUS
      <3>1. k \in i .. n \/ k = n + 1
        BY <1>1
      <3>2. Tags(k) => k # n + 1
        BY <1>1, <1>3, <1>5
      <3>3. \A m : m \in k + 1 .. n + 1 => m \in k + 1 .. n \/ m = n + 1
        BY <1>1
      <3>4. \A m : m \in k + 1 .. n => m \in k + 1 .. n + 1
        BY <1>1
      <3> HIDE DEF Tags
      <3> QED BY <1>1, <1>5, <3>1, <3>2, <3>3, <3>4
    <2>2. IsLast(more, i) <=> LastTagBefore(more, n + 1, i)
      <3>1. n + 1 - 1 = n /\ \A k : k \in i .. n => k \in i .. n + 1
        BY <1>1
      <3>2. LastTagBefore(more, n + 1, i) <=>
              \E k \in i .. n : Tags(k) /\ \A m \in k + 1 .. n : more[m].kind = "char"
        BY <3>1 DEF LastTagBefore
      <3> HIDE DEF Tags
      <3> QED BY <1>2, <2>1, <3>1, <3>2
    <2>3. IsLast(more, i) => i \in 1 .. n
      <3>1. IsLast(more, i) => \E k \in i .. n : TRUE
        BY <1>2, <2>1
      <3> QED BY <1>1, <3>1
    <2>4. i \in 1 .. n => (LastTagBefore(more, n + 1, i) <=> LastTagBefore(es, n + 1, i))
      <3>1. \A a \in 1 .. n, c \in 1 .. n + 1 :
              LastTagBefore(more, c, a) <=> LastTagBefore(es, c, a)
        BY <1>1, SameBeginning
      <3>2. n + 1 \in 1 .. n + 1
        BY <1>1
      <3> QED BY <3>1, <3>2
    <2> QED BY <2>2, <2>3, <2>4 DEF IsLast
  <1>6. ASSUME e.kind # "char"
        PROVE  IsLast(more, i) <=> Tags(n + 1)
    <2>1. \A k \in i .. n + 1 :
            (\A m \in k + 1 .. n + 1 : more[m].kind = "char") <=> k = n + 1
      <3> SUFFICES ASSUME NEW k \in i .. n + 1
                   PROVE  (\A m \in k + 1 .. n + 1 : more[m].kind = "char") <=> k = n + 1
        OBVIOUS
      <3>1. k # n + 1 => n + 1 \in k + 1 .. n + 1
        BY <1>1
      <3>2. k = n + 1 => \A m \in k + 1 .. n + 1 : FALSE
        BY <1>1
      <3> QED BY <1>1, <1>6, <3>1, <3>2
    <2>2. n + 1 \in i .. n + 1
      BY <1>1
    <2> HIDE DEF Tags
    <2> QED BY <1>2, <2>1, <2>2
  <1>7. ASSUME e.kind = "open" PROVE IsLast(more, i) <=> i = n + 1
    BY <1>1, <1>4, <1>6, <1>7
  <1>8. ASSUME e.kind = "close" PROVE IsLast(more, i) <=> Closes(more, n + 1, i)
    BY <1>1, <1>6, <1>8
  <1> QED BY <1>1, <1>5, <1>7, <1>8

(* A tag on mstack stays what it was while the depth is not less.          *)
LEMMA StillHeld ==
  ASSUME NEW es, NEW e, NEW more, OneMore(es, e, more), NEW k, NEW t,
         Held(es, k, t), Depth(more, Len(more)) >= k
  PROVE  Held(more, k, t)
  <1>1. /\ Len(es) \in Nat /\ Len(more) = Len(es) + 1
        /\ \A i \in 1 .. Len(es) : more[i] = es[i]
    BY DEF OneMore
  <1>2. PICK i \in 1 .. Len(es) :
          /\ Covers(es[i], tags[t]) /\ Depth(es, i) = k
          /\ \A m \in i .. Len(es) : Depth(es, m) >= k
    BY DEF Held
  <1>3. \A m \in 0 .. Len(es) : Depth(more, m) = Depth(es, m)
    BY <1>1, SameBeginning
  <1>4. i \in 1 .. Len(more) /\ more[i] = es[i] /\ Depth(more, i) = k
    BY <1>1, <1>2, <1>3
  <1>5. \A m \in i .. Len(more) : Depth(more, m) >= k
    <2> SUFFICES ASSUME NEW m \in i .. Len(more) PROVE Depth(more, m) >= k
      OBVIOUS
    <2>1. m = Len(more) \/ m \in i .. Len(es)
      BY <1>1
    <2> QED BY <1>1, <1>2, <1>3, <2>1
  <1> QED BY <1>2, <1>4, <1>5 DEF Held

(* Behind what has been dealt with, as many tags are open as mstack holds, *)
(* but for one that is still being read.                                   *)
LEMMA DepthIs ==
  ASSUME TypeOK, NEW es, es \in Seq(Element), Balanced(es)
  PROVE  /\ Len(mstack) \in Nat /\ Len(es) \in Nat
         /\ state = 3 => Depth(es, Len(es)) + 1 = Len(mstack)
         /\ state # 3 => Depth(es, Len(es)) = Len(mstack)
         /\ Depth(es, Len(es)) \in Int
  <1>1. Len(mstack) \in Nat /\ Len(es) \in Nat
    BY LenProperties DEF TypeOK
  <1>2. PICK o, c : o = CountOf(es, Len(es), "open") /\ c = CountOf(es, Len(es), "close")
    OBVIOUS
  <1>3. o \in Nat /\ c \in Nat
    BY <1>1, <1>2, CountStep
  <1>4. o + (IF state = 3 THEN 1 ELSE 0) = c + Len(mstack)
    BY <1>2 DEF Balanced
  <1>5. Depth(es, Len(es)) = o - c
    BY <1>2, Zenon DEF Depth
  <1> QED BY <1>1, <1>3, <1>4, <1>5

(* The decoder takes the next character.                                   *)
LEMMA TakesNext ==
  ASSUME TypeOK, NEW b, NEW p, Reading(b, p), NEW s, NEW now, NEW next,
         Take(s, now, next), str'.source = str.source
  PROVE  /\ Len(str.source) \in Nat
         /\ p + 1 \in 1 .. Len(str.source) /\ s = str.source[p + 1]
         /\ s \in Char
         /\ Len(str'.source) = p + 1 + Len(unread')
         /\ \A i \in 1 .. Len(unread') : unread'[i] = str'.source[p + 1 + i]
  <1>1. /\ unread \in Seq(Char) /\ unread # << >> /\ s = Head(unread)
        /\ unread' = Tail(unread) /\ str.source \in Seq(Char)
    BY StringFields DEF TypeOK, Take
  <1>2. /\ Len(unread) \in Nat /\ Len(unread) > 0 /\ Len(str.source) \in Nat
        /\ s \in Char /\ s = unread[1]
        /\ unread' \in Seq(Char)
        /\ Len(unread') = Len(unread) - 1
        /\ \A i \in 1 .. Len(unread') : unread'[i] = unread[i + 1]
    <2>1. Head(unread) = unread[1]
      OBVIOUS
    <2> QED BY <1>1, <2>1, LenProperties, EmptySeq, HeadTailProperties
  <1>3. /\ p \in Nat /\ Len(str.source) = p + Len(unread)
        /\ \A i \in 1 .. Len(unread) : unread[i] = str.source[p + i]
    BY DEF Reading
  <1>4. p + 1 \in 1 .. Len(str.source) /\ s = str.source[p + 1]
    BY <1>2, <1>3
  <1>5. Len(str'.source) = p + 1 + Len(unread')
    BY <1>2, <1>3
  <1>6. ASSUME NEW i \in 1 .. Len(unread')
        PROVE  unread'[i] = str'.source[p + 1 + i]
    <2>1. i + 1 \in 1 .. Len(unread) /\ p + (i + 1) = p + 1 + i
      BY <1>2, <1>3
    <2> QED BY <1>2, <1>3, <2>1
  <1> QED BY <1>2, <1>4, <1>5, <1>6

LEMMA CharElement ==
  ASSUME NEW s, s \in Seq(Char), NEW i, i \in 1 .. Len(s), s[i] # "START",
         NEW e, e = ElementAt(s, i)
  PROVE  /\ ~NoneAt(s, i) /\ Following(s, i) = i + 1
         /\ e.kind = "char" /\ e.text = <<s[i]>>
  <1>1. Len(s) \in Nat
    BY LenProperties
  <1>2. ~NoneAt(s, i)
    BY <1>1 DEF NoneAt
  <1>3. Following(s, i) = i + 1
    BY DEF Following
  <1>4. s \in Seq(Char)
    OBVIOUS
  <1>5. i \in 1 .. Len(s)
    OBVIOUS
  <1>6. /\ ElementAt(s, i).kind = IF s[i] # "START" THEN "char"
                                  ELSE IF s[i + 2] = "/" THEN "close" ELSE "open"
        /\ s[i] # "START" => ElementAt(s, i).text = <<s[i]>>
    BY ONLY <1>2, <1>4, <1>5, ElementIsTyped
  <1> QED BY <1>2, <1>3, <1>6, Zenon

LEMMA TagElement ==
  ASSUME NEW s, s \in Seq(Char), NEW i, i \in 1 .. Len(s), s[i] = "START",
         i + 2 <= Len(s), NEW e, e = ElementAt(s, i)
  PROVE  /\ ~NoneAt(s, i) /\ Following(s, i) = EndOf(s, i) + 1
         /\ e.kind = IF s[i + 2] = "/" THEN "close" ELSE "open"
         /\ e.type = s[i + 1]
         /\ e.text = SubSeq(s, i + 2, EndOf(s, i) - 1)
  <1>1. Len(s) \in Nat
    BY LenProperties
  <1>2. ~NoneAt(s, i)
    BY <1>1 DEF NoneAt
  <1>3. Following(s, i) = EndOf(s, i) + 1
    BY DEF Following
  <1>4. s \in Seq(Char)
    OBVIOUS
  <1>5. i \in 1 .. Len(s)
    OBVIOUS
  <1>6. /\ ElementAt(s, i).kind = IF s[i] # "START" THEN "char"
                                  ELSE IF s[i + 2] = "/" THEN "close" ELSE "open"
        /\ s[i] = "START" => /\ ElementAt(s, i).type = s[i + 1]
                             /\ ElementAt(s, i).text
                                  = SubSeq(s, i + 2, EndOf(s, i) - 1)
    BY ONLY <1>2, <1>4, <1>5, ElementIsTyped
  <1> QED BY <1>2, <1>3, <1>6, Zenon


(* A tag whose END comes next has been read whole.                         *)
LEMMA TagIsRead ==
  ASSUME TypeOK, NEW b, NEW p, Reading(b, p), state = 3 \/ state = 4,
         p + 1 \in 1 .. Len(str.source), str.source[p + 1] = "END",
         NEW e, e = ElementAt(str.source, b)
  PROVE  /\ b \in 1 .. Len(str.source) /\ ~NoneAt(str.source, b)
         /\ Following(str.source, b) = p + 2
         /\ e.kind = IF state = 4 THEN "close" ELSE "open"
         /\ e.type = str.source[b + 1]
         /\ e.text = SubSeq(str.source, b + 2, p)
  <1>1. PICK s : s = str.source
    OBVIOUS
  <1>2. s \in Seq(Char) /\ Len(s) \in Nat
    BY <1>1, StringFields, LenProperties DEF TypeOK
  <1>3. /\ p \in Nat /\ b \in 1 .. Len(s) + 1 /\ b <= Len(s) /\ s[b] = "START"
        /\ b + 2 <= p /\ (state = 4 <=> s[b + 2] = "/")
        /\ \A j \in b + 3 .. p : s[j] # "END"
    BY <1>1 DEF Reading
  <1>4. b \in 1 .. Len(s) /\ b \in Nat /\ b + 2 <= Len(s) /\ p + 1 \in b + 3 .. Len(s)
    BY <1>1, <1>2, <1>3
  <1>5. EndOf(s, b) = p + 1
    <2>1. PICK q : q = p + 1
      OBVIOUS
    <2>2. q \in b + 3 .. Len(s) /\ s[q] = "END"
      BY <1>1, <1>4, <2>1
    <2>3. \A j \in b + 3 .. q - 1 : s[j] # "END"
      BY <1>3, <2>1
    <2>4. EndOf(s, b) = q
      BY <1>2, <1>4, <2>2, <2>3, WhereTagsEnd
    <2> QED BY <2>1, <2>4
  <1>6. ~NoneAt(s, b)
    BY <1>2, <1>4 DEF NoneAt
  <1>7. Following(s, b) = p + 2
    BY <1>3, <1>5 DEF Following
  <1>8. /\ e.kind = IF s[b + 2] = "/" THEN "close" ELSE "open"
        /\ e.type = s[b + 1]
        /\ e.text = SubSeq(s, b + 2, EndOf(s, b) - 1)
    <2>1. e = ElementAt(s, b)
      BY <1>1
    <2>2. s \in Seq(Char)
      BY <1>2
    <2>3. b \in 1 .. Len(s)
      BY <1>4
    <2>4. s[b] = "START"
      BY <1>3
    <2>5. b + 2 <= Len(s)
      BY <1>4
    <2> QED BY ONLY <2>1, <2>2, <2>3, <2>4, <2>5, TagElement
  <1>9. EndOf(s, b) - 1 = p
    BY <1>3, <1>5
  <1> QED BY <1>1, <1>3, <1>4, <1>6, <1>7, <1>8, <1>9

(* A step in which nothing is finished.                                    *)
LEMMA Onward ==
  ASSUME TypeOK, NEW es, NEW b, NEW p, Decoding(es, b, p),
         NEW q, Reading(b, q)', state # 3, state' # 3,
         str' = str, current' = current, mstack' = mstack, mark' = mark,
         Len(tags') = Len(tags),
         \A t \in 1 .. Len(tags) : /\ tags'[t].type = tags[t].type
                                   /\ tags'[t].start_text = tags[t].start_text
  PROVE  Decoding(es, b, q)'
  <1>1. /\ current \in Nat /\ Len(tags) \in Nat /\ mark \in Nat
        /\ current <= Len(tags)
    BY LenProperties DEF TypeOK, Decoding, Referring
  <1>2. ASSUME NEW t \in 1 .. Len(tags), NEW e, Covers(e, tags[t])
        PROVE  Covers(e, tags'[t])
    BY <1>2 DEF Covers
  <1>3. Opened(es)'
    <2>1. Opened(es)
      BY DEF Decoding
    <2>2. current # None => current \in 1 .. Len(tags)
      BY <1>1 DEF None
    <2>3. \A i : current # None =>
            (Covers(es[i], tags'[current]) <=> Covers(es[i], tags[current]))
      BY <2>2 DEF Covers
    <2> QED BY <2>1, <2>3 DEF Opened
  <1>4. Stacked(es)'
    <2> SUFFICES ASSUME NEW k \in 1 .. Len(mstack)
                 PROVE  Held(es, k, mstack[k])'
      BY DEF Stacked
    <2>1. Held(es, k, mstack[k]) /\ mstack[k] \in 1 .. Len(tags)
      BY DEF Decoding, Stacked, Referring
    <2> QED BY <1>2, <2>1 DEF Held
  <1>5. Balanced(es)' /\ Referring'
    BY DEF Decoding, Balanced, Referring
  <1> QED BY <1>3, <1>4, <1>5 DEF Decoding

LEMMA StepStart ==
  ASSUME TypeOK, NEW es, NEW b, NEW p, Decoding(es, b, p),
         NEW s \in Char, TakeStart(s)
  PROVE  Decoding(es, b, p + 1)'
  <1>1. /\ Take(s, 0, 1) /\ s = "START" /\ str' = str /\ tags' = tags
        /\ mstack' = mstack /\ current' = current /\ mark' = mark
        /\ state = 0 /\ state' = 1
    BY DEF TakeStart, Take, historyVars
  <1>2. Reading(b, p)
    BY DEF Decoding
  <1>3. /\ Len(str.source) \in Nat
        /\ p + 1 \in 1 .. Len(str.source) /\ s = str.source[p + 1]
        /\ Len(str'.source) = p + 1 + Len(unread')
        /\ \A i \in 1 .. Len(unread') : unread'[i] = str'.source[p + 1 + i]
    BY <1>1, <1>2, TakesNext
  <1>4. Reading(b, p + 1)'
    BY <1>1, <1>2, <1>3 DEF Reading
  <1> QED BY <1>1, <1>4, Onward

LEMMA StepType ==
  ASSUME TypeOK, NEW es, NEW b, NEW p, Decoding(es, b, p),
         NEW s \in Char, TakeType(s)
  PROVE  Decoding(es, b, p + 1)'
  <1>1. /\ Take(s, 1, 2) /\ tag' = s /\ str' = str /\ tags' = tags
        /\ mstack' = mstack /\ current' = current /\ mark' = mark
        /\ state = 1 /\ state' = 2
    BY DEF TakeType, Take, historyVars
  <1>2. Reading(b, p)
    BY DEF Decoding
  <1>3. /\ Len(str.source) \in Nat
        /\ p + 1 \in 1 .. Len(str.source) /\ s = str.source[p + 1]
        /\ Len(str'.source) = p + 1 + Len(unread')
        /\ \A i \in 1 .. Len(unread') : unread'[i] = str'.source[p + 1 + i]
    BY <1>1, <1>2, TakesNext
  <1>4. Reading(b, p + 1)'
    BY <1>1, <1>2, <1>3 DEF Reading
  <1> QED BY <1>1, <1>4, Onward

LEMMA StepClose ==
  ASSUME TypeOK, NEW es, NEW b, NEW p, Decoding(es, b, p),
         NEW s \in Char, CloseTag(s)
  PROVE  Decoding(es, b, p + 1)'
  <1>1. /\ Take(s, 2, 4) /\ s = "/" /\ str' = str /\ tags' = tags
        /\ mstack' = mstack /\ current' = current /\ mark' = mark
        /\ state = 2 /\ state' = 4
    BY DEF CloseTag, Take, historyVars
  <1>2. Reading(b, p)
    BY DEF Decoding
  <1>3. /\ Len(str.source) \in Nat
        /\ p + 1 \in 1 .. Len(str.source) /\ s = str.source[p + 1]
        /\ Len(str'.source) = p + 1 + Len(unread')
        /\ \A i \in 1 .. Len(unread') : unread'[i] = str'.source[p + 1 + i]
    BY <1>1, <1>2, TakesNext
  <1>4. Reading(b, p + 1)'
    <2>1. p \in Nat /\ b \in 1 .. Len(str.source) + 1 /\ b + 1 = p
      BY <1>1, <1>2 DEF Reading
    <2>2. b + 2 = p + 1 /\ \A j \in b + 3 .. p + 1 : FALSE
      BY <1>3, <2>1
    <2> QED BY <1>1, <1>2, <1>3, <2>2 DEF Reading
  <1> QED BY <1>1, <1>4, Onward

LEMMA StepCloseText ==
  ASSUME TypeOK, NEW es, NEW b, NEW p, Decoding(es, b, p),
         NEW s \in Char, CloseText(s), mstack # << >>
  PROVE  Decoding(es, b, p + 1)'
  <1>1. /\ Take(s, 4, 4) /\ s # "END" /\ str' = str
        /\ mstack' = mstack /\ current' = current /\ mark' = mark
        /\ state = 4 /\ state' = 4
        /\ tags' = [tags EXCEPT ![Last(mstack)].end_text = Append(@, s)]
    BY DEF CloseText, Take, historyVars
  <1>2. Reading(b, p)
    BY DEF Decoding
  <1>3. /\ Len(str.source) \in Nat
        /\ p + 1 \in 1 .. Len(str.source) /\ s = str.source[p + 1]
        /\ Len(str'.source) = p + 1 + Len(unread')
        /\ \A i \in 1 .. Len(unread') : unread'[i] = str'.source[p + 1 + i]
    BY <1>1, <1>2, TakesNext
  <1>4. Reading(b, p + 1)'
    <2>1. /\ p \in Nat /\ b \in 1 .. Len(str.source) + 1 /\ b + 2 <= p
          /\ \A j \in b + 3 .. p : str.source[j] # "END"
      BY <1>1, <1>2 DEF Reading
    <2>2. b + 2 <= p + 1
      BY <2>1
    <2>3. \A j \in b + 3 .. p + 1 : str.source[j] # "END"
      <3> SUFFICES ASSUME NEW j \in b + 3 .. p + 1 PROVE str.source[j] # "END"
        OBVIOUS
      <3>1. j = p + 1 \/ j \in b + 3 .. p
        BY <2>1
      <3> QED BY <1>1, <1>3, <2>1, <3>1
    <2> QED BY <1>1, <1>2, <1>3, <2>2, <2>3 DEF Reading
  <1>5. /\ Len(tags') = Len(tags)
        /\ \A t \in 1 .. Len(tags) : /\ tags'[t].type = tags[t].type
                                     /\ tags'[t].start_text = tags[t].start_text
    <2>1. PICK i : i = Last(mstack)
      OBVIOUS
    <2>2. tags' = [tags EXCEPT ![i].end_text = Append(@, s)] /\ tags \in Seq(Tag)
      BY <1>1, <2>1 DEF TypeOK
    <2> QED BY <2>2, TextGrows
  <1> QED BY <1>1, <1>4, <1>5, Onward

LEMMA StepChar ==
  ASSUME TypeOK, NEW es, NEW b, NEW p, Decoding(es, b, p),
         NEW s \in Char, TakeChar(s)
  PROVE  \E more : Decoding(more, b + 1, p + 1)'
  <1>1. /\ Take(s, 0, 0) /\ s # "START" /\ tags' = tags
        /\ mstack' = mstack /\ current' = current /\ mark' = mark
        /\ state = 0 /\ state' = 0
    BY DEF TakeChar, Take, historyVars
  <1>2. str'.source = str.source /\ str'.text = Append(str.text, s)
    <2> DEFINE t == Append(str.text, s)
               e == Append(str.idx, [markup |-> None, char |-> s])
    <2>1. str' = [str EXCEPT !.text = t, !.idx = e]
      BY DEF TakeChar
    <2> HIDE DEF t, e
    <2>2. str'.source = str.source /\ str'.text = t
      BY <2>1 DEF TypeOK, String
    <2> QED BY <2>2 DEF t
  <1>3. Reading(b, p)
    BY DEF Decoding
  <1>4. /\ Len(str.source) \in Nat
        /\ p + 1 \in 1 .. Len(str.source) /\ s = str.source[p + 1]
        /\ Len(str'.source) = p + 1 + Len(unread')
        /\ \A i \in 1 .. Len(unread') : unread'[i] = str'.source[p + 1 + i]
    BY <1>1, <1>2, <1>3, TakesNext
  <1>5. p \in Nat /\ b = p + 1
    BY <1>1, <1>3 DEF Reading
  <1>6. Reading(b + 1, p + 1)'
    <2>1. p + 1 \in Nat /\ b + 1 = p + 1 + 1 /\ b + 1 \in 1 .. Len(str'.source) + 1
      BY <1>2, <1>4, <1>5
    <2> QED BY <1>1, <1>4, <2>1 DEF Reading
  <1>7. PICK c, e : c = str.source /\ e = ElementAt(str.source, b)
    OBVIOUS
  <1>8. /\ c \in Seq(Char) /\ b \in 1 .. Len(c) /\ c[b] # "START" /\ c[b] = s
        /\ ~NoneAt(c, b) /\ Following(c, b) = b + 1
    <2>1. c \in Seq(Char)
      BY <1>7, StringFields DEF TypeOK
    <2>2. b \in 1 .. Len(c) /\ c[b] = s
      BY <1>4, <1>5, <1>7
    <2> QED BY <1>1, <1>4, <1>7, <2>1, <2>2 DEF NoneAt, Following
  <1>9. e.kind = "char" /\ e.text = <<s>>
    <2>1. e = ElementAt(c, b)
      BY <1>7
    <2> QED BY <1>8, <2>1, CharElement
  <1>10. es \in Seq(Element) /\ Divided(c, es, b)
    BY <1>7 DEF Decoding, Divided
  <1>11. PICK more : more = Append(es, e)
    OBVIOUS
  <1>12. /\ e \in Element
         /\ more \in Seq(Element) /\ Len(more) = Len(es) + 1
         /\ Len(es) \in Nat
         /\ \A i \in 1 .. Len(es) : more[i] = es[i]
         /\ more[Len(es) + 1] = e
         /\ Divided(c, more, b + 1)
    <2>1. e = ElementAt(c, b)
      BY <1>7
    <2>2. PICK next : next = Following(c, b)
      OBVIOUS
    <2>3. e \in Element /\ OneMore(es, e, more) /\ Divided(c, more, next)
      <3>1. c \in Seq(Char)
        BY <1>8
      <3>2. b \in 1 .. Len(c)
        BY <1>8
      <3>3. ~NoneAt(c, b)
        BY <1>8
      <3>4. Divided(c, es, b)
        BY <1>10
      <3> QED BY ONLY <1>11, <2>1, <2>2, <3>1, <3>2, <3>3, <3>4, Another
    <2>4. next = b + 1 /\ more \in Seq(Element)
      BY <1>8, <2>2, <2>3 DEF Divided
    <2> QED BY <2>3, <2>4 DEF OneMore
  <1>13. str'.text = Chars(more)
    <2>1. str.text \in Seq(Char \cup {"ERROR"}) /\ s \in Char \cup {"ERROR"}
      BY StringFields DEF TypeOK, Text
    <2>2. Append(str.text, s) = str.text \o <<s>>
      BY <2>1, AppendIsConcat
    <2>3. Chars(Append(es, e)) = Chars(es) \o e.text
      BY <1>9, <1>10, <1>12, CharsAppend
    <2>4. str.text = Chars(es)
      BY DEF Decoding
    <2> QED BY <1>2, <1>9, <1>11, <2>2, <2>3, <2>4, Zenon
  <1>a. OneMore(es, e, more)
    BY <1>12 DEF OneMore
  <1>14. Settled(more)
    BY <1>9, <1>a, SettledAppend DEF Decoding
  <1>15. Opened(more)'
    <2>1. Opened(es)
      BY <1>1 DEF Decoding
    <2>2. \A i \in 1 .. Len(more) : IsLast(more, i) <=> i \in 1 .. Len(es) /\ IsLast(es, i)
      BY <1>9, <1>a, NextIsLast
    <2>3. \A i \in 1 .. Len(es) : i \in 1 .. Len(more) /\ more[i] = es[i]
      BY <1>12
    <2> QED BY <1>1, <2>1, <2>2, <2>3 DEF Opened
  <1>16. Stacked(more)'
    <2> SUFFICES ASSUME NEW k \in 1 .. Len(mstack) PROVE Held(more, k, mstack[k])'
      BY <1>1 DEF Stacked
    <2>1. Held(es, k, mstack[k])
      BY <1>1 DEF Decoding, Stacked
    <2>2. Depth(es, Len(es)) = Len(mstack) /\ Len(mstack) \in Nat
      BY <1>1, <1>10, DepthIs DEF Decoding
    <2>3. Depth(more, Len(more)) = Depth(es, Len(es))
      <3>1. \A m \in 0 .. Len(es) : Depth(more, m) = Depth(es, m)
        BY <1>12, SameBeginning
      <3>2. Depth(more, Len(es) + 1) = Depth(more, Len(es))
        BY <1>9, <1>12, DepthStep
      <3> QED BY <1>12, <3>1, <3>2
    <2>4. Depth(more, Len(more)) >= k
      BY <2>2, <2>3
    <2>5. Held(more, k, mstack[k])
      BY <1>a, <2>1, <2>4, StillHeld
    <2> QED BY <1>1, <2>5 DEF Held
  <1>17. Balanced(more)' /\ Referring'
    <2>1. \A kind : CountOf(more, Len(more), kind)
             = CountOf(es, Len(es), kind) + IF e.kind = kind THEN 1 ELSE 0
      BY <1>10, <1>11, <1>12, Counting
    <2>2. \A kind : CountOf(es, Len(es), kind) \in Nat
      BY <1>10, Counting
    <2>3. /\ CountOf(more, Len(more), "open") = CountOf(es, Len(es), "open")
          /\ CountOf(more, Len(more), "close") = CountOf(es, Len(es), "close")
      <3>1. e.kind # "open" /\ e.kind # "close"
        BY <1>9
      <3>2. \A n \in Nat : n + 0 = n
        OBVIOUS
      <3>3. /\ CountOf(more, Len(more), "open") = CountOf(es, Len(es), "open") + 0
            /\ CountOf(more, Len(more), "close") = CountOf(es, Len(es), "close") + 0
        BY <2>1, <3>1, Zenon
      <3> QED BY <2>2, <3>2, <3>3, Zenon
    <2>4. Balanced(es) /\ Referring
      BY DEF Decoding
    <2> QED BY <1>1, <2>3, <2>4 DEF Balanced, Referring
  <1>18. Divided(str'.source, more, b + 1)
    BY <1>2, <1>7, <1>12
  <1>19. Decoding(more, b + 1, p + 1)'
    BY <1>1, <1>6, <1>12, <1>13, <1>14, <1>15, <1>16, <1>17, <1>18 DEF Decoding
  <1> QED BY <1>19


(* A part of a source grows by a character.                                *)
LEMMA PartGrows ==
  ASSUME NEW s, s \in Seq(Char), NEW m, m \in Nat, m > 0, NEW n, n \in Nat,
         n + 1 <= Len(s), m <= n + 1
  PROVE  /\ m = n + 1 => SubSeq(s, m, n + 1) = <<s[n + 1]>>
         /\ m <= n => SubSeq(s, m, n + 1) = Append(SubSeq(s, m, n), s[n + 1])
  <1>1. Len(s) \in Nat /\ \A i \in 1 .. Len(s) : s[i] \in Char
    BY LenProperties, ElementOfSeq
  <1>2. PICK r, q : r = n + 1 /\ q = SubSeq(s, m, n + 1)
    OBVIOUS
  <1>3. /\ q \in Seq(Char) /\ Len(q) = r - m + 1
        /\ \A i \in 1 .. r - m + 1 : q[i] = s[m + i - 1]
    <2>1. r \in Int /\ m \in Int /\ m <= r
      BY <1>2
    <2>2. \A i \in m .. r : s[i] \in Char
      BY <1>1, <1>2
    <2>3. /\ SubSeq(s, m, r) \in Seq(Char)
          /\ Len(SubSeq(s, m, r)) = IF m <= r THEN r - m + 1 ELSE 0
          /\ \A i \in 1 .. r - m + 1 : SubSeq(s, m, r)[i] = s[m + i - 1]
      BY <2>1, <2>2, SubSeqProperties
    <2> QED BY <1>2, <2>1, <2>3
  <1>4. ASSUME m = n + 1 PROVE q = <<s[n + 1]>>
    <2>1. Len(q) = 1 /\ q[1] = s[n + 1]
      BY <1>2, <1>3, <1>4
    <2> QED BY <1>3, <2>1, WrittenOut
  <1>5. ASSUME m <= n PROVE q = Append(SubSeq(s, m, n), s[n + 1])
    <2>1. PICK t, c : t = SubSeq(s, m, n) /\ c = s[n + 1]
      OBVIOUS
    <2>2. c \in Char
      BY <1>1, <2>1
    <2>3. \A i \in m .. n : s[i] \in Char
      BY <1>1
    <2>4. /\ t \in Seq(Char) /\ Len(t) = n - m + 1
          /\ \A i \in 1 .. n - m + 1 : t[i] = s[m + i - 1]
      BY <1>5, <2>1, <2>3, SubSeqProperties
    <2>5. /\ Append(t, c) \in Seq(Char) /\ Len(Append(t, c)) = Len(t) + 1
          /\ \A i \in 1 .. Len(t) : Append(t, c)[i] = t[i]
          /\ Append(t, c)[Len(t) + 1] = c
      BY <2>2, <2>4, AppendProperties
    <2>6. Len(q) = Len(Append(t, c))
      BY <1>2, <1>3, <2>4, <2>5
    <2>7. \A i \in 1 .. Len(q) : q[i] = Append(t, c)[i]
      <3> SUFFICES ASSUME NEW i \in 1 .. Len(q) PROVE q[i] = Append(t, c)[i]
        OBVIOUS
      <3>1. q[i] = s[m + i - 1]
        BY <1>3
      <3>2. CASE i = Len(t) + 1
        <4>1. m + i - 1 = n + 1
          BY <2>4, <3>2
        <4> QED BY <2>1, <2>5, <3>1, <3>2, <4>1
      <3>3. CASE i # Len(t) + 1
        <4>1. i \in 1 .. n - m + 1 /\ i \in 1 .. Len(t)
          BY <1>2, <1>3, <1>5, <2>4, <3>3
        <4> QED BY <2>4, <2>5, <3>1, <4>1
      <3> QED BY <3>2, <3>3
    <2>8. q = Append(t, c)
      BY <1>3, <2>5, <2>6, <2>7, SeqEqual
    <2> QED BY <2>1, <2>8
  <1> QED BY <1>2, <1>4, <1>5

LEMMA StepOpen ==
  ASSUME TypeOK, MInv, NEW es, NEW b, NEW p, Decoding(es, b, p),
         NEW s \in Char, OpenTag(s)
  PROVE  Decoding(es, b, p + 1)'
  <1> DEFINE new == Len(tags) + 1
             r == [type       |-> IF tag = "p" THEN "MXP" ELSE "Color",
                   parent     |-> current,
                   start_text |-> <<s>>,
                   end_text   |-> << >>,
                   enclosing  |-> IF mstack = << >> THEN None ELSE Last(mstack),
                   mark       |-> mark]
  <1>1. /\ Take(s, 2, 3) /\ s # "/" /\ tags' = Append(tags, r)
        /\ mstack' = Append(mstack, new) /\ current' = new /\ mark' = mark
        /\ state = 2 /\ state' = 3 /\ tag' = tag
        /\ str' = [str EXCEPT !.markup = Append(@, new)]
    BY DEF OpenTag, Take, historyVars
  <1>2. str'.source = str.source /\ str'.text = str.text
    BY <1>1 DEF TypeOK, String
  <1>3. Reading(b, p)
    BY DEF Decoding
  <1>4. /\ Len(str.source) \in Nat
        /\ p + 1 \in 1 .. Len(str.source) /\ s = str.source[p + 1]
        /\ Len(str'.source) = p + 1 + Len(unread')
        /\ \A i \in 1 .. Len(unread') : unread'[i] = str'.source[p + 1 + i]
    BY <1>1, <1>2, <1>3, TakesNext
  <1>5. /\ p \in Nat /\ b \in 1 .. Len(str.source) + 1 /\ b + 1 = p
        /\ b <= Len(str.source) /\ str.source[b] = "START"
        /\ tag = str.source[b + 1]
    BY <1>1, <1>3 DEF Reading
  <1>6. b + 2 = p + 1
    BY <1>5
  <1>7. Reading(b, p + 1)'
    <2>1. b + 2 <= p + 1 /\ \A j \in b + 3 .. p + 1 : FALSE
      BY <1>4, <1>5
    <2>2. str.source[b + 2] # "/"
      BY <1>1, <1>4, <1>6
    <2>3. p + 1 \in Nat
      BY <1>5
    <2>4. state' # 0 /\ state' # 1 /\ state' # 2 /\ state' # 4
      BY <1>1
    <2> HIDE DEF r, new
    <2> QED BY <1>2, <1>4, <1>5, <2>1, <2>2, <2>3, <2>4 DEF Reading
  <1>8. r.start_text = <<s>> /\ (r.type = "MXP" <=> tag = "p")
    OBVIOUS
  <1> HIDE DEF r
  <1>9. /\ Len(tags) \in Nat /\ Len(mstack) \in Nat /\ mark \in Nat
        /\ mark <= Len(tags)
    BY LenProperties DEF TypeOK, MInv
  <1>10. /\ Len(tags') = new
         /\ \A t \in 1 .. Len(tags) : tags'[t] = tags[t]
         /\ tags'[new] = r
    <2>1. tags \in Seq(Tag)
      BY DEF TypeOK
    <2> QED BY <1>1, <2>1, AppendProperties
  <1>11. /\ Len(mstack') = Len(mstack) + 1
         /\ \A i \in 1 .. Len(mstack) : mstack'[i] = mstack[i]
         /\ mstack'[Len(mstack) + 1] = new
    <2>1. mstack \in Seq(Nat) /\ new \in Nat
      BY <1>9 DEF TypeOK
    <2> QED BY <1>1, <2>1, AppendProperties
  <1>12. Stacked(es)'
    <2> SUFFICES ASSUME NEW k \in 1 .. Len(mstack'), k # Len(mstack')
                 PROVE  Held(es, k, mstack[k])' /\ mstack'[k] < Len(tags')
      BY <1>1 DEF Stacked
    <2>1. k \in 1 .. Len(mstack) /\ mstack'[k] = mstack[k]
      BY <1>9, <1>11
    <2>2. Held(es, k, mstack[k]) /\ mstack[k] \in 1 .. Len(tags)
      BY <1>1, <2>1 DEF Decoding, Stacked, Referring
    <2>3. tags'[mstack[k]] = tags[mstack[k]] /\ mstack[k] < Len(tags')
      BY <1>9, <1>10, <2>2
    <2> QED BY <2>1, <2>2, <2>3 DEF Held
  <1>13. Newest(b, p + 1)'
    <2>1. new > mark
      BY <1>9
    <2>2. SubSeq(str.source, b + 2, p + 1) = <<s>>
      <3>1. PICK c, m : c = str.source /\ m = b + 2
        OBVIOUS
      <3>2. c \in Seq(Char) /\ m \in Nat /\ m > 0 /\ p + 1 <= Len(c) /\ m = p + 1
        BY <1>4, <1>5, <3>1, StringFields DEF TypeOK
      <3>3. SubSeq(c, m, p + 1) = <<c[p + 1]>>
        <4>1. c \in Seq(Char)
          BY <3>2
        <4>2. m \in Nat
          BY <3>2
        <4>3. m > 0
          BY <3>2
        <4>4. p \in Nat
          BY <1>5
        <4>5. p + 1 <= Len(c)
          BY <3>2
        <4>6. m <= p + 1
          BY <1>5, <3>2
        <4>7. m = p + 1
          BY <3>2
        <4> QED BY ONLY <4>1, <4>2, <4>3, <4>4, <4>5, <4>6, <4>7, PartGrows
      <3> QED BY <1>4, <3>1, <3>3
    <2>3. tags'[Len(tags')] = r
      BY <1>10
    <2>4. mstack' # << >> /\ mstack'[Len(mstack')] = current'
      <3>1. Len(mstack') # 0
        BY <1>9, <1>11
      <3> QED BY <1>1, <1>11, <3>1, EmptySeq
    <2> QED BY <1>1, <1>2, <1>5, <1>8, <1>10, <2>1, <2>2, <2>3, <2>4 DEF Newest
  <1>14. Balanced(es)'
    <2>1. /\ CountOf(es, Len(es), "open") + 0
               = CountOf(es, Len(es), "close") + Len(mstack)
      BY <1>1 DEF Decoding, Balanced
    <2>2. CountOf(es, Len(es), "open") \in Nat /\ CountOf(es, Len(es), "close") \in Nat
      BY Counting DEF Decoding, Divided
    <2>3. CountOf(es, Len(es), "open") + 1
            = CountOf(es, Len(es), "close") + Len(mstack')
      BY <1>9, <1>11, <2>1, <2>2
    <2> QED BY <1>1, <2>3 DEF Balanced
  <1>15. Referring'
    <2>1. current' <= Len(tags') /\ current' # None
      BY <1>1, <1>9, <1>10 DEF None
    <2>2. \A i \in 1 .. Len(mstack') : mstack'[i] \in 1 .. Len(tags')
      <3> SUFFICES ASSUME NEW i \in 1 .. Len(mstack')
                   PROVE  mstack'[i] \in 1 .. Len(tags')
        OBVIOUS
      <3>1. CASE i = Len(mstack) + 1
        BY <1>9, <1>10, <1>11, <3>1
      <3>2. CASE i # Len(mstack) + 1
        <4>1. i \in 1 .. Len(mstack)
          BY <1>9, <1>11, <3>2
        <4>2. mstack[i] \in 1 .. Len(tags)
          BY <4>1 DEF Decoding, Referring
        <4> QED BY <1>9, <1>10, <1>11, <4>1, <4>2
      <3> QED BY <3>1, <3>2
    <2> QED BY <2>1, <2>2 DEF Referring
  <1> QED BY <1>1, <1>2, <1>7, <1>12, <1>13, <1>14, <1>15 DEF Decoding


(* The text of an opening tag goes to the newest Markup object.            *)
LEMMA NewestIsLast ==
  ASSUME TypeOK, MInv, pc = "decode", Len(tags) > mark
  PROVE  Last(str.markup) = Len(tags)
  <1>1. PICK n : n = Len(tags) - mark
    OBVIOUS
  <1>2. /\ mark \in Nat /\ Len(tags) \in Nat /\ n \in Nat /\ n > 0
        /\ mark + n = Len(tags) /\ stale \in Seq(Nat) /\ Len(stale) \in Nat
    BY <1>1, LenProperties DEF TypeOK
  <1>3. PICK m : m = MadeSince(n)
    OBVIOUS
  <1>4. m \in Seq(Nat)
    BY <1>2, <1>3, OneMoreMade
  <1>5. Len(m) = n /\ m[n] = mark + n
    <2>1. DOMAIN m = 1 .. n
      BY <1>3 DEF MadeSince
    <2>2. Len(m) = n
      BY <1>2, <1>4, <2>1, LenProperties
    <2>3. n \in 1 .. n
      BY <1>2
    <2> QED BY <1>3, <2>2, <2>3 DEF MadeSince
  <1>6. str.markup = stale \o m
    BY <1>1, <1>3 DEF MInv
  <1>7. /\ Len(stale \o m) = Len(stale) + Len(m)
        /\ \A i \in 1 .. Len(stale) + Len(m) :
             (stale \o m)[i] = IF i <= Len(stale) THEN stale[i] ELSE m[i - Len(stale)]
    BY <1>2, <1>4, ConcatProperties
  <1>8. PICK k : k = Len(stale) + n
    OBVIOUS
  <1>9. /\ k \in 1 .. Len(stale) + Len(m) /\ ~(k <= Len(stale)) /\ k - Len(stale) = n
    BY <1>2, <1>5, <1>8
  <1>10. (stale \o m)[k] = Len(tags) /\ Len(stale \o m) = k
    BY <1>2, <1>5, <1>7, <1>8, <1>9
  <1> QED BY <1>6, <1>10 DEF Last

LEMMA StepOpenText ==
  ASSUME TypeOK, MInv, NEW es, NEW b, NEW p, Decoding(es, b, p),
         NEW s \in Char, OpenText(s)
  PROVE  Decoding(es, b, p + 1)'
  <1>1. /\ Take(s, 3, 3) /\ s # "END" /\ str' = str /\ pc = "decode"
        /\ mstack' = mstack /\ current' = current /\ mark' = mark
        /\ state = 3 /\ state' = 3
        /\ tags' = [tags EXCEPT ![Last(str.markup)].start_text = Append(@, s)]
    BY DEF OpenText, Take, historyVars
  <1>2. Reading(b, p) /\ Newest(b, p)
    BY <1>1 DEF Decoding
  <1>3. /\ Len(str.source) \in Nat
        /\ p + 1 \in 1 .. Len(str.source) /\ s = str.source[p + 1]
        /\ Len(str'.source) = p + 1 + Len(unread')
        /\ \A i \in 1 .. Len(unread') : unread'[i] = str'.source[p + 1 + i]
    BY <1>1, <1>2, TakesNext
  <1>4. /\ p \in Nat /\ b \in 1 .. Len(str.source) + 1 /\ b + 2 <= p
        /\ \A j \in b + 3 .. p : str.source[j] # "END"
        /\ str.source[b + 2] # "/" /\ b <= Len(str.source) /\ str.source[b] = "START"
    BY <1>1, <1>2 DEF Reading
  <1>5. Reading(b, p + 1)'
    <2>1. b + 2 <= p + 1 /\ p + 1 \in Nat
      BY <1>4
    <2>2. \A j \in b + 3 .. p + 1 : str.source[j] # "END"
      <3> SUFFICES ASSUME NEW j \in b + 3 .. p + 1 PROVE str.source[j] # "END"
        OBVIOUS
      <3>1. j = p + 1 \/ j \in b + 3 .. p
        BY <1>4
      <3> QED BY <1>1, <1>3, <1>4, <3>1
    <2> QED BY <1>1, <1>3, <1>4, <2>1, <2>2 DEF Reading
  <1>6. PICK n : n = Len(tags)
    OBVIOUS
  <1>7. n \in Nat /\ mark \in Nat /\ n > mark /\ n \in 1 .. n /\ tags \in Seq(Tag)
    BY <1>2, <1>6, LenProperties DEF TypeOK, Newest
  <1>8. Last(str.markup) = n
    BY <1>1, <1>2, <1>6, NewestIsLast DEF Newest
  <1>9. tags' = [tags EXCEPT ![n].start_text = Append(@, s)]
    BY <1>1, <1>8
  <1>10. /\ Len(tags') = n
         /\ \A j \in 1 .. n : /\ tags'[j].type = tags[j].type
                              /\ j # n => tags'[j] = tags[j]
    BY <1>6, <1>7, <1>9, TextGrows
  <1>11. tags'[n].start_text = Append(tags[n].start_text, s)
    <2>1. PICK r : r = tags[n]
      OBVIOUS
    <2>2. r \in Tag /\ n \in DOMAIN tags
      BY <1>6, <1>7, <2>1, LenProperties, ElementOfSeq
    <2>3. PICK a : a = Append(r.start_text, s)
      OBVIOUS
    <2>4. tags'[n] = [r EXCEPT !.start_text = a]
      BY <1>9, <2>1, <2>2, <2>3
    <2>5. [r EXCEPT !.start_text = a].start_text = a
      BY <2>2 DEF Tag
    <2> QED BY <2>1, <2>3, <2>4, <2>5
  <1>12. Newest(b, p + 1)'
    <2>1. SubSeq(str.source, b + 2, p + 1) = Append(SubSeq(str.source, b + 2, p), s)
      <3>1. PICK c, m : c = str.source /\ m = b + 2
        OBVIOUS
      <3>2. c \in Seq(Char)
        BY <3>1, StringFields DEF TypeOK
      <3>3. m \in Nat
        BY <1>4, <3>1
      <3>4. m > 0
        BY <1>4, <3>1
      <3>5. p \in Nat
        BY <1>4
      <3>6. p + 1 <= Len(c)
        BY <1>3, <3>1
      <3>7. m <= p + 1
        BY <1>4, <3>1
      <3>8. m <= p
        BY <1>4, <3>1
      <3>9. SubSeq(c, m, p + 1) = Append(SubSeq(c, m, p), c[p + 1])
        BY ONLY <3>2, <3>3, <3>4, <3>5, <3>6, <3>7, <3>8, PartGrows
      <3> QED BY <1>3, <3>1, <3>9
    <2>2. /\ current = n /\ tags[n].start_text = SubSeq(str.source, b + 2, p)
          /\ (str.source[b + 1] = "p") <=> (tags[n].type = "MXP")
      BY <1>2, <1>6 DEF Newest
    <2>3. /\ current' = Len(tags') /\ Len(tags') > mark'
      BY <1>1, <1>7, <1>10, <2>2
    <2>4. tags'[Len(tags')].start_text = SubSeq(str'.source, b + 2, p + 1)
      BY <1>1, <1>10, <1>11, <2>1, <2>2, Zenon
    <2>5. (str'.source[b + 1] = "p") <=> (tags'[Len(tags')].type = "MXP")
      BY <1>1, <1>7, <1>10, <2>2
    <2>6. mstack' # << >> /\ mstack'[Len(mstack')] = current'
      BY <1>1, <1>2 DEF Newest
    <2> QED BY <2>3, <2>4, <2>5, <2>6 DEF Newest
  <1>13. Stacked(es)'
    <2> SUFFICES ASSUME NEW k \in 1 .. Len(mstack), k # Len(mstack)
                 PROVE  Held(es, k, mstack[k])' /\ mstack[k] < Len(tags')
      BY <1>1 DEF Stacked
    <2>1. Held(es, k, mstack[k]) /\ mstack[k] < n /\ mstack[k] \in 1 .. n
      BY <1>1, <1>6 DEF Decoding, Stacked, Referring
    <2>2. tags'[mstack[k]] = tags[mstack[k]]
      BY <1>7, <1>10, <2>1
    <2> QED BY <1>1, <1>10, <2>1, <2>2 DEF Held
  <1>14. Balanced(es)' /\ Referring'
    BY <1>1, <1>6, <1>10 DEF Decoding, Balanced, Referring
  <1> QED BY <1>1, <1>5, <1>12, <1>13, <1>14 DEF Decoding

-----------------------------------------------------------------------------
(* A tag that is read to its END becomes an element.                       *)
Finished(es, b, p, e, more) ==
  /\ e \in Element /\ more = Append(es, e) /\ OneMore(es, e, more)
  /\ es \in Seq(Element)
  /\ Divided(str.source, more, p + 2)
  /\ e.kind = IF state = 4 THEN "close" ELSE "open"
  /\ e.type = str.source[b + 1]
  /\ e.text = SubSeq(str.source, b + 2, p)
  /\ str.text = Chars(more)

LEMMA TagFinished ==
  ASSUME TypeOK, NEW es, NEW b, NEW p, Decoding(es, b, p),
         NEW s, s = "END", state = 3 \/ state = 4, Take(s, state, 0),
         str'.source = str.source
  PROVE  /\ Reading(p + 2, p + 1)'
         /\ \E e, more : Finished(es, b, p, e, more)
  <1>1. Reading(b, p)
    BY DEF Decoding
  <1>2. /\ Len(str.source) \in Nat
        /\ p + 1 \in 1 .. Len(str.source) /\ s = str.source[p + 1]
        /\ Len(str'.source) = p + 1 + Len(unread')
        /\ \A i \in 1 .. Len(unread') : unread'[i] = str'.source[p + 1 + i]
    BY <1>1, TakesNext
  <1>3. p \in Nat /\ state' = 0
    BY <1>1 DEF Reading, Take
  <1>4. Reading(p + 2, p + 1)'
    <2>1. p + 1 \in Nat /\ p + 2 = p + 1 + 1 /\ p + 2 \in 1 .. Len(str'.source) + 1
      BY <1>2, <1>3
    <2> QED BY <1>2, <1>3, <2>1 DEF Reading
  <1>5. PICK c, e, more : /\ c = str.source /\ e = ElementAt(str.source, b)
                          /\ more = Append(es, e)
    OBVIOUS
  <1>6. /\ b \in 1 .. Len(str.source) /\ ~NoneAt(str.source, b)
        /\ Following(str.source, b) = p + 2
        /\ e.kind = IF state = 4 THEN "close" ELSE "open"
        /\ e.type = str.source[b + 1]
        /\ e.text = SubSeq(str.source, b + 2, p)
    <2>1. state = 3 \/ state = 4
      OBVIOUS
    <2>2. p + 1 \in 1 .. Len(str.source)
      BY <1>2
    <2>3. str.source[p + 1] = "END"
      BY <1>2
    <2>4. e = ElementAt(str.source, b)
      BY <1>5
    <2>5. TypeOK
      OBVIOUS
    <2> QED BY ONLY <1>1, <2>1, <2>2, <2>3, <2>4, <2>5, TagIsRead
  <1>7. e \in Element /\ OneMore(es, e, more) /\ Divided(c, more, p + 2)
    <2>1. c \in Seq(Char)
      BY <1>5, StringFields DEF TypeOK
    <2>2. b \in 1 .. Len(c)
      BY <1>5, <1>6
    <2>3. ~NoneAt(c, b)
      BY <1>5, <1>6
    <2>4. Divided(c, es, b)
      BY <1>5 DEF Decoding
    <2>5. e = ElementAt(c, b)
      BY <1>5
    <2>6. PICK next : next = Following(c, b)
      OBVIOUS
    <2>7. more = Append(es, e)
      BY <1>5
    <2>8. e \in Element /\ OneMore(es, e, more) /\ Divided(c, more, next)
      BY ONLY <2>1, <2>2, <2>3, <2>4, <2>5, <2>6, <2>7, Another
    <2> QED BY <1>5, <1>6, <2>6, <2>8, Zenon
  <1>8. str.text = Chars(more) /\ es \in Seq(Element)
    <2>1. str.text = Chars(es) /\ es \in Seq(Element)
      BY DEF Decoding, Divided
    <2>2. e.kind # "char"
      BY <1>6
    <2>3. Chars(Append(es, e)) = Chars(es)
      BY <1>7, <2>1, <2>2, CharsAppend
    <2> QED BY <1>5, <2>1, <2>3
  <1>9. Finished(es, b, p, e, more)
    BY <1>5, <1>6, <1>7, <1>8, Zenon DEF Finished
  <1> QED BY <1>4, <1>9


(* What a finished tag does to the counts.                                 *)
LEMMA FinishedCounts ==
  ASSUME NEW es, NEW b, NEW p, NEW e, NEW more, Finished(es, b, p, e, more)
  PROVE  /\ CountOf(es, Len(es), "open") \in Nat
         /\ CountOf(es, Len(es), "close") \in Nat
         /\ state = 4 =>
              /\ CountOf(more, Len(more), "open") = CountOf(es, Len(es), "open")
              /\ CountOf(more, Len(more), "close")
                   = CountOf(es, Len(es), "close") + 1
         /\ state # 4 =>
              /\ CountOf(more, Len(more), "open")
                   = CountOf(es, Len(es), "open") + 1
              /\ CountOf(more, Len(more), "close") = CountOf(es, Len(es), "close")
  <1>1. /\ e \in Element /\ more = Append(es, e) /\ es \in Seq(Element)
        /\ Len(more) = Len(es) + 1
        /\ e.kind = IF state = 4 THEN "close" ELSE "open"
    BY DEF Finished, OneMore
  <1>2. \A kind : /\ CountOf(es, Len(es), kind) \in Nat
                  /\ CountOf(more, Len(more), kind)
                       = CountOf(es, Len(es), kind) + IF e.kind = kind THEN 1 ELSE 0
    BY <1>1, Counting
  <1>3. PICK o, c, o2, c2 :
          /\ o = CountOf(es, Len(es), "open") /\ c = CountOf(es, Len(es), "close")
          /\ o2 = CountOf(more, Len(more), "open")
          /\ c2 = CountOf(more, Len(more), "close")
    OBVIOUS
  <1>4. /\ o \in Nat /\ c \in Nat
        /\ o2 = o + IF e.kind = "open" THEN 1 ELSE 0
        /\ c2 = c + IF e.kind = "close" THEN 1 ELSE 0
    BY <1>2, <1>3, Zenon
  <1>5. /\ state = 4 => o2 = o /\ c2 = c + 1
        /\ state # 4 => o2 = o + 1 /\ c2 = c
    BY <1>1, <1>4
  <1> QED BY <1>3, <1>4, <1>5, Zenon

LEMMA StepOpenEnd ==
  ASSUME TypeOK, MInv, NEW es, NEW b, NEW p, Decoding(es, b, p),
         NEW s \in Char, OpenEnd(s)
  PROVE  \E more : Decoding(more, p + 2, p + 1)'
  <1>1. /\ Take(s, 3, 0) /\ s = "END" /\ str' = str /\ tags' = tags
        /\ mstack' = mstack /\ current' = current /\ mark' = mark
        /\ state = 3 /\ state' = 0
    BY DEF OpenEnd, Take, historyVars
  <1>2. /\ Reading(p + 2, p + 1)'
        /\ \E e, more : Finished(es, b, p, e, more)
    <2>1. Take(s, state, 0)
      BY <1>1
    <2> QED BY <1>1, <2>1, TagFinished
  <1>3. PICK e, more : Finished(es, b, p, e, more)
    BY <1>2
  <1>4. /\ e \in Element /\ more = Append(es, e) /\ es \in Seq(Element)
        /\ OneMore(es, e, more)
        /\ Divided(str.source, more, p + 2) /\ str.text = Chars(more)
        /\ e.kind = "open" /\ e.type = str.source[b + 1]
        /\ e.text = SubSeq(str.source, b + 2, p)
    BY <1>1, <1>3 DEF Finished
  <1>5. /\ current = Len(tags) /\ Len(tags) > mark /\ Len(tags) \in Nat /\ mark \in Nat
        /\ Covers(e, tags[Len(tags)])
    <2>1. Newest(b, p)
      BY <1>1 DEF Decoding
    <2> QED BY <1>4, <2>1, LenProperties DEF Newest, Covers, TypeOK
  <1>6. Settled(more)
    <2>1. e.kind # "close" /\ Settled(es)
      BY <1>4 DEF Decoding
    <2> QED BY <1>4, <2>1, SettledAppend
  <1>7. Opened(more)'
    <2>1. \A i \in 1 .. Len(more) : IsLast(more, i) <=> i = Len(more)
      BY <1>4, NextIsLast
    <2>2. Len(more) \in 1 .. Len(more) /\ more[Len(more)] = e
      BY <1>4 DEF OneMore
    <2>3. current # None /\ Covers(e, tags[current])
      BY <1>5 DEF None
    <2> QED BY <1>1, <2>1, <2>2, <2>3 DEF Opened
  <1>8. Stacked(more)'
    <2> SUFFICES ASSUME NEW k \in 1 .. Len(mstack) PROVE Held(more, k, mstack[k])'
      BY <1>1 DEF Stacked
    <2>1. /\ Depth(es, Len(es)) + 1 = Len(mstack) /\ Len(mstack) \in Nat
          /\ Depth(es, Len(es)) \in Int
      BY <1>1, <1>4, DepthIs DEF Decoding
    <2>2. Len(es) \in Nat /\ Len(more) = Len(es) + 1 /\ more[Len(more)] = e
          /\ \A i \in 1 .. Len(es) : more[i] = es[i]
      BY <1>4 DEF OneMore
    <2>3. Depth(more, Len(more)) = Len(mstack)
      <3>1. \A m \in 0 .. Len(es) : Depth(more, m) = Depth(es, m)
        BY <2>2, SameBeginning
      <3>2. Depth(more, Len(es) + 1) = Depth(more, Len(es)) + 1
        BY <1>4, <2>2, DepthStep
      <3> QED BY <2>1, <2>2, <3>1, <3>2
    <2>4. CASE k = Len(mstack)
      <3>1. mstack[k] = Len(tags)
        BY <1>1, <1>5, <2>4 DEF Decoding, Newest
      <3>2. /\ Len(more) \in 1 .. Len(more) /\ Covers(more[Len(more)], tags[mstack[k]])
            /\ Depth(more, Len(more)) = k
        BY <1>5, <2>2, <2>3, <2>4, <3>1
      <3>3. \A m \in Len(more) .. Len(more) : Depth(more, m) >= k
        <4>1. \A m \in Len(more) .. Len(more) : m = Len(more)
          BY <2>2
        <4> QED BY <2>1, <2>3, <2>4, <4>1
      <3> QED BY <1>1, <3>2, <3>3 DEF Held
    <2>5. CASE k # Len(mstack)
      <3>1. Held(es, k, mstack[k])
        BY <1>1, <2>5 DEF Decoding, Stacked
      <3>2. Depth(more, Len(more)) >= k
        BY <2>1, <2>3
      <3>3. Held(more, k, mstack[k])
        BY <1>4, <3>1, <3>2, StillHeld
      <3> QED BY <1>1, <3>3 DEF Held
    <2> QED BY <2>4, <2>5
  <1>9. Balanced(more)' /\ Referring'
    <2>1. /\ CountOf(more, Len(more), "open") = CountOf(es, Len(es), "open") + 1
          /\ CountOf(more, Len(more), "close") = CountOf(es, Len(es), "close")
          /\ CountOf(es, Len(es), "open") \in Nat
      BY <1>1, <1>3, FinishedCounts
    <2>2. CountOf(es, Len(es), "open") + 1
            = CountOf(es, Len(es), "close") + Len(mstack) /\ Referring
      BY <1>1 DEF Decoding, Balanced
    <2>3. CountOf(more, Len(more), "open") + 0
            = CountOf(more, Len(more), "close") + Len(mstack)
      BY <2>1, <2>2
    <2> QED BY <1>1, <2>2, <2>3 DEF Balanced, Referring
  <1>10. Decoding(more, p + 2, p + 1)'
    BY <1>1, <1>2, <1>4, <1>6, <1>7, <1>8, <1>9 DEF Decoding
  <1> QED BY <1>10

LEMMA StepPop ==
  ASSUME TypeOK, MInv, NEW es, NEW b, NEW p, Decoding(es, b, p),
         NEW s \in Char, s = "END", Take(s, 4, 0), tags' = tags, Pop,
         Validate(tags[current])
  PROVE  \E more : Decoding(more, p + 2, p + 1)'
  <1>1. /\ str' = str /\ mark' = mark /\ state = 4 /\ state' = 0 /\ pc = "decode"
        /\ mstack # << >> /\ current' = Last(mstack) /\ mstack' = Front(mstack)
    BY DEF Pop, Take, historyVars
  <1>2. /\ Reading(p + 2, p + 1)'
        /\ \E e, more : Finished(es, b, p, e, more)
    <2>1. Take(s, state, 0)
      BY <1>1
    <2> QED BY <1>1, <2>1, TagFinished
  <1>3. PICK e, more : Finished(es, b, p, e, more)
    BY <1>2
  <1>4. /\ e \in Element /\ more = Append(es, e) /\ es \in Seq(Element)
        /\ OneMore(es, e, more)
        /\ Divided(str.source, more, p + 2) /\ str.text = Chars(more)
        /\ e.kind = "close"
    BY <1>1, <1>3 DEF Finished
  <1>5. /\ Len(mstack) \in Nat /\ Len(mstack) > 0 /\ current' = mstack[Len(mstack)]
        /\ Len(mstack') = Len(mstack) - 1
        /\ \A i \in 1 .. Len(mstack) - 1 : mstack'[i] = mstack[i]
        /\ current' \in Nat
    <2>1. mstack \in Seq(Nat)
      BY DEF TypeOK
    <2> QED BY <1>1, <2>1, FrontAndLast
  <1>6. Settled(more)
    <2>1. ASSUME NEW i \in 1 .. Len(es), IsLast(es, i)
          PROVE  ~WrongCodes(es[i])
      <3> SUFFICES ASSUME WrongCodes(es[i]) PROVE FALSE
        OBVIOUS
      <3>1. es[i].type # "p" /\ ~IsAnsi(es[i].text)
        BY DEF WrongCodes
      <3>2. Covers(es[i], tags[current])
        BY <1>1, <2>1 DEF Decoding, Opened
      <3> QED BY <3>1, <3>2 DEF Covers, Validate
    <2>2. Settled(es)
      BY DEF Decoding
    <2> QED BY <1>4, <2>1, <2>2, SettledAppend
  <1>a. /\ Len(es) \in Nat /\ Len(more) = Len(es) + 1 /\ more[Len(more)] = e
        /\ \A i \in 1 .. Len(es) : more[i] = es[i]
    BY <1>4 DEF OneMore
  <1>b. /\ Depth(es, Len(es)) = Len(mstack)
        /\ \A m \in 0 .. Len(es) : Depth(more, m) = Depth(es, m)
        /\ Depth(more, Len(more)) = Len(mstack) - 1
    <2>1. Depth(es, Len(es)) = Len(mstack)
      BY <1>1, <1>4, DepthIs DEF Decoding
    <2>2. \A m \in 0 .. Len(es) : Depth(more, m) = Depth(es, m)
      BY <1>a, SameBeginning
    <2>3. Depth(more, Len(es) + 1) = Depth(more, Len(es)) - 1
      <3>1. Len(es) \in Nat /\ more[Len(es) + 1].kind = "close"
        BY <1>4, <1>a
      <3> QED BY <3>1, DepthStep
    <2> QED BY <1>5, <1>a, <2>1, <2>2, <2>3
  (* The top of mstack is the tag that the element closes.                 *)
  <1>7. Opened(more)'
    <2>1. PICK i \in 1 .. Len(es) :
            /\ Covers(es[i], tags[current'])
            /\ Depth(es, i) = Len(mstack)
            /\ \A m \in i .. Len(es) : Depth(es, m) >= Len(mstack)
      <3>1. Held(es, Len(mstack), current')
        BY <1>1, <1>5 DEF Decoding, Stacked
      <3> QED BY <3>1 DEF Held
    <2>2. i \in 1 .. Len(more) /\ more[i] = es[i]
      BY <1>a
    <2>3. Closes(more, Len(more), i)
      <3>1. more[i].kind = "open" /\ more[Len(more)].kind = "close"
        BY <1>4, <1>a, <2>1, <2>2 DEF Covers
      <3>2. Depth(more, i) = Len(mstack) /\ i < Len(more)
        BY <1>a, <1>b, <2>1
      <3>3. \A m \in i .. Len(more) - 1 : Depth(more, m) >= Depth(more, i)
        <4> SUFFICES ASSUME NEW m \in i .. Len(more) - 1
                     PROVE  Depth(more, m) >= Depth(more, i)
          OBVIOUS
        <4>1. m \in i .. Len(es) /\ m \in 0 .. Len(es)
          BY <1>a
        <4> QED BY <1>b, <2>1, <3>2, <4>1
      <3> QED BY <1>5, <1>b, <3>1, <3>2, <3>3 DEF Closes
    <2>4. \A q \in 1 .. Len(more) : IsLast(more, q) <=> q = i
      <3> SUFFICES ASSUME NEW q \in 1 .. Len(more) PROVE IsLast(more, q) <=> q = i
        OBVIOUS
      <3>1. IsLast(more, q) <=> Closes(more, Len(more), q)
        BY <1>4, NextIsLast
      <3>2. Len(more) \in Nat
        BY <1>a
      <3>3. Closes(more, Len(more), q) => q = i
        BY <2>2, <2>3, <3>2, ClosesOne
      <3> QED BY <2>3, <3>1, <3>3
    <2>5. current' # None
      <3>1. Len(mstack) \in 1 .. Len(mstack)
        BY <1>5
      <3> QED BY <1>5, <3>1 DEF Decoding, Referring, None
    <2> QED BY <1>1, <2>1, <2>2, <2>4, <2>5 DEF Opened
  <1>8. Stacked(more)'
    <2> SUFFICES ASSUME NEW k \in 1 .. Len(mstack') PROVE Held(more, k, mstack[k])'
      BY <1>1 DEF Stacked
    <2>1. k \in 1 .. Len(mstack) /\ mstack'[k] = mstack[k] /\ k <= Len(mstack) - 1
      BY <1>5
    <2>2. Held(es, k, mstack[k])
      BY <1>1, <2>1 DEF Decoding, Stacked
    <2>3. Depth(more, Len(more)) >= k
      BY <1>5, <1>b, <2>1
    <2>4. Held(more, k, mstack[k])
      BY <1>4, <2>2, <2>3, StillHeld
    <2> QED BY <2>1, <2>4 DEF Held
  <1>9. Balanced(more)'
    <2>1. /\ CountOf(more, Len(more), "open") = CountOf(es, Len(es), "open")
          /\ CountOf(more, Len(more), "close") = CountOf(es, Len(es), "close") + 1
          /\ CountOf(es, Len(es), "open") \in Nat
          /\ CountOf(es, Len(es), "close") \in Nat
      BY <1>1, <1>3, FinishedCounts
    <2>2. CountOf(es, Len(es), "open") + 0
            = CountOf(es, Len(es), "close") + Len(mstack)
      BY <1>1 DEF Decoding, Balanced
    <2>3. CountOf(more, Len(more), "open") + 0
            = CountOf(more, Len(more), "close") + Len(mstack')
      BY <1>5, <2>1, <2>2
    <2> QED BY <1>1, <2>3 DEF Balanced
  <1>10. Referring'
    <2>1. Referring
      BY DEF Decoding
    <2>2. Len(mstack) \in 1 .. Len(mstack)
      BY <1>5
    <2>3. current' <= Len(tags') /\ current' > mark
      BY <1>1, <1>5, <2>1, <2>2 DEF Referring, MInv
    <2>4. current' # None
      BY <1>5, <2>3 DEF None, TypeOK
    <2>5. \A i \in 1 .. Len(mstack') : mstack'[i] \in 1 .. Len(tags')
      BY <1>5, <2>1 DEF Referring
    <2> QED BY <2>3, <2>4, <2>5 DEF Referring
  <1>11. Decoding(more, p + 2, p + 1)'
    BY <1>1, <1>2, <1>4, <1>6, <1>7, <1>8, <1>9, <1>10 DEF Decoding
  <1> QED BY <1>11


-----------------------------------------------------------------------------
(* What has been read of a source is the beginning of its elements.        *)
LEMMA Beginning ==
  ASSUME NEW s, s \in Seq(Char), NEW es, NEW b, b \in 1 .. Len(s) + 2,
         Divided(s, es, b)
  PROVE  /\ Elements(s) \in Seq(Element) /\ es \in Seq(Element)
         /\ Len(es) \in Nat /\ Len(Elements(s)) \in Nat
         /\ Len(es) <= Len(Elements(s))
         /\ \A i \in 1 .. Len(es) : Elements(s)[i] = es[i]
         /\ \A kind : CountOf(Elements(s), Len(es), kind) = CountOf(es, Len(es), kind)
  <1>1. PICK r, all : r = ElementsFrom(s)[b] /\ all = Elements(s)
    OBVIOUS
  <1>2. r \in Seq(Element) /\ es \in Seq(Element) /\ all = es \o r
    BY <1>1, ElementsRead DEF Divided
  <1>3. /\ all \in Seq(Element) /\ Len(all) = Len(es) + Len(r)
        /\ \A i \in 1 .. Len(es) + Len(r) :
             all[i] = IF i <= Len(es) THEN es[i] ELSE r[i - Len(es)]
    BY <1>2, ConcatProperties
  <1>4. Len(es) \in Nat /\ Len(r) \in Nat
    BY <1>2, LenProperties
  <1>5. \A i \in 1 .. Len(es) : all[i] = es[i]
    BY <1>3, <1>4
  <1>6. \A kind : CountOf(all, Len(es), kind) = CountOf(es, Len(es), kind)
    BY <1>2, Counting
  <1> QED BY <1>1, <1>2, <1>3, <1>4, <1>5, <1>6

(* A tag that is being read is an element, even if it has no END.          *)
LEMMA TagIsComing ==
  ASSUME TypeOK, NEW es, NEW b, NEW p, Decoding(es, b, p), state = 3 \/ state = 4,
         NEW e, e = ElementAt(str.source, b), NEW more, more = Append(es, e),
         NEW next, next = Following(str.source, b)
  PROVE  /\ e \in Element /\ OneMore(es, e, more)
         /\ e.kind = IF state = 4 THEN "close" ELSE "open"
         /\ next \in 1 .. Len(str.source) + 2
         /\ Divided(str.source, more, next)
         /\ unread = << >> => next = Len(str.source) + 2
  <1>1. PICK s : s = str.source
    OBVIOUS
  <1>2. s \in Seq(Char) /\ Len(s) \in Nat /\ Len(unread) \in Nat
    BY <1>1, StringFields, LenProperties DEF TypeOK
  <1>3. /\ p \in Nat /\ b \in 1 .. Len(s) + 1 /\ b <= Len(s) /\ s[b] = "START"
        /\ Len(s) = p + Len(unread)
        /\ b + 2 <= p /\ (state = 4 <=> s[b + 2] = "/")
        /\ \A j \in b + 3 .. p : s[j] # "END"
    BY <1>1 DEF Decoding, Reading
  <1>4. b \in 1 .. Len(s)
    BY <1>2, <1>3
  <1>5. b + 2 <= Len(s) /\ b \in Nat
    BY <1>2, <1>3
  <1>6. e = ElementAt(s, b)
    BY <1>1
  <1>7. s[b] = "START"
    BY <1>3
  <1>8. s \in Seq(Char)
    BY <1>2
  <1>9. b + 2 <= Len(s)
    BY <1>5
  <1>10. /\ ~NoneAt(s, b) /\ Following(s, b) = EndOf(s, b) + 1
         /\ e.kind = IF s[b + 2] = "/" THEN "close" ELSE "open"
    BY ONLY <1>4, <1>6, <1>7, <1>8, <1>9, TagElement
  <1>11. e.kind = IF state = 4 THEN "close" ELSE "open"
    BY <1>3, <1>10
  <1>12. ~NoneAt(s, b)
    BY <1>10
  <1>13. Divided(s, es, b)
    BY <1>1 DEF Decoding
  <1>14. more = Append(es, e) /\ next = Following(s, b)
    BY <1>1
  <1>15. /\ e \in Element /\ OneMore(es, e, more) /\ next \in 1 .. Len(s) + 2
         /\ Divided(s, more, next)
    BY ONLY <1>4, <1>6, <1>8, <1>12, <1>13, <1>14, Another
  <1>16. unread = << >> => next = Len(s) + 2
    <2> SUFFICES ASSUME unread = << >> PROVE next = Len(s) + 2
      OBVIOUS
    <2>1. p = Len(s)
      BY <1>3, EmptySeq
    <2>2. \A j \in b + 3 .. Len(s) : s[j] # "END"
      BY <1>3, <2>1
    <2>3. EndOf(s, b) = Len(s) + 1
      BY <1>5, <1>8, <2>2, WhereTagsEnd
    <2> QED BY <1>2, <1>10, <1>14, <2>3
  <1> QED BY <1>1, <1>11, <1>15, <1>16

(* Closing with nothing on mstack: the source is unbalanced.               *)
LEMMA ClosedTooOften ==
  ASSUME TypeOK, NEW es, NEW b, NEW p, Decoding(es, b, p), state = 4,
         mstack = << >>
  PROVE  \E n \in 1 .. Len(Elements(str.source)) :
           CountOf(Elements(str.source), n, "close")
             > CountOf(Elements(str.source), n, "open")
  <1>1. PICK e : e = ElementAt(str.source, b)
    OBVIOUS
  <1>2. PICK more : more = Append(es, e)
    OBVIOUS
  <1>3. PICK next : next = Following(str.source, b)
    OBVIOUS
  <1>4. /\ e \in Element /\ OneMore(es, e, more) /\ e.kind = "close"
        /\ next \in 1 .. Len(str.source) + 2
        /\ Divided(str.source, more, next)
    BY <1>1, <1>2, <1>3, TagIsComing
  <1>5. str.source \in Seq(Char)
    BY StringFields DEF TypeOK
  <1>6. PICK all : all = Elements(str.source)
    OBVIOUS
  <1>7. /\ Len(more) \in Nat /\ Len(more) <= Len(all) /\ Len(all) \in Nat
        /\ \A kind : CountOf(all, Len(more), kind) = CountOf(more, Len(more), kind)
    BY <1>4, <1>5, <1>6, Beginning
  <1>8. PICK o, c, o2, c2 :
          /\ o = CountOf(es, Len(es), "open") /\ c = CountOf(es, Len(es), "close")
          /\ o2 = CountOf(more, Len(more), "open")
          /\ c2 = CountOf(more, Len(more), "close")
    OBVIOUS
  <1>9. /\ o \in Nat /\ c \in Nat
        /\ o2 = o + IF e.kind = "open" THEN 1 ELSE 0
        /\ c2 = c + IF e.kind = "close" THEN 1 ELSE 0
    <2>1. es \in Seq(Element) /\ Len(more) = Len(es) + 1
      BY <1>4 DEF OneMore, Decoding, Divided
    <2>2. \A kind : /\ CountOf(es, Len(es), kind) \in Nat
                    /\ CountOf(more, Len(more), kind)
                         = CountOf(es, Len(es), kind) + IF e.kind = kind THEN 1 ELSE 0
      BY <1>2, <1>4, <2>1, Counting
    <2> QED BY <1>8, <2>2, Zenon
  <1>10. o + 0 = c + 0
    <2>1. Len(mstack) = 0
      BY EmptySeq
    <2>2. o + (IF state = 3 THEN 1 ELSE 0) = c + Len(mstack)
      BY <1>8 DEF Decoding, Balanced
    <2> QED BY <2>1, <2>2
  <1>11. c2 > o2
    BY <1>4, <1>9, <1>10
  <1>12. Len(more) \in 1 .. Len(all)
    BY <1>4, <1>7 DEF OneMore
  <1>13. CountOf(all, Len(more), "close") > CountOf(all, Len(more), "open")
    <2>1. CountOf(all, Len(more), "close") = c2 /\ CountOf(all, Len(more), "open") = o2
      BY <1>7, <1>8, Zenon
    <2> QED BY <1>11, <2>1
  <1> QED BY <1>6, <1>12, <1>13

(* The codes that are refused are those of the tag that was opened or      *)
(* closed last before this closing tag.                                    *)
LEMMA RefusedForCodes ==
  ASSUME TypeOK, NEW es, NEW b, NEW p, Decoding(es, b, p),
         state = 4, current # None, ~Validate(tags[current])
  PROVE  LET elements == Elements(str.source)
         IN  \E j \in DOMAIN elements :
               /\ elements[j].kind = "close"
               /\ \E i \in DOMAIN elements :
                    LastTagBefore(elements, j, i) /\ WrongCodes(elements[i])
  <1>1. PICK i \in 1 .. Len(es) : IsLast(es, i) /\ Covers(es[i], tags[current])
    BY DEF Decoding, Opened
  <1>2. WrongCodes(es[i])
    BY <1>1 DEF Covers, Validate, WrongCodes
  <1>3. PICK e : e = ElementAt(str.source, b)
    OBVIOUS
  <1>4. PICK more : more = Append(es, e)
    OBVIOUS
  <1>5. PICK next : next = Following(str.source, b)
    OBVIOUS
  <1>6. /\ OneMore(es, e, more) /\ e.kind = "close"
        /\ next \in 1 .. Len(str.source) + 2
        /\ Divided(str.source, more, next)
    BY <1>3, <1>4, <1>5, TagIsComing
  <1>7. str.source \in Seq(Char)
    BY StringFields DEF TypeOK
  <1>8. PICK all : all = Elements(str.source)
    OBVIOUS
  <1>9. /\ Len(more) \in Nat /\ Len(more) <= Len(all) /\ Len(all) \in Nat
        /\ \A k \in 1 .. Len(more) : all[k] = more[k]
        /\ DOMAIN all = 1 .. Len(all)
    BY <1>6, <1>7, <1>8, Beginning, LenProperties
  <1>10. /\ Len(es) \in Nat /\ Len(more) = Len(es) + 1
         /\ \A k \in 1 .. Len(es) : more[k] = es[k]
         /\ more[Len(es) + 1] = e
    BY <1>6 DEF OneMore
  <1>11. PICK j : j = Len(es) + 1
    OBVIOUS
  <1>12. j \in DOMAIN all /\ all[j].kind = "close"
    BY <1>6, <1>9, <1>10, <1>11
  <1>13. i \in DOMAIN all /\ all[i] = es[i]
    BY <1>9, <1>10
  <1>14. LastTagBefore(all, j, i)
    <2>1. \A k \in 1 .. Len(es) : all[k] = es[k]
      BY <1>9, <1>10
    <2>2. \A a \in 1 .. Len(es), c \in 1 .. Len(es) + 1 :
            LastTagBefore(all, c, a) <=> LastTagBefore(es, c, a)
      BY <1>10, <2>1, SameBeginning
    <2>3. j \in 1 .. Len(es) + 1
      BY <1>10, <1>11
    <2> QED BY <1>1, <1>11, <2>2, <2>3 DEF IsLast
  <1> QED BY <1>2, <1>8, <1>12, <1>13, <1>14


(* At the end of the source nothing follows, but for a tag without END.    *)
LEMMA AtTheEnd ==
  ASSUME TypeOK, NEW es, NEW b, NEW p, Decoding(es, b, p), unread = << >>
  PROVE  /\ Elements(str.source) \in Seq(Element) /\ es \in Seq(Element)
         /\ \/ Elements(str.source) = es
            \/ \E e \in Element :
                 /\ state # 0 /\ e.kind # "char"
                 /\ Elements(str.source) = Append(es, e)
  <1>1. PICK s : s = str.source
    OBVIOUS
  <1>2. s \in Seq(Char) /\ Len(s) \in Nat
    BY <1>1, StringFields, LenProperties DEF TypeOK
  <1>3. /\ p \in Nat /\ p = Len(s) /\ b \in 1 .. Len(s) + 1
        /\ state = 0 => b = p + 1
        /\ state # 0 => s[b] = "START"
        /\ state = 1 => b = p
        /\ state = 2 => b + 1 = p
    <2>1. Len(unread) = 0
      BY EmptySeq
    <2> QED BY <1>1, <1>2, <2>1 DEF Decoding, Reading
  <1>4. es \in Seq(Element) /\ Elements(s) = es \o ElementsFrom(s)[b]
    BY <1>1 DEF Decoding, Divided
  <1>5. es \o << >> = es
    BY <1>4, ConcatEmptySeq
  <1>6. CASE state \in {0, 1, 2}
    <2>1. NoneAt(s, b)
      BY <1>2, <1>3, <1>6 DEF NoneAt
    <2>2. b \in 1 .. Len(s) + 2
      BY <1>2, <1>3
    <2>3. ElementsFrom(s)[b] = << >>
      BY <1>2, <2>1, <2>2, ElementsRead
    <2> QED BY <1>1, <1>4, <1>5, <2>3
  <1>7. CASE state \in {3, 4}
    <2>1. PICK e : e = ElementAt(str.source, b)
      OBVIOUS
    <2>2. PICK more : more = Append(es, e)
      OBVIOUS
    <2>3. PICK next : next = Following(str.source, b)
      OBVIOUS
    <2>a. state = 3 \/ state = 4
      BY <1>7
    <2>4. /\ e \in Element /\ e.kind # "char"
          /\ next \in 1 .. Len(str.source) + 2
          /\ Divided(str.source, more, next)
      BY <2>a, <2>1, <2>2, <2>3, TagIsComing
    <2>b. next = Len(str.source) + 2
      BY <2>a, <2>1, <2>2, <2>3, TagIsComing
    <2>5. next \in 1 .. Len(s) + 2 /\ NoneAt(s, next)
      BY <1>1, <1>2, <2>4, <2>b DEF NoneAt
    <2>6. ElementsFrom(s)[next] = << >>
      BY <1>2, <2>5, ElementsRead
    <2>7. more \in Seq(Element) /\ Elements(s) = more \o << >>
      BY <1>1, <2>4, <2>6 DEF Divided
    <2>8. Elements(s) = more
      BY <2>7, ConcatEmptySeq
    <2>9. state # 0 /\ e.kind # "char"
      BY <1>7, <2>4
    <2> QED BY <1>1, <1>4, <2>2, <2>4, <2>7, <2>8, <2>9
  <1>8. state \in 0 .. 4
    BY DEF TypeOK
  <1> QED BY <1>6, <1>7, <1>8

LEMMA StrippedAtEnd ==
  ASSUME TypeOK, NEW es, NEW b, NEW p, Decoding(es, b, p), unread = << >>
  PROVE  LET elements == Elements(str.source)
         IN  str.text = FlattenSeq([i \in DOMAIN elements |->
                                      IF elements[i].kind = "char"
                                      THEN elements[i].text ELSE << >>])
  <1>1. PICK all : all = Elements(str.source)
    OBVIOUS
  <1>2. all \in Seq(Element) /\ es \in Seq(Element)
    BY <1>1, AtTheEnd
  <1>3. Chars(all) = Chars(es)
    <2>1. CASE all = es
      BY <2>1
    <2>2. CASE all # es
      <3>1. PICK e \in Element : e.kind # "char" /\ all = Append(es, e)
        BY <1>1, <2>2, AtTheEnd
      <3> QED BY <1>2, <3>1, CharsAppend
    <2> QED BY <2>1, <2>2
  <1>4. str.text = Chars(all)
    BY <1>3 DEF Decoding
  <1>5. Chars(all) = FlattenSeq([i \in DOMAIN all |-> IF all[i].kind = "char"
                                                      THEN all[i].text ELSE << >>])
    BY <1>2, CharsWritten
  <1> QED BY <1>1, <1>4, <1>5, Zenon

LEMMA SettledAtEnd ==
  ASSUME TypeOK, NEW es, NEW b, NEW p, Decoding(es, b, p), unread = << >>
  PROVE  LET elements == Elements(str.source)
         IN  \A j \in DOMAIN elements :
               (j < Len(elements) \/ state = 0) /\ elements[j].kind = "close"
               => \A i \in DOMAIN elements :
                    LastTagBefore(elements, j, i) => ~WrongCodes(elements[i])
  <1>1. PICK all : all = Elements(str.source)
    OBVIOUS
  <1>2. /\ all \in Seq(Element) /\ es \in Seq(Element)
        /\ Len(all) \in Nat /\ Len(es) \in Nat /\ DOMAIN all = 1 .. Len(all)
    BY <1>1, AtTheEnd, LenProperties
  <1>3. Settled(es)
    BY DEF Decoding
  <1>4. ASSUME NEW i \in 1 .. Len(all), NEW j \in 1 .. Len(all),
               j < Len(all) \/ state = 0,
               all[j].kind = "close", LastTagBefore(all, j, i)
        PROVE  ~WrongCodes(all[i])
    <2>1. CASE all = es
      BY <1>3, <1>4, <2>1 DEF Settled
    <2>2. CASE all # es
      <3>1. PICK e \in Element : state # 0 /\ all = Append(es, e)
        BY <1>1, <2>2, AtTheEnd
      <3>2. /\ Len(all) = Len(es) + 1
            /\ \A k \in 1 .. Len(es) : all[k] = es[k]
        BY <1>2, <3>1, AppendProperties
      <3>3. j \in 1 .. Len(es)
        BY <1>2, <1>4, <3>1, <3>2
      <3>4. i \in 1 .. Len(es)
        <4>1. \E k \in i .. j - 1 : TRUE
          BY <1>4 DEF LastTagBefore
        <4> QED BY <1>2, <3>3, <4>1
      <3>5. LastTagBefore(es, j, i)
        <4>1. \A a \in 1 .. Len(es), c \in 1 .. Len(es) + 1 :
                LastTagBefore(all, c, a) <=> LastTagBefore(es, c, a)
          BY <1>2, <3>2, SameBeginning
        <4>2. j \in 1 .. Len(es) + 1
          BY <1>2, <3>3
        <4> QED BY <1>4, <3>4, <4>1, <4>2
      <3>6. es[j].kind = "close" /\ all[i] = es[i]
        BY <1>4, <3>2, <3>3, <3>4
      <3> QED BY <1>3, <3>3, <3>4, <3>5, <3>6 DEF Settled
    <2> QED BY <2>1, <2>2
  <1> QED BY <1>1, <1>2, <1>4

-----------------------------------------------------------------------------
(* The invariant of decoding holds.                                        *)
LEMMA CallDInv ==
  ASSUME TypeOK, IInv, DInv, CallStep
  PROVE  DInv'
  <1>1. pc = "ready"
    BY DEF CallStep, MakePlain, AppendPlain, WriteChar, Copy, AppendSaved, Clear,
           Edit, Call, MayCall
  <1>2. ASSUME Edit PROVE DInv'
    <2>1. pc' = "ready" /\ outcome' = "none"
      BY <1>1, <1>2 DEF Edit
    <2> QED BY <2>1 DEF DInv, TagsAreStripped, FailsOnlyUnbalanced, RejectedForCodes
  <1>3. ASSUME NEW src \in Sources, Decode(src) PROVE DInv'
    <2>1. /\ mark' = Len(tags) /\ tags' = tags /\ current' = None
          /\ mstack' = << >> /\ state' = 0 /\ unread' = src /\ pc' = "decode"
          /\ outcome' = "none"
          /\ str' = IF str.idx # << >> THEN [Empty EXCEPT !.source = src]
                               ELSE [str EXCEPT !.source = src]
      BY <1>3 DEF Decode
    <2>2. str'.source = src /\ str'.text = << >>
      <3>1. CASE str.idx # << >>
        <4>1. PICK n, f : n = << >> /\ f = FALSE
          OBVIOUS
        <4>2. Empty = [text |-> n, source |-> n, markup |-> n, idx |-> n,
                       written |-> f]
          BY <4>1, Zenon DEF Empty
        <4>3. /\ [Empty EXCEPT !.source = src].text = n
              /\ [Empty EXCEPT !.source = src].source = src
          BY ONLY <4>2
        <4> QED BY <2>1, <3>1, <4>1, <4>3, Zenon
      <3>2. CASE str.idx = << >>
        <4>1. str.text \in Text /\ Len(str.text) = 0
          <5>1. Len(str.idx) = Len(str.text) /\ str.text \in Text
            BY DEF IInv, Sound, Shaped, Paired
          <5>2. Len(str.idx) = 0
            BY <3>2, EmptySeq
          <5> QED BY <5>1, <5>2
        <4>2. str.text = << >>
          BY <4>1, EmptySeq DEF Text
        <4>3. str' = [str EXCEPT !.source = src]
          BY <2>1, <3>2
        <4>4. str'.text = str.text /\ str'.source = src
          BY <4>3 DEF TypeOK, String
        <4> QED BY <4>2, <4>4
      <3> QED BY <3>1, <3>2
    <2>3. src \in Seq(Char) /\ Len(src) \in Nat /\ Len(tags) \in Nat
      BY TextsAreText, LenProperties DEF TypeOK
    <2>4. Reading(1, 0)'
      <3>1. \A i \in 1 .. Len(src) : 0 + i = i
        OBVIOUS
      <3>2. /\ Len(src) = 0 + Len(src) /\ 1 \in 1 .. Len(src) + 1 /\ 1 = 0 + 1
            /\ 0 \in Nat
        BY <2>3
      <3> QED BY <2>1, <2>2, <3>1, <3>2 DEF Reading
    <2>5. PICK es : es = << >>
      OBVIOUS
    <2>6. es \in Seq(Element) /\ Len(es) = 0
      BY <2>5, EmptySeq
    <2>7. Divided(src, es, 1)
      <3>1. 1 \in 1 .. Len(src) + 2
        BY <2>3
      <3>2. ElementsFrom(src)[1] \in Seq(Element)
        BY <2>3, <3>1, ElementsRead
      <3>3. es \o ElementsFrom(src)[1] = ElementsFrom(src)[1]
        BY <2>5, <3>2, ConcatEmptySeq
      <3> QED BY <2>6, <3>3 DEF Divided, Elements
    <2>8. Chars(es) = << >>
      <3>1. PICK e : e = [kind |-> "char", type |-> "", text |-> << >>]
        OBVIOUS
      <3>2. e \in Element
        <4>1. << >> \in Seq(Char) /\ "" \in Char \cup {""}
          BY EmptySeq
        <4> QED BY <3>1, <4>1 DEF Element
      <3> QED BY <2>5, <2>6, <3>2, CharsAppend
    <2>9. Settled(es) /\ Opened(es)'
      BY <2>1, <2>6 DEF Settled, Opened
    <2>10. Stacked(es)'
      <3>1. Len(mstack') = 0
        BY <2>1, EmptySeq
      <3> QED BY <3>1 DEF Stacked
    <2>11. Balanced(es)'
      <3>1. \A kind : CountOf(es, Len(es), kind) = 0
        <4> SUFFICES ASSUME NEW kind PROVE CountOf(es, Len(es), kind) = 0
          OBVIOUS
        <4>1. {i \in 1 .. Len(es) : es[i].kind = kind} = {}
          BY <2>6
        <4> QED BY <4>1, FS_EmptySet DEF CountOf
      <3>2. Len(mstack') = 0
        BY <2>1, EmptySeq
      <3> QED BY <2>1, <3>1, <3>2 DEF Balanced
    <2>12. Referring'
      <3>1. Len(mstack') = 0 /\ current' <= Len(tags')
        BY <2>1, <2>3, EmptySeq DEF None
      <3> QED BY <2>1, <3>1 DEF Referring
    <2>13. Decoding(es, 1, 0)'
      BY <2>1, <2>2, <2>4, <2>7, <2>8, <2>9, <2>10, <2>11, <2>12 DEF Decoding
    <2> QED BY <2>1, <2>13 DEF DInv, TagsAreStripped, FailsOnlyUnbalanced,
                               RejectedForCodes
  <1> QED BY <1>2, <1>3 DEF CallStep, MakePlain, AppendPlain, WriteChar, Copy,
                            AppendSaved, Clear

LEMMA DecodeDInv ==
  ASSUME TypeOK, MInv, DInv, DecodeStep
  PROVE  DInv'
  <1>1. pc = "decode"
    BY DEF DecodeStep, TakeChar, TakeStart, TakeType, OpenTag, OpenText, OpenEnd,
           CloseTag, CloseText, CloseEnd, Decoded, Take
  <1>2. outcome = "none" /\ \E es, b, p : Decoding(es, b, p)
    BY <1>1 DEF DInv
  <1>3. PICK es, b, p : Decoding(es, b, p)
    BY <1>2
  <1>4. ASSUME Goes, \E more, b2, p2 : Decoding(more, b2, p2)'
        PROVE  DInv'
    <2>1. pc' = "decode" /\ outcome' = "none"
      BY <1>1, <1>2, <1>4 DEF Goes
    <2> QED BY <1>4, <2>1 DEF DInv, TagsAreStripped, FailsOnlyUnbalanced,
                              RejectedForCodes
  <1>5. ASSUME NEW s \in Char, TakeChar(s) PROVE DInv'
    <2>1. \E more : Decoding(more, b + 1, p + 1)'
      BY <1>3, <1>5, StepChar
    <2> QED BY <1>4, <1>5, <2>1 DEF TakeChar
  <1>6. ASSUME NEW s \in Char, TakeStart(s) PROVE DInv'
    <2>1. Decoding(es, b, p + 1)'
      BY <1>3, <1>6, StepStart
    <2> QED BY <1>4, <1>6, <2>1 DEF TakeStart
  <1>7. ASSUME NEW s \in Char, TakeType(s) PROVE DInv'
    <2>1. Decoding(es, b, p + 1)'
      BY <1>3, <1>7, StepType
    <2> QED BY <1>4, <1>7, <2>1 DEF TakeType
  <1>8. ASSUME NEW s \in Char, OpenTag(s) PROVE DInv'
    <2>1. Decoding(es, b, p + 1)'
      BY <1>3, <1>8, StepOpen
    <2> QED BY <1>4, <1>8, <2>1 DEF OpenTag
  <1>9. ASSUME NEW s \in Char, OpenText(s) PROVE DInv'
    <2>1. Decoding(es, b, p + 1)'
      BY <1>3, <1>9, StepOpenText
    <2> QED BY <1>4, <1>9, <2>1 DEF OpenText
  <1>10. ASSUME NEW s \in Char, OpenEnd(s) PROVE DInv'
    <2>1. \E more : Decoding(more, p + 2, p + 1)'
      BY <1>3, <1>10, StepOpenEnd
    <2> QED BY <1>4, <1>10, <2>1 DEF OpenEnd
  <1>11. ASSUME NEW s \in Char, CloseTag(s) PROVE DInv'
    <2>1. Decoding(es, b, p + 1)'
      BY <1>3, <1>11, StepClose
    <2> QED BY <1>4, <1>11, <2>1 DEF CloseTag
  (* It stops: on a closing tag too many, with the string as it was, ...   *)
  <1>12. ASSUME state = 4, mstack = << >>, str' = str,
                \/ pc' = "undefined" /\ outcome' = "none"
                \/ pc' = "ready" /\ outcome' = "threw"
         PROVE  DInv'
    <2>1. \E n \in 1 .. Len(Elements(str.source)) :
            CountOf(Elements(str.source), n, "close")
              > CountOf(Elements(str.source), n, "open")
      BY <1>3, <1>12, ClosedTooOften
    <2>2. FailsOnlyUnbalanced'
      BY <1>12, <2>1 DEF FailsOnlyUnbalanced
    <2> QED BY <1>12, <2>2 DEF DInv, TagsAreStripped, RejectedForCodes
  <1>13. ASSUME NEW s \in Char, CloseText(s) PROVE DInv'
    <2>1. CASE mstack = << >>
      BY <1>2, <1>12, <1>13, <2>1 DEF CloseText, Take
    <2>2. CASE mstack # << >>
      <3>1. Decoding(es, b, p + 1)'
        BY <1>3, <1>13, <2>2, StepCloseText
      <3> QED BY <1>4, <1>13, <2>2, <3>1 DEF CloseText
    <2> QED BY <2>1, <2>2
  <1>14. ASSUME NEW s \in Char, CloseEnd(s) PROVE DInv'
    <2>1. Take(s, 4, 0) /\ s = "END" /\ state = 4 /\ tags' = tags
      BY <1>14 DEF CloseEnd, Take
    <2>2. CASE current = None /\ Ends("threw") /\ UNCHANGED <<str, mstack, current>>
      <3>1. mstack = << >>
        BY <1>3, <2>2 DEF Decoding, Referring
      <3> QED BY <1>12, <2>1, <2>2, <3>1 DEF Ends
    <2>3. CASE current # None /\ ~Validate(tags[current]) /\ Reject
      <3>1. LET elements == Elements(str.source)
            IN  \E j \in DOMAIN elements :
                  /\ elements[j].kind = "close"
                  /\ \E i \in DOMAIN elements :
                       LastTagBefore(elements, j, i) /\ WrongCodes(elements[i])
        BY <1>3, <2>1, <2>3, RefusedForCodes
      <3>2. str'.source = str.source
        <4>1. PICK e, q : e = ErrorText /\ q = Plain(ErrorText)
          OBVIOUS
        <4>2. str' = [str EXCEPT !.text = e, !.markup = << >>, !.idx = q,
                                 !.written = FALSE]
          BY <2>3, <4>1 DEF Reject
        <4> QED BY <4>2 DEF TypeOK, String
      <3>3. pc' = "ready" /\ outcome' = "rejected"
        BY <2>3 DEF Reject, Ends
      <3>4. RejectedForCodes'
        BY <3>1, <3>2, <3>3 DEF RejectedForCodes
      <3> QED BY <3>3, <3>4 DEF DInv, TagsAreStripped, FailsOnlyUnbalanced
    <2>4. CASE current # None /\ Validate(tags[current]) /\ Pop
      <3>1. \E more : Decoding(more, p + 2, p + 1)'
        BY <1>3, <2>1, <2>4, StepPop
      <3> QED BY <1>4, <2>4, <3>1 DEF Pop
    <2>5. CASE /\ mstack = << >> /\ pc' = "undefined"
               /\ UNCHANGED <<str, mstack, current, outcome>>
      BY <1>2, <1>12, <2>1, <2>5
    <2> QED BY <1>14, <2>2, <2>3, <2>4, <2>5 DEF CloseEnd
  (* ... or with all of it read.                                           *)
  <1>15. CASE Decoded
    <2>1. /\ unread = << >> /\ pc' = "ready" /\ outcome' = "decoded"
          /\ str' = str /\ state' = state
      BY <1>15 DEF Decoded, Ends, objectVars, decoderVars
    <2>2. TagsAreStripped'
      BY <1>3, <2>1, StrippedAtEnd DEF TagsAreStripped
    <2>3. RejectedForCodes'
      BY <1>3, <2>1, SettledAtEnd DEF RejectedForCodes
    <2> QED BY <2>1, <2>2, <2>3 DEF DInv, FailsOnlyUnbalanced
  <1> QED BY <1>5, <1>6, <1>7, <1>8, <1>9, <1>10, <1>11, <1>13, <1>14, <1>15
          DEF DecodeStep

(* The invariant of decoding holds in every state.                         *)
THEOREM DecodingInvariance == Spec => []DInv
  <1>1. Init => DInv
    BY DEF Init, DInv, TagsAreStripped, FailsOnlyUnbalanced, RejectedForCodes
  <1>2. TypeOK /\ IInv /\ MInv /\ DInv /\ [Next]_vars => DInv'
    <2> SUFFICES ASSUME TypeOK, IInv, MInv, DInv, [Next]_vars PROVE DInv'
      OBVIOUS
    <2>1. CASE UNCHANGED vars
      <3>1. /\ UNCHANGED <<str, tags, pc, state, unread, tag, mstack, current>>
            /\ UNCHANGED <<outcome, mark>>
        BY <2>1 DEF vars, objectVars, decoderVars, historyVars
      <3>2. \A es, b, p : Decoding(es, b, p)' = Decoding(es, b, p)
        BY <3>1 DEF Decoding, Reading, Opened, Stacked, Held, Newest, Balanced, Referring
      <3>3. /\ TagsAreStripped' = TagsAreStripped
            /\ FailsOnlyUnbalanced' = FailsOnlyUnbalanced
            /\ RejectedForCodes' = RejectedForCodes
        BY <3>1 DEF TagsAreStripped, FailsOnlyUnbalanced, RejectedForCodes
      <3> QED BY <3>1, <3>2, <3>3, Zenon DEF DInv
    <2>2. CASE Next
      BY <2>2, CallDInv, DecodeDInv DEF Next
    <2> QED BY <2>1, <2>2
  <1> QED BY TypesHold, Invariance, MarkupInvariance, <1>1, <1>2, PTL DEF Spec

(* What decode_markup accepts, it strips of its tags and of nothing else.  *)
THEOREM AcceptedIsStripped == Spec => []TagsAreStripped
  <1>1. DInv => TagsAreStripped
    BY DEF DInv
  <1> QED BY <1>1, DecodingInvariance, PTL

(* It throws, or leaves mstack's bounds, only on a source that somewhere   *)
(* has closed more tags than it has opened.                                *)
THEOREM OnlyUnbalancedFail == Spec => []FailsOnlyUnbalanced
  <1>1. DInv => FailsOnlyUnbalanced
    BY DEF DInv
  <1> QED BY <1>1, DecodingInvariance, PTL

(* A rejected source has a closing tag before which a tag with wrong codes *)
(* was the one opened or closed last; an accepted source has no such one.  *)
THEOREM WrongCodesAreRejected == Spec => []RejectedForCodes
  <1>1. DInv => RejectedForCodes
    BY DEF DInv
  <1> QED BY <1>1, DecodingInvariance, PTL

=============================================================================
