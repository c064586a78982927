--------------------------- MODULE MCMarkupString ---------------------------
(* Sources for TLC: every string of up to five characters, strings of up   *)
(* to four whole elements, which reach further, nestings of three tags,    *)
(* and those for sequences of calls.                                       *)
EXTENDS MarkupString

MCChar == {"START", "END", "/", "!", " ", "p", "c", "#"}
MCLetters == {"p", "c"}

MCElements ==
  { <<"START", "c", "c", "END">>, <<"START", "c", "#", "END">>,
    <<"START", "p", "#", "END">>, <<"START", "c", "!", " ", "c", "END">>,
    <<"START", "c", "/", "END">>, <<"START", "c", "/", "c", "END">>,
    <<"#">> }

MCShortSources ==
  UNION {[1 .. n -> {"START", "END", "/", "c", "#"}] : n \in 0 .. 5}

(* Few sources, for sequences of calls: with and without text, accepted,   *)
(* rejected, cut off, and closing what was not opened.                     *)
MCRepeated ==
  { << >>, <<"#">>, <<"START", "c", "c", "END">>,
    <<"START", "c", "c", "END", "#", "START", "c", "/", "END">>,
    <<"#", "START", "c", "#", "END", "START", "c", "/", "END">>,
    <<"START", "c", "/", "END">>, <<"#", "START", "c", "/", "c">> }

(* Three tags inside each other, and a tag around two, each with codes     *)
(* that are right or wrong.                                                *)
MCNested ==
  LET good  == <<"START", "c", "c", "END">>
      wrong == <<"START", "c", "#", "END">>
      end   == <<"START", "c", "/", "END">>
      inside(a, b, c)  == FlattenSeq(<<a, b, c, end, end, end>>)
      besides(a, b, c) == FlattenSeq(<<a, b, end, c, end, end>>)
  IN  {inside(a, b, c)  : a \in {good, wrong}, b \in {good, wrong},
                          c \in {good, wrong}}
        \cup {besides(a, b, c) : a \in {good, wrong}, b \in {good, wrong},
                                 c \in {good, wrong}}

MCSources ==
  MCShortSources \cup MCNested
    \cup {FlattenSeq(s) : s \in UNION {[1 .. n -> MCElements] : n \in 1 .. 4}}
    \cup MCRepeated

MCPlains == {<<"c">>, <<"#", "c">>}
=============================================================================
