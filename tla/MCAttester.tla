----------------------------- MODULE MCAttester -----------------------------
(* Attester for TLC: answers put together from pieces in any order, cut      *)
(* answers of a launcher that splits its token into chunks, and tables of    *)
(* up to two cells with certificates anywhere.                               *)
EXTENDS Attester

\* usize has five bits.  Sizes: 0 and 1 in several spellings, 2, 5, and those that
\* meet the limit: with 1b the end of the chunk does, with 1f the sum overflows, and
\* 20 is no usize.
Line(text) == text \o CRLF
Pieces ==
  {Line(t) : t \in {<<"0">>, <<"0", "2">>, <<"1">>, <<" ", "1", " ", ";", "x">>, <<"+", "1">>, <<"5">>,
                    <<"1", "b">>, <<"1", "f">>, <<"2", "0">>, <<"1", ";", NonUtf8>>}} \cup
  {<<"x">>, <<"1">>, CRLF, <<CR>>, <<"x">> \o CRLF, Line(<<"1">>) \o Line(<<"x">>), Line(<<"2">>) \o Line(CRLF)}
Bodies == {FlattenSeq(ps) : ps \in UNION {[1 .. n -> Pieces] : n \in 0 .. 3}}

Answer(chunked, body, whole) ==
  [head |-> TRUE, ok |-> TRUE, chunked |-> chunked, body |-> body, whole |-> whole]

\* A token whose middle looks like a size, in one or two chunks.
Token == <<"x", "1", "x", "x", "CR", "LF", "0", "CR", "LF", "x">>
Encodings ==
  {Line(<<"0", "A">>) \o Token \o CRLF \o Line(<<"0">>),
   Line(<<"1">>) \o <<"x">> \o CRLF \o Line(<<"2", ";", "x">>) \o <<"1", "x">> \o CRLF \o Line(<<"0">>)}

MCAnswers ==
  {Answer(TRUE, b, <<>>) : b \in {c \in Bodies : Len(c) < MaxUsize}} \cup
  UNION {{Answer(TRUE, c, e) : c \in {d \in Prefixes(e) : Len(d) < MaxUsize}} : e \in Encodings} \cup
  {Answer(FALSE, b, <<>>) : b \in {<<>>, <<"x">> \o CRLF, CRLF}} \cup
  {[Answer(FALSE, <<"x">>, <<>>) EXCEPT !.ok = FALSE], [Answer(FALSE, <<"x">>, <<>>) EXCEPT !.head = FALSE]}

Cells ==
  [guid : {"vcek", "vlek"}, offset : 0 .. 7, length : {0, 1, 2, 9}] \cup
  {[guid |-> "zero", offset |-> 0, length |-> 0], [guid |-> "ark", offset |-> 6, length |-> 2]}
MCTables == {[cells |-> cs, size |-> 8] : cs \in UNION {[1 .. n -> Cells] : n \in 1 .. 2} }
=============================================================================
