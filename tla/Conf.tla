-------------------------------- MODULE Conf --------------------------------
(***************************************************************************)
(* The configuration file, src/src/util/conf.c.  A line is a sequence of   *)
(* characters of the kinds parse_conf tells apart: "a" is any printable    *)
(* one, "=", "#", "SP" is white space and "CTL" is not printable.  A line  *)
(* fits in the buffer of fgets.                                            *)
(***************************************************************************)
EXTENDS Integers, Sequences, SequencesExt

\* The first position from i on with a character not in S; the end has none.
skip(line, i, S) ==
    CHOOSE j \in i..(Len(line) + 1) :
        /\ \A k \in i..(j - 1) : line[k] \in S
        /\ j = Len(line) + 1 \/ line[j] \notin S

NoEntry == [key |-> <<>>, value |-> <<>>, ret |-> -1]

\* Mutant: the value ends at the line's end only: spaces stay in it.
parse_conf_spaces(line) ==
    LET start == skip(line, 1, {"SP", "CTL"})
        key_end == skip(line, start, {"a"})
        value_p == skip(line, key_end, {"=", "SP", "CTL"})
        value_end == skip(line, value_p, {"a", "=", "SP"})
    IN  IF start > Len(line) \/ SubSeq(line, start, start) = <<"#">> THEN NoEntry
        ELSE [key |-> SubSeq(line, start, key_end - 1),
              value |-> SubSeq(line, value_p, value_end - 1), ret |-> 0]

parse_conf(line) ==
    LET start == skip(line, 1, {"SP", "CTL"})
        key_end == skip(line, start, {"a"})
        value_p == skip(line, key_end, {"=", "SP", "CTL"})
        value_end == skip(line, value_p, {"a", "="})
    IN  IF start > Len(line) \/ SubSeq(line, start, start) = <<"#">> THEN NoEntry
        ELSE [key |-> SubSeq(line, start, key_end - 1),
              value |-> SubSeq(line, value_p, value_end - 1), ret |-> 0]

\* The entries of a file whose lines have been parsed, the last one first.
load_conf(parsed) == Reverse(SelectSeq(parsed, LAMBDA e : e.ret = 0))

\* The first entry with the key; NoEntry ends the program.
get_conf_entry(config, key) ==
    LET i == SelectInSeq(config, LAMBDA e : e.key = key)
    IN  IF i = 0 THEN NoEntry ELSE config[i]

-----------------------------------------------------------------------------
(***************************************************************************)
(* What the file says of itself: lines "key = value", with comments.       *)
(***************************************************************************)
Words(S, n) == BoundedSeq(S, n) \ {<<>>}
Ends == {<<>>, <<"SP">>, <<"CTL", "a">>, <<"SP", "a">>, <<"#", "a">>}

\* A key and a value written with an equals sign, in any of the ways to space
\* them, are read as they were written, whatever follows behind a space or a
\* "#"; a comment or an empty line is no entry (parse_conf).
ParsesWhatIsWritten(n) ==
    /\ \A blanks, more \in BoundedSeq({"SP", "CTL"}, 2), key \in Words({"a"}, n),
          value \in Words({"a", "="}, n), end \in Ends :
          value[1] # "=" =>
          LET e == parse_conf(blanks \o key \o more \o <<"=">> \o blanks
                              \o value \o end)
          IN  e.ret = 0 /\ e.key = key /\ e.value = value
    /\ \A blanks \in BoundedSeq({"SP", "CTL"}, 2), rest \in BoundedSeq({"a", "=", "#"}, n) :
          /\ parse_conf(blanks).ret = -1
          /\ parse_conf(blanks \o <<"#">> \o rest).ret = -1

=============================================================================
