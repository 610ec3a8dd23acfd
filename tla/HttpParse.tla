------------------------------ MODULE HttpParse ------------------------------
(***************************************************************************)
(* The two state machines of src/src/http/parse.c, as operators that take  *)
(* the request r, one character ch and its position at in the line:        *)
(* http_parse_request_line and http_parse_request_header.                  *)
(*                                                                         *)
(* A character is one of the kinds the parser tells apart: "a" and "A" are *)
(* letters (H, T and P stand for themselves), "@" is a character without a *)
(* meaning of its own, the others are written as they are.  A position is  *)
(* the index in the line; a str_t is its position and length, with 0 for   *)
(* NULL.  st and hash are the local variables of the functions, ret is 1   *)
(* in the loop.                                                            *)
(***************************************************************************)
EXTENDS Integers, Sequences

Str(p, len) == [p |-> p, len |-> len]
NullStr == Str(0, 0)                 \* str_init

DigitChars == <<"0", "1", "2", "3", "4", "5", "6", "7", "8", "9">>
Digits == {DigitChars[i] : i \in DOMAIN DigitChars}
val(ch) == (CHOOSE i \in DOMAIN DigitChars : DigitChars[i] = ch) - 1   \* ch - '0'
IsUpper(ch) == ch \in {"A", "H", "T", "P"}
InMethod(ch) == IsUpper(ch) \/ ch = "_"
IsLetter(ch) == IsUpper(ch) \/ ch \in {"a", "c", "h"}
IsSpecial(ch) == ch \in {"NUL", "CR", "LF", "SP", "#", "%", "+", ".", "/", "?"}
usual(ch) == ~IsSpecial(ch)

\* The methods get_request_method knows, by length.
MethodsOfLength ==
    << {}, {}, {"GET", "PUT"}, {"POST", "COPY", "MOVE", "LOCK", "HEAD"},
       {"MKCOL", "PATCH", "TRACE"}, {"DELETE", "UNLOCK"}, {"OPTIONS"},
       {"PROPFIND"}, {"PROPPATCH"} >>
get_request_method(word, len) ==
    IF len \in DOMAIN MethodsOfLength /\ word \in MethodsOfLength[len]
    THEN word ELSE "UNKNOWN"

u16(x) == x % 2 ^ 16                 \* http_major and http_minor

Go(r, st) == [r EXCEPT !.st = st]
Fail(r, code) == [r EXCEPT !.ret = code]
Flag(r, f) == [r EXCEPT !.flags = @ \cup {f}]

-----------------------------------------------------------------------------
(***************************************************************************)
(* The request line.                                                       *)
(***************************************************************************)
\* The label done.
line_done(r) ==
    LET major   == IF r.http_minor = 9 THEN 0 ELSE r.http_major
        version == major * 1000 + r.http_minor
    IN  [r EXCEPT !.exten = IF @.p = 0 THEN @
                            ELSE Str(@.p, r.uri.p + r.uri.len - @.p),
                  !.http_major = major,
                  !.http_version = version,
                  !.state = "start",
                  !.ret = IF version = 9 /\ r.method # "GET" THEN -25 ELSE 0]

line_ends(r, at) ==
    line_done([r EXCEPT !.request_line.len = at - r.request_line.p])

\* CR and LF where no version was given.
ends_09(r, ch, at) ==
    LET q == [r EXCEPT !.http_minor = 9]
    IN  IF ch = "CR" THEN Go(q, "almost_done") ELSE line_ends(q, at)

req_start(r, ch, at) ==
    LET q == [r EXCEPT !.request_line.p = at]
    IN  IF ch \in {"CR", "LF"} THEN q
        ELSE IF ~InMethod(ch) THEN Fail(q, -1)
        ELSE Go([q EXCEPT !.method_name.p = at], "method")

\* word is what the letters of the method spell.
req_method(r, ch, at, word) ==
    LET len == at - r.method_name.p
        q == [r EXCEPT !.method_name.len = len,
                       !.method = get_request_method(word, len)]
    IN  IF ch # "SP" THEN IF InMethod(ch) THEN r ELSE Fail(r, -3)
        ELSE IF q.method = "UNKNOWN" THEN Fail(q, -2)
        ELSE Go(q, "spaces_before_uri")

req_spaces_before_uri(r, ch, at) ==
    IF ch = "/"
    THEN Go([r EXCEPT !.uri.p = at, !.schema = NullStr, !.host = NullStr,
                      !.port = NullStr], "after_slash_in_uri")
    ELSE IF IsLetter(ch) THEN Go([r EXCEPT !.schema.p = at], "schema")
    ELSE IF ch = "SP" THEN r ELSE Fail(r, -4)

req_schema(r, ch, at) ==
    IF IsLetter(ch) THEN r
    ELSE IF ch = ":"
    THEN Go([r EXCEPT !.schema.len = at - r.schema.p], "schema_slash")
    ELSE Fail(r, -5)

\* One fixed character: "://" and "HTTP/".
req_literal(r, ch, wanted, next, code) ==
    IF ch = wanted THEN Go(r, next) ELSE Fail(r, code)

\* No path: the uri is the first slash of "://".
bare_host(r) == Go([r EXCEPT !.uri = Str(r.schema.p + r.schema.len + 1, 1)],
                   "host_http_09")

req_host_end(r, ch, at) ==
    LET q == [r EXCEPT !.host.len = at - r.host.p]
    IN  CASE ch = ":"  -> Go([q EXCEPT !.port.p = at + 1], "port")
          [] ch = "/"  -> Go([q EXCEPT !.port = NullStr, !.uri.p = at],
                             "after_slash_in_uri")
          [] ch = "SP" -> bare_host([q EXCEPT !.port = NullStr])
          [] OTHER     -> Fail(q, -8)

req_host(r, ch, at) ==
    IF IsLetter(ch) \/ ch \in Digits \/ ch \in {".", "-"} THEN r
    ELSE req_host_end(r, ch, at)

req_host_start(r, ch, at) ==
    LET q == [r EXCEPT !.host.p = at]
    IN  IF ch = "[" THEN Go(q, "host_ip_literal")
        ELSE req_host(Go(q, "host"), ch, at)

req_host_ip_literal(r, ch) ==
    IF ch \in Digits \/ IsLetter(ch) \/ ch \in {":", "-", ".", "+"} THEN r
    ELSE IF ch = "]" THEN Go(r, "host_end") ELSE Fail(r, -9)

req_port(r, ch, at) ==
    LET q == [r EXCEPT !.port.len = at - r.port.p]
    IN  IF ch \in Digits THEN r
        ELSE CASE ch = "/"  -> Go([q EXCEPT !.uri.p = at], "after_slash_in_uri")
               [] ch = "SP" -> bare_host(q)
               [] OTHER     -> Fail(q, -10)

req_host_http_09(r, ch, at) ==
    CASE ch = "SP"          -> r
      [] ch \in {"CR", "LF"} -> ends_09(r, ch, at)
      [] ch = "H"           -> Go([r EXCEPT !.http_protocol.p = at], "http_H")
      [] OTHER              -> Fail(r, -11)

\* What ends the uri in all its states.
uri_ends(r, ch, at, next) ==
    LET q == [r EXCEPT !.uri.len = at - r.uri.p]
    IN  IF ch = "SP" THEN Go(q, next) ELSE ends_09(q, ch, at)

req_after_slash_in_uri(r, ch, at) ==
    CASE usual(ch)              -> Go(r, "check_uri")
      [] ch \in {"SP", "CR", "LF"} -> uri_ends(r, ch, at, "check_uri_http_09")
      [] ch \in {".", "/", "#"}  -> Go(Flag(r, "complex_uri"), "uri")
      [] ch = "%"               -> Go(Flag(r, "quoted_uri"), "uri")
      [] ch = "?"               -> Go([r EXCEPT !.args = at + 1], "uri")
      [] ch = "+"               -> Flag(r, "plus_in_uri")
      [] ch = "NUL"             -> Fail(r, -12)

\* Mutant: a new segment keeps the extension of the last one.
req_check_uri_keeps_exten(r, ch, at) ==
    CASE usual(ch)              -> r
      [] ch = "/"               -> Go(r, "after_slash_in_uri")
      [] ch = "."               -> [r EXCEPT !.exten.p = at + 1]
      [] ch \in {"SP", "CR", "LF"} -> uri_ends(r, ch, at, "check_uri_http_09")
      [] ch \in {"%", "?", "#"}  -> Go(r, "uri")
      [] ch = "+"               -> r
      [] ch = "NUL"             -> Fail(r, -13)

req_check_uri(r, ch, at) ==
    CASE usual(ch)              -> r
      [] ch = "/"               -> Go([r EXCEPT !.exten = NullStr],
                                      "after_slash_in_uri")
      [] ch = "."               -> [r EXCEPT !.exten.p = at + 1]
      [] ch \in {"SP", "CR", "LF"} -> uri_ends(r, ch, at, "check_uri_http_09")
      [] ch = "%"               -> Go(Flag(r, "quoted_uri"), "uri")
      [] ch = "?"               -> Go([r EXCEPT !.args = at + 1], "uri")
      [] ch = "#"               -> Go(Flag(r, "complex_uri"), "uri")
      [] ch = "+"               -> Flag(r, "plus_in_uri")
      [] ch = "NUL"             -> Fail(r, -13)

req_uri(r, ch, at) ==
    CASE ch \in {"SP", "CR", "LF"} -> uri_ends(r, ch, at, "http_09")
      [] ch = "#"               -> Flag(r, "complex_uri")
      [] ch = "NUL"             -> Fail(r, -14)
      [] OTHER                  -> r

\* Space after the uri: the version, the end, or the uri goes on and the
\* character is read again (p--).
after_uri(r, ch, at) ==
    CASE ch = "SP"              -> r
      [] ch \in {"CR", "LF"}     -> ends_09(r, ch, at)
      [] ch = "H"               -> Go([r EXCEPT !.http_protocol.p = at], "http_H")
req_check_uri_http_09(r, ch, at) ==
    IF ch \in {"SP", "CR", "LF", "H"} THEN after_uri(r, ch, at)
    ELSE req_check_uri(Go(Flag(r, "space_in_uri"), "check_uri"), ch, at)
req_http_09(r, ch, at) ==
    IF ch \in {"SP", "CR", "LF", "H"} THEN after_uri(r, ch, at)
    ELSE req_uri(Go(Flag(r, "space_in_uri"), "uri"), ch, at)

req_first_major_digit(r, ch) ==
    IF ch \in Digits \ {"0"} THEN Go([r EXCEPT !.http_major = val(ch)], "major_digit")
    ELSE Fail(r, -19)
req_major_digit(r, ch) ==
    IF ch = "." THEN Go(r, "first_minor_digit")
    ELSE IF ch \in Digits THEN [r EXCEPT !.http_major = u16(@ * 10 + val(ch))]
    ELSE Fail(r, -20)
req_first_minor_digit(r, ch) ==
    IF ch \in Digits THEN Go([r EXCEPT !.http_minor = val(ch)], "minor_digit")
    ELSE Fail(r, -21)

req_minor_digit(r, ch, at) ==
    LET q == [r EXCEPT !.http_protocol.len = at - r.http_protocol.p]
    IN  CASE ch = "CR"        -> Go(q, "almost_done")
          [] ch = "LF"        -> line_ends(q, at)
          [] ch = "SP"        -> Go(q, "spaces_after_digit")
          [] ch \in Digits    -> [r EXCEPT !.http_minor = u16(@ * 10 + val(ch))]
          [] OTHER            -> Fail(r, -22)

req_spaces_after_digit(r, ch, at) ==
    CASE ch = "SP" -> r
      [] ch = "CR" -> Go(r, "almost_done")
      [] ch = "LF" -> line_ends(r, at)
      [] OTHER     -> Fail(r, -23)

req_almost_done(r, ch, at) ==
    LET q == [r EXCEPT !.request_line.len = at - r.request_line.p - 1]
    IN  IF ch = "LF" THEN line_done(q) ELSE Fail(q, -24)

\* The body of the loop.
request_line_step(r, ch, at, word) ==
    CASE r.st = "start"              -> req_start(r, ch, at)
      [] r.st = "method"             -> req_method(r, ch, at, word)
      [] r.st = "spaces_before_uri"  -> req_spaces_before_uri(r, ch, at)
      [] r.st = "schema"             -> req_schema(r, ch, at)
      [] r.st = "schema_slash"       ->
             req_literal(r, ch, "/", "schema_slash_slash", -6)
      [] r.st = "schema_slash_slash" -> req_literal(r, ch, "/", "host_start", -7)
      [] r.st = "host_start"         -> req_host_start(r, ch, at)
      [] r.st = "host"               -> req_host(r, ch, at)
      [] r.st = "host_end"           -> req_host_end(r, ch, at)
      [] r.st = "host_ip_literal"    -> req_host_ip_literal(r, ch)
      [] r.st = "port"               -> req_port(r, ch, at)
      [] r.st = "host_http_09"       -> req_host_http_09(r, ch, at)
      [] r.st = "after_slash_in_uri" -> req_after_slash_in_uri(r, ch, at)
      [] r.st = "check_uri"          -> req_check_uri(r, ch, at)
      [] r.st = "check_uri_http_09"  -> req_check_uri_http_09(r, ch, at)
      [] r.st = "uri"                -> req_uri(r, ch, at)
      [] r.st = "http_09"            -> req_http_09(r, ch, at)
      [] r.st = "http_H"             -> req_literal(r, ch, "T", "http_HT", -15)
      [] r.st = "http_HT"            -> req_literal(r, ch, "T", "http_HTT", -16)
      [] r.st = "http_HTT"           -> req_literal(r, ch, "P", "http_HTTP", -17)
      [] r.st = "http_HTTP"          ->
             req_literal(r, ch, "/", "first_major_digit", -18)
      [] r.st = "first_major_digit"  -> req_first_major_digit(r, ch)
      [] r.st = "major_digit"        -> req_major_digit(r, ch)
      [] r.st = "first_minor_digit"  -> req_first_minor_digit(r, ch)
      [] r.st = "minor_digit"        -> req_minor_digit(r, ch, at)
      [] r.st = "spaces_after_digit" -> req_spaces_after_digit(r, ch, at)
      [] r.st = "almost_done"        -> req_almost_done(r, ch, at)

-----------------------------------------------------------------------------
(***************************************************************************)
(* The header lines.  A character that may stand in a name has a code, the *)
(* same for a capital; a name is known by its hash.                        *)
(***************************************************************************)
CONSTANT HashBits      \* width of the hash

lowcase(ch) ==
    CASE ch \in Digits     -> 48 + val(ch)
      [] ch = "-"          -> 45
      [] ch \in {"a", "A"} -> 97
      [] ch = "c"          -> 99
      [] ch \in {"h", "H"} -> 104
      [] ch = "P"          -> 112
      [] ch = "T"          -> 116
      [] OTHER             -> 0
InName(ch) == lowcase(ch) # 0
HASH(key, c) == (key * 31 + c) % 2 ^ HashBits

\* The labels done and header_done.
header_line_done(r) ==
    [r EXCEPT !.state = "start", !.header_hash = r.hash, !.ret = 0]
header_done(r) == [r EXCEPT !.state = "start", !.ret = 100]

NoValue(r) == [r EXCEPT !.header_value = NullStr]
ValueUpTo(r, at) == [r EXCEPT !.header_value.len = at - r.header_value.p]

hdr_start(r, ch, at) ==
    LET q == [r EXCEPT !.header_name.p = at, !.invalid_header = FALSE]
        blank == [q EXCEPT !.header_name.len = 0]
    IN  CASE ch = "CR"  -> Go(blank, "header_almost_done")
          [] ch = "LF"  -> header_done(blank)
          [] InName(ch) -> Go([q EXCEPT !.hash = HASH(0, lowcase(ch))], "name")
          [] ch = "NUL" -> Fail(Go(q, "name"), -1)
          [] OTHER      -> Go([q EXCEPT !.invalid_header = TRUE], "name")

hdr_name(r, ch, at) ==
    LET q == [r EXCEPT !.header_name.len = at - r.header_name.p]
    IN  CASE InName(ch) -> [r EXCEPT !.hash = HASH(@, lowcase(ch))]
          [] ch = ":"   -> Go(q, "space_before_value")
          [] ch = "CR"  -> Go(NoValue(q), "almost_done")
          [] ch = "LF"  -> header_line_done(NoValue(q))
          [] ch = "NUL" -> Fail(r, -2)
          [] OTHER      -> [r EXCEPT !.invalid_header = TRUE]

hdr_space_before_value(r, ch, at) ==
    CASE ch = "SP"  -> r
      [] ch = "CR"  -> Go(NoValue(r), "almost_done")
      [] ch = "LF"  -> header_line_done(NoValue(r))
      [] ch = "NUL" -> Fail(r, -3)
      [] OTHER      -> Go([r EXCEPT !.header_value.p = at], "value")

hdr_value(r, ch, at) ==
    CASE ch = "SP"  -> Go(ValueUpTo(r, at), "space_after_value")
      [] ch = "CR"  -> Go(ValueUpTo(r, at), "almost_done")
      [] ch = "LF"  -> header_line_done(ValueUpTo(r, at))
      [] ch = "NUL" -> Fail(r, -4)
      [] OTHER      -> r

hdr_space_after_value(r, ch) ==
    CASE ch = "SP"  -> r
      [] ch = "CR"  -> Go(r, "almost_done")
      [] ch = "LF"  -> header_line_done(r)
      [] ch = "NUL" -> Fail(r, -5)
      [] OTHER      -> Go(r, "value")

hdr_almost_done(r, ch) ==
    CASE ch = "LF" -> header_line_done(r)
      [] ch = "CR" -> r
      [] OTHER     -> Fail(r, -6)

hdr_header_almost_done(r, ch) ==
    IF ch = "LF" THEN header_done(r) ELSE Fail(r, -7)

\* The body of the loop.
request_header_step(r, ch, at) ==
    CASE r.st = "start"              -> hdr_start(r, ch, at)
      [] r.st = "name"               -> hdr_name(r, ch, at)
      [] r.st = "space_before_value" -> hdr_space_before_value(r, ch, at)
      [] r.st = "value"              -> hdr_value(r, ch, at)
      [] r.st = "space_after_value"  -> hdr_space_after_value(r, ch)
      [] r.st = "almost_done"        -> hdr_almost_done(r, ch)
      [] r.st = "header_almost_done" -> hdr_header_almost_done(r, ch)

-----------------------------------------------------------------------------
(***************************************************************************)
(* A call of a parser: the locals are loaded, and saved when the input is  *)
(* used up and the parser returns 1.  What was loaded is not read again    *)
(* before it is saved: meanwhile the field holds "start", or blank.        *)
(***************************************************************************)
parse_enters(r, blank) ==
    [r EXCEPT !.st = r.state, !.hash = r.header_hash, !.ret = 1,
              !.state = "start", !.header_hash = blank]

line_out_of_input(r) == [r EXCEPT !.state = r.st]
\* Mutant: the hash is not saved.
header_out_of_input_forgets(r) == [r EXCEPT !.state = r.st]

header_out_of_input(r) == [r EXCEPT !.state = r.st, !.header_hash = r.hash]

=============================================================================
