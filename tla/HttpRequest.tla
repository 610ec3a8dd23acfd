----------------------------- MODULE HttpRequest -----------------------------
(***************************************************************************)
(* One request after another on one block of memory, src/src/http/         *)
(* request.c: receive and parse the request line, the header lines and the *)
(* body, answer, and give the block back.                                  *)
(*                                                                         *)
(* A recv brings any number of characters, at least one; which ones they   *)
(* are is chosen when the parser reads them, and the parser may run out of *)
(* them before any character but the first.  The block is not cleared      *)
(* between requests: what http_request_handler does not set is Stale.      *)
(* Fields that nobody reads any more are set back to Stale to keep the     *)
(* states few: without line handlers, as here, this is all of the request  *)
(* line once its version has been looked at.                               *)
(***************************************************************************)
EXTENDS HttpParse, HashTable, HttpResponse

CONSTANTS Words,       \* what the letters of a method may spell
          Kinds(_, _), \* the characters looked at in a state of a parser
          MaxSpare,    \* bound on a request line
          MaxSpareHeader, \* bound on a header line
          MaxLines,    \* header lines that fit in the buffer
          BodyRoom,    \* characters that fit behind the header
          MaxHost,     \* length of the hosts that are tried
          Buckets,     \* buckets of request_header_ht
          HostName, ContentLengthName,   \* short names for the two headers
          IntBits,     \* width of int
          Stale        \* what an earlier request left behind

VARIABLES pc,          \* where __http_request_handler is
          r,           \* the request
          fresh,       \* recv has brought a character not yet read
          line,        \* the characters of this line so far
          spare,       \* how many of them did not bring the parser forward
          lines,       \* header lines completed
          got,         \* characters received behind the header
          sent         \* the answer, when there is one

vars == <<pc, r, fresh, line, spare, lines, got, sent>>

StaleStr == Str(Stale, Stale)
NewRequest ==
    [state |-> "start", st |-> "start", ret |-> 1,
     request_line |-> NullStr, method_name |-> StaleStr, method |-> "stale",
     schema |-> StaleStr, host |-> StaleStr, port |-> StaleStr,
     uri |-> StaleStr, args |-> 0, exten |-> NullStr,
     http_protocol |-> NullStr, http_major |-> Stale, http_minor |-> Stale,
     http_version |-> Stale, flags |-> {}, content_len |-> 0,
     header_name |-> StaleStr, header_value |-> StaleStr,
     invalid_header |-> FALSE, header_hash |-> Stale, hash |-> Stale]

\* What is left of it when a header line is to be read.
HeaderRequest(content_len) ==
    parse_enters([NewRequest EXCEPT !.content_len = content_len], Stale)

Init ==
    /\ pc = "idle" /\ r = NewRequest /\ fresh = FALSE /\ line = <<>>
    /\ spare = 0 /\ lines = 0 /\ got = 0 /\ sent = NoAnswer

-----------------------------------------------------------------------------
int(x) == ((x + 2 ^ (IntBits - 1)) % 2 ^ IntBits) - 2 ^ (IntBits - 1)

\* The number in front of the first character that is not a digit.
str_atoi(v) ==
    LET n == SelectInSeq(v, LAMBDA ch : ch \notin Digits)
        digits == IF n = 0 THEN v ELSE SubSeq(v, 1, n - 1)
    IN  FoldLeft(LAMBDA x, ch : int(10 * x + val(ch)), 0, digits)

\* One character of the loop of http_process_host; i counts from 0.
host_step(h, ch, i) ==
    CASE h.ret # 0 -> h
      [] ch = "."  -> IF h.dot_pos = i - 1 THEN [h EXCEPT !.ret = -1]
                      ELSE [h EXCEPT !.dot_pos = i]
      [] ch = ":"  -> IF h.state = "usual"
                      THEN [h EXCEPT !.host_len = i, !.state = "rest"] ELSE h
      [] ch = "["  -> IF i = 0 THEN [h EXCEPT !.state = "literal"] ELSE h
      [] ch = "]"  -> IF h.state = "literal"
                      THEN [h EXCEPT !.host_len = i + 1, !.state = "rest"] ELSE h
      [] ch = "NUL" -> [h EXCEPT !.ret = -1]
      [] ch = "/"  -> [h EXCEPT !.ret = -2]
      [] OTHER     -> h

\* Mutant: the dot at the end stays.
http_process_host_dot(v) ==
    LET h == FoldLeftDomain(LAMBDA x, i : host_step(x, v[i], i - 1),
                            [state |-> "usual", dot_pos |-> Len(v),
                             host_len |-> Len(v), ret |-> 0], v)
    IN  IF h.ret # 0 THEN h.ret ELSE IF h.host_len = 0 THEN -3 ELSE h.host_len

\* The value of host.len, or a negative return value.
http_process_host(v) ==
    LET h == FoldLeftDomain(LAMBDA x, i : host_step(x, v[i], i - 1),
                            [state |-> "usual", dot_pos |-> Len(v),
                             host_len |-> Len(v), ret |-> 0], v)
        len == IF h.dot_pos = h.host_len - 1 THEN h.host_len - 1 ELSE h.host_len
    IN  IF h.ret # 0 THEN h.ret ELSE IF len = 0 THEN -3 ELSE len

\* Mutant: without tolower.
hash_key_lc_caseful(name) ==
    FoldLeft(LAMBDA key, ch : HASH(key, IF ch = "H" THEN 72 ELSE lowcase(ch)),
             0, name)

hash_key_lc(name) ==
    FoldLeft(LAMBDA key, ch : HASH(key, lowcase(ch)), 0, name)
\* Only the handlers that are not NULL are added.
http_headers_handler == <<[name |-> HostName, handler |-> "host"],
                          [name |-> ContentLengthName, handler |-> "length"]>>
request_header_ht ==
    FoldLeft(LAMBDA ht, h : hash_table_add(ht, hash_key_lc(h.name), h.handler),
             hash_table_create(Buckets), http_headers_handler)

Value == SubSeq(line, r.header_value.p, r.header_value.p + r.header_value.len - 1)

\* The return value and content_len.
handle_http_request_header ==
    LET hh == hash_table_find(request_header_ht, r.header_hash, "none")
        n  == str_atoi(Value)
        host == http_process_host(Value)
    IN  CASE r.invalid_header -> <<0, r.content_len>>
          [] ~r.invalid_header /\ hh = "none" -> <<0, r.content_len>>
          [] ~r.invalid_header /\ hh = "host" ->
                <<IF host < 0 THEN host ELSE 0, r.content_len>>
          [] ~r.invalid_header /\ hh = "length" ->
                <<IF n <= 0 THEN -1 ELSE 0, n>>

-----------------------------------------------------------------------------
(***************************************************************************)
(* Bounds on the input, in place of the size of the buffer.  A line has so *)
(* many characters to spare: those that do not take the parser to a later  *)
(* state.  In a request line a longer method, a schema and each spare      *)
(* character of the uri cost one, any other all there is.                  *)
(***************************************************************************)
LineStates ==
    << "start", "method", "spaces_before_uri", "schema", "schema_slash",
       "schema_slash_slash", "host_start", "host", "host_end",
       "host_ip_literal", "port", "host_http_09", "after_slash_in_uri",
       "check_uri", "check_uri_http_09", "uri", "http_09", "http_H",
       "http_HT", "http_HTT", "http_HTTP", "first_major_digit",
       "major_digit", "first_minor_digit", "minor_digit",
       "spaces_after_digit", "almost_done" >>
UriStates == {"after_slash_in_uri", "check_uri", "check_uri_http_09", "uri",
              "http_09"}
HeaderStates ==
    << "start", "name", "space_before_value", "value", "space_after_value",
       "almost_done", "header_almost_done" >>

at == Len(line) + 1
rank(order, st) == SelectInSeq(order, LAMBDA s : s = st)
IsSpare(order, q) == q.ret = 1 /\ rank(order, q.st) <= rank(order, r.st)

LineCost(q) ==
    CASE q.ret # 1 -> 0
      [] q.ret = 1 /\ q.st = "method" -> IF at <= 3 THEN 0 ELSE 1
      [] q.ret = 1 /\ q.st = "schema" /\ r.st # "schema" -> 1
      [] r.st \in UriStates /\ IsSpare(LineStates, q) -> 1
      [] OTHER -> IF IsSpare(LineStates, q) THEN MaxSpare ELSE 0
LineFits(q) == spare' = spare + LineCost(q) /\ spare' <= MaxSpare

HeaderFits(q) ==
    /\ lines < MaxLines \/ q.st # "name"
    /\ spare' = spare + (IF IsSpare(HeaderStates, q) THEN 1 ELSE 0)
    /\ spare' <= MaxSpareHeader

-----------------------------------------------------------------------------
http_finalize_request(ret_code) ==
    /\ sent' = response(ret_code)
    /\ pc' = "sent"
    /\ r' = [NewRequest EXCEPT !.http_version = r.http_version,
                               !.content_len = r.content_len]
    /\ fresh' = FALSE /\ line' = <<>> /\ spare' = 0 /\ lines' = 0

http_request_handler ==
    /\ pc = "idle"
    /\ pc' = "line_recv" /\ r' = NewRequest
    /\ UNCHANGED <<fresh, line, spare, lines, got, sent>>

\* No block: http_fast_response.
no_request_memory ==
    /\ pc = "idle"
    /\ pc' = "sent" /\ sent' = [status |-> 507, page |-> 507]
    /\ UNCHANGED <<r, fresh, line, spare, lines, got>>

\* What recv_http_request can return: 0, the buffer is full, a timeout, an
\* error, the peer has closed.
recv_http_request(room) == {0, -1, -2, -3, -4} \ (IF room THEN {} ELSE {0})

line_recv ==
    /\ pc = "line_recv"
    /\ \E ret \in recv_http_request(TRUE) :
          IF ret = 0
          THEN /\ pc' = "line_parse" /\ r' = parse_enters(r, Stale) /\ fresh' = TRUE
               /\ UNCHANGED <<line, spare, lines, sent>>
          ELSE http_finalize_request(400)
    /\ UNCHANGED got

line_step ==
    /\ pc = "line_parse"
    /\ \E ch \in Kinds("line", r), word \in Words :
          /\ word = "UNKNOWN" \/ (r.st = "method" /\ ch = "SP")
          /\ r' = request_line_step(r, ch, at, word)
          /\ LineFits(r')
          /\ line' = Append(line, ch)
          /\ pc' = IF r'.ret = 1 THEN pc ELSE "line_returns"
    /\ fresh' = FALSE
    /\ UNCHANGED <<lines, got, sent>>

line_runs_out ==
    /\ pc = "line_parse" /\ ~fresh
    /\ r' = line_out_of_input(r)
    /\ pc' = "line_recv"
    /\ UNCHANGED <<fresh, line, spare, lines, got, sent>>

\* Back in __http_request_handler; no line handler is registered.
line_returns ==
    /\ pc = "line_returns"
    /\ IF r.ret < 0 THEN http_finalize_request(400)
       ELSE IF r.http_version < 1000 THEN http_finalize_request(200)
       ELSE /\ pc' = "header_parse"
            /\ r' = HeaderRequest(0)
            /\ line' = <<>> /\ spare' = 0
            /\ UNCHANGED <<fresh, lines, sent>>
    /\ UNCHANGED got

header_step ==
    /\ pc = "header_parse"
    /\ \E ch \in Kinds("header", r) :
          /\ r' = request_header_step(r, ch, at)
          /\ HeaderFits(r')
          /\ line' = Append(line, ch)
          /\ pc' = IF r'.ret = 1 THEN pc ELSE "header_returns"
    /\ fresh' = FALSE
    /\ UNCHANGED <<lines, got, sent>>

header_runs_out ==
    /\ pc = "header_parse" /\ ~fresh
    /\ r' = header_out_of_input(r)
    /\ pc' = "header_recv"
    /\ UNCHANGED <<fresh, line, spare, lines, got, sent>>

header_recv ==
    /\ pc = "header_recv"
    /\ \E ret \in recv_http_request(TRUE) :
          IF ret = 0
          THEN /\ pc' = "header_parse" /\ r' = parse_enters(r, Stale) /\ fresh' = TRUE
               /\ UNCHANGED <<line, spare, lines, sent>>
          ELSE http_finalize_request(400)
    /\ UNCHANGED got

\* The switch of http_process_request_header.
header_returns ==
    /\ pc = "header_returns"
    /\ \/ /\ r.ret = 0
          /\ LET h == handle_http_request_header
             IN  IF h[1] # 0 THEN http_finalize_request(400)
                 ELSE /\ pc' = "header_parse"
                      /\ r' = HeaderRequest(h[2])
                      /\ line' = <<>> /\ spare' = 0 /\ lines' = lines + 1
                      /\ UNCHANGED <<fresh, sent>>
          /\ UNCHANGED got
       \/ /\ r.ret = 100
          /\ pc' = "body" /\ got' \in 0..BodyRoom
          /\ r' = HeaderRequest(r.content_len) /\ line' = <<>> /\ spare' = 0 /\ lines' = 0
          /\ UNCHANGED <<fresh, sent>>
       \/ r.ret < 0 /\ http_finalize_request(400) /\ UNCHANGED got

\* Mutant: more than announced will do.
body_complete_at_least == got >= r.content_len

body_complete == got = r.content_len

\* http_process_request_body; the default handler of the body answers.
body_done ==
    /\ pc = "body" /\ body_complete
    /\ http_finalize_request(200)
    /\ UNCHANGED got

body_recv ==
    /\ pc = "body" /\ ~body_complete
    /\ \E ret \in recv_http_request(got < BodyRoom) :
          IF ret = 0
          THEN got' \in (got + 1)..BodyRoom /\ UNCHANGED <<pc, r, fresh, line, spare, lines, sent>>
          ELSE http_finalize_request(507) /\ UNCHANGED got

\* The block goes back to the cache.
request_done ==
    /\ pc = "sent"
    /\ pc' = "idle" /\ r' = NewRequest /\ got' = 0 /\ sent' = NoAnswer
    /\ UNCHANGED <<fresh, line, spare, lines>>

Next ==
    \/ http_request_handler \/ no_request_memory
    \/ line_recv \/ line_step \/ line_runs_out \/ line_returns
    \/ header_recv \/ header_step \/ header_runs_out \/ header_returns
    \/ body_done \/ body_recv \/ request_done

Spec == Init /\ [][Next]_vars

-----------------------------------------------------------------------------
\* A line is parsed the same however recv cuts it into pieces: when a parser
\* returns, the request is what one call with the whole line would have made
\* of it (state, header_hash and the positions saved between the calls of
\* http_parse_request_line and http_parse_request_header).
ParsedInOnePiece ==
    LET line_upto[n \in 0..Len(line)] ==
            IF n = 0 THEN parse_enters(NewRequest, Stale)
            ELSE request_line_step(line_upto[n - 1], line[n], n, r.method)
        header_upto[n \in 0..Len(line)] ==
            IF n = 0 THEN HeaderRequest(r.content_len)
            ELSE request_header_step(header_upto[n - 1], line[n], n)
    IN  /\ pc = "line_returns" => r = line_upto[Len(line)]
        /\ pc = "header_returns" => r = header_upto[Len(line)]

LineRead == pc = "line_returns" /\ r.ret = 0
Text(i, j) == {line[k] : k \in i..j}
UriEnd == r.uri.p + r.uri.len

\* The parts of a request line that was accepted, by what stands around them:
\* the uri starts with a slash and takes in everything up to the spaces in
\* front of the version, args starts behind the first "?" and exten behind a
\* "." of the last segment; nothing of an earlier request is left in them
\* (http_parse_request_line on a block that is not cleared).
LineIsDelimited ==
    LineRead =>
    /\ r.uri.p \in 1..Len(line) /\ line[r.uri.p] = "/"
    /\ Text(r.uri.p, UriEnd - 1) \cap {"CR", "LF", "NUL"} = {}
    /\ \/ r.schema = NullStr /\ r.host = NullStr /\ r.port = NullStr
          /\ Text(r.method_name.len + r.method_name.p, r.uri.p - 1) = {"SP"}
       \/ /\ r.schema.p \in 1..Len(line) /\ r.host.p = r.schema.p + r.schema.len + 3
          /\ Text(r.schema.p + r.schema.len, r.host.p - 1) = {":", "/"}
          /\ Text(r.host.p, r.host.p + r.host.len - 1) \cap {"/", "SP", "@"} = {}
          /\ line[r.host.p + r.host.len] \in {":", "/", "SP"}
          /\ \/ r.port = NullStr
             \/ /\ r.port.p = r.host.p + r.host.len + 1
                /\ Text(r.port.p, r.port.p + r.port.len - 1) \subseteq Digits
    /\ \/ r.uri.p < r.host.p \* no path
       \/ IF r.http_protocol.p = 0
          THEN Text(UriEnd, Len(line)) \subseteq {"SP", "CR", "LF"}
          ELSE Text(UriEnd, r.http_protocol.p - 1) = {"SP"}
    /\ r.args # 0 => /\ line[r.args - 1] = "?"
                     /\ r.args - 1 \in r.uri.p..(UriEnd - 1)
                     /\ "?" \notin Text(r.uri.p, r.args - 2)
    /\ r.exten.p # 0 =>
          /\ line[r.exten.p - 1] = "."
          /\ r.exten.p > r.uri.p /\ r.exten.p + r.exten.len = UriEnd
          /\ \A i \in r.exten.p..(UriEnd - 1) :
                line[i] = "/" => Text(r.exten.p, i) \cap {"?", "#", "%"} # {}

\* The number in the digits from position i on.
RECURSIVE NumberAt(_, _)
NumberAt(i, x) ==
    IF line[i] \in Digits THEN NumberAt(i + 1, 10 * x + val(line[i])) ELSE x

\* http_version is what the line says: 0.9 without a version, or with a
\* minor version 9, which the parser uses as its mark for 0.9; never the
\* version of an earlier request.  Only GET is accepted with 0.9.
VersionIsRead ==
    LineRead =>
    LET p == r.http_protocol.p
        dot == CHOOSE i \in (p + 5)..Len(line) :
                  line[i] = "." /\ "." \notin Text(p + 5, i - 1)
        major == NumberAt(p + 5, 0)
        minor == NumberAt(dot + 1, 0)
    IN  /\ r.http_version =
              IF p = 0 \/ minor = 9 THEN 9 ELSE 1000 * major + minor
        /\ r.http_version = 9 => r.method = "GET"

\* http_parse_request_line takes everything from this line, and rightly.
LineIsRead == LineIsDelimited /\ VersionIsRead

HeaderRead == pc = "header_returns" /\ r.ret = 0
Name == SubSeq(line, r.header_name.p, r.header_name.p + r.header_name.len - 1)
Lower(name) == [i \in DOMAIN name |-> lowcase(name[i])]

\* A header line reaches the handler of its own name, however the name is
\* capitalised and whatever came before it, and no line with a character
\* that does not belong in a name reaches one (hash_key_lc, header_hash,
\* invalid_header, hash_table_find).
HandlerIsByName ==
    HeaderRead =>
    LET hh == hash_table_find(request_header_ht, r.header_hash, "none")
        named == {i \in DOMAIN http_headers_handler :
                     Lower(http_headers_handler[i].name) = Lower(Name)}
    IN  /\ r.invalid_header <=> \E i \in DOMAIN Name : ~InName(Name[i])
        /\ ~r.invalid_header =>
              IF named = {} THEN hh = "none"
              ELSE \E i \in named : hh = http_headers_handler[i].handler

\* The value of a header is all that stands behind the colon without the
\* spaces around it, and NULL when that is nothing; a line without a colon
\* has no value (header_value is not cleared between lines).
ValueIsTrimmed ==
    HeaderRead =>
    LET colon == r.header_name.p + r.header_name.len
        behind == {i \in (colon + 1)..Len(line) : line[i] \notin {"SP", "CR", "LF"}}
    IN  IF line[colon] # ":" \/ behind = {} THEN r.header_value = NullStr
        ELSE /\ r.header_value.p \in behind
             /\ r.header_value.p + r.header_value.len - 1 \in behind
             /\ \A i \in behind : i >= r.header_value.p
                                  /\ i < r.header_value.p + r.header_value.len

\* http_parse_request_header and the lookup of the handler: name and value are
\* those of this line.
HeaderIsRead == HandlerIsByName /\ ValueIsTrimmed

\* What the host of a Host header is, said without the loop: no slash, no
\* two dots in a row; the host ends behind "]" if it starts with "[", and
\* in front of the first ":" otherwise; a dot at its end does not count, unless
\* the rest has a dot too; it is not empty (http_process_host).
HostOf(v) ==
    LET closing == SelectInSeq(v, LAMBDA ch : ch = "]")
        colon == SelectInSeq(v, LAMBDA ch : ch = ":")
        full == IF v # <<>> /\ v[1] = "["
                THEN IF closing = 0 THEN v ELSE SubSeq(v, 1, closing)
                ELSE IF colon = 0 THEN v ELSE SubSeq(v, 1, colon - 1)
        rest == SubSeq(v, Len(full) + 1, Len(v))
    IN  IF full # <<>> /\ Last(full) = "." /\ "." \notin Range(rest)
        THEN Front(full) ELSE full
HostIsRight ==
    pc = "idle" =>
    \A v \in BoundedSeq({"a", ".", ":", "[", "]", "/"}, MaxHost) :
        LET bad == \/ "/" \in Range(v)
                   \/ \E i \in 1..(Len(v) - 1) : v[i] = "." /\ v[i + 1] = "."
        IN  IF bad \/ HostOf(v) = <<>> THEN http_process_host(v) < 0
            ELSE http_process_host(v) = Len(HostOf(v))

\* Every code finds its own status line and page or none, never that of
\* another code but for 498, and the codes this server answers with have both
\* (the offsets into http_status_lines and http_error_pages).
AnswersAreFound ==
    pc = "idle" =>
    /\ \A code \in 100..599 :
          /\ get_http_status_line(code) \in {0, code}
          /\ code # 498 => get_http_error_page(code) \in {0, code}
    /\ \A code \in {400, 507} : response(code) = [status |-> code, page |-> code]
    /\ response(200) # NoAnswer

\* A 200 to a request with a header means that the body is complete and that
\* nothing came behind it (http_process_request_body).
BodyIsExact ==
    (pc = "sent" /\ sent.status = 200 /\ r.http_version = Stale) =>
        got = r.content_len

=============================================================================
