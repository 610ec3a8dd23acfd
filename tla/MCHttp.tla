------------------------------- MODULE MCHttp -------------------------------
(***************************************************************************)
(* An instance of HttpRequest for TLC: one character of each kind a state  *)
(* tells apart.                                                            *)
(***************************************************************************)
EXTENDS HttpRequest

UriKinds == {"a", ".", "/", "%", "?", "#", "+", "SP", "CR", "LF", "NUL"}

LineKinds(st) ==
    CASE st = "start" -> {"A", "CR", "LF", "a"}
      [] st = "method" -> {"A", "SP", "a"}
      [] st = "spaces_before_uri" -> {"/", "a", "SP", "@"}
      [] st = "schema" -> {"a", ":", "@"}
      [] st \in {"schema_slash", "schema_slash_slash", "http_HTTP"} -> {"/", "@"}
      [] st = "host_start" -> {"[", "a", ":", "/", "SP", "@"}
      [] st = "host" -> {"a", ".", ":", "/", "SP", "@"}
      [] st = "host_end" -> {":", "/", "SP", "@"}
      [] st = "host_ip_literal" -> {"a", ":", "]", "@"}
      [] st = "port" -> {"1", "/", "SP", "@"}
      [] st = "host_http_09" -> {"SP", "CR", "LF", "H", "@"}
      [] st \in {"after_slash_in_uri", "check_uri", "uri"} -> UriKinds
      [] st \in {"check_uri_http_09", "http_09"} -> UriKinds \cup {"H"}
      [] st \in {"http_H", "http_HT"} -> {"T", "@"}
      [] st = "http_HTT" -> {"P", "@"}
      [] st = "first_major_digit" -> {"0", "1"}
      [] st = "major_digit" -> {"1", ".", "@"}
      [] st = "first_minor_digit" -> {"1", "9", "@"}
      [] st = "minor_digit" -> {"1", "SP", "CR", "LF", "@"}
      [] st = "spaces_after_digit" -> {"SP", "CR", "LF", "@"}
      [] st = "almost_done" -> {"LF", "@"}

ValueKinds(hash) ==
    CASE hash = hash_key_lc(HostName) -> {"a", ".", ":", "[", "]", "/"}
      [] hash = hash_key_lc(ContentLengthName) -> {"0", "1", "9", "a"}
      [] OTHER -> {"a"}

HeaderKinds(q) ==
    CASE q.st = "start" -> {"H", "c", "@", "CR", "LF", "NUL"}
      [] q.st = "name" -> {"h", "c", "@", ":", "CR", "LF", "NUL"}
      [] q.st \in {"space_before_value", "value", "space_after_value"} ->
            ValueKinds(q.hash) \cup {"SP", "CR", "LF", "NUL"}
      [] q.st = "almost_done" -> {"LF", "CR", "@"}
      [] q.st = "header_almost_done" -> {"LF", "@"}

MCKinds(phase, q) == IF phase = "line" THEN LineKinds(q.st) ELSE HeaderKinds(q)

MCHostName == <<"H">>
MCContentLengthName == <<"c", "h">>

=============================================================================
