---------------------------- MODULE HttpResponse ----------------------------
(***************************************************************************)
(* The tables of src/src/http/response.c and how a status code finds its   *)
(* line and its page.  An entry is the code it is for, 0 for NULL; tables  *)
(* are indexed from 0.                                                     *)
(***************************************************************************)
EXTENDS Naturals, Sequences

http_status_lines ==
    << 200, 201, 202, 0, 204, 0, 206,
       301, 302, 303, 304, 0, 0, 307,
       400, 401, 402, 403, 404, 405, 406, 0, 408, 409, 410, 411, 412, 413,
       414, 415, 416,
       500, 501, 502, 503, 504, 0, 0, 507 >>
HTTP_STATUS_LAST_2XX == 207
HTTP_STATUS_OFFSET_3XX == HTTP_STATUS_LAST_2XX - 200
HTTP_STATUS_LAST_3XX == 308
HTTP_STATUS_OFFSET_4XX == HTTP_STATUS_LAST_3XX - 301 + HTTP_STATUS_OFFSET_3XX
HTTP_STATUS_LAST_4XX == 417
HTTP_STATUS_OFFSET_5XX == HTTP_STATUS_LAST_4XX - 400 + HTTP_STATUS_OFFSET_4XX
HTTP_STATUS_OFFSET_LAST == 508

\* The page of 498 is the one of 404.
http_error_pages ==
    << 301, 302, 303, 0, 0, 0, 307,
       400, 401, 402, 403, 404, 405, 406, 0, 408, 409, 410, 411, 412, 413,
       414, 415, 416,
       494, 495, 496, 497, 404, 0,
       500, 501, 502, 503, 504, 0, 0, 507 >>
HTTP_ERROR_LAST_3XX == 308
HTTP_ERROR_OFFSET_4XX == HTTP_ERROR_LAST_3XX - 301
HTTP_ERROR_LAST_4XX == 417
HTTP_ERROR_OFFSET_494 == HTTP_ERROR_LAST_4XX - 400 + HTTP_ERROR_OFFSET_4XX
HTTP_ERROR_OFFSET_LAST == 508

entry(table, i) == table[i + 1]

get_http_status_line(ret_code) ==
    CASE ret_code >= 200 /\ ret_code < HTTP_STATUS_LAST_2XX ->
            entry(http_status_lines, ret_code - 200)
      [] ret_code >= 301 /\ ret_code < HTTP_STATUS_LAST_3XX ->
            entry(http_status_lines, ret_code - 301 + HTTP_STATUS_OFFSET_3XX)
      [] ret_code >= 400 /\ ret_code < HTTP_STATUS_LAST_4XX ->
            entry(http_status_lines, ret_code - 400 + HTTP_STATUS_OFFSET_4XX)
      [] ret_code >= 500 /\ ret_code < HTTP_STATUS_OFFSET_LAST ->
            entry(http_status_lines, ret_code - 500 + HTTP_STATUS_OFFSET_5XX)
      [] OTHER -> 0

\* Mutant: the codes from 500 on in a row of their own.
get_http_error_page_5xx(ret_code) ==
    CASE ret_code >= 301 /\ ret_code < HTTP_ERROR_LAST_3XX ->
            entry(http_error_pages, ret_code - 301)
      [] ret_code >= 400 /\ ret_code < HTTP_ERROR_LAST_4XX ->
            entry(http_error_pages, ret_code - 400 + HTTP_ERROR_OFFSET_4XX)
      [] ret_code >= 500 /\ ret_code < HTTP_ERROR_OFFSET_LAST ->
            entry(http_error_pages, ret_code - 500 + HTTP_ERROR_OFFSET_494)
      [] OTHER -> 0

get_http_error_page(ret_code) ==
    CASE ret_code >= 301 /\ ret_code < HTTP_ERROR_LAST_3XX ->
            entry(http_error_pages, ret_code - 301)
      [] ret_code >= 400 /\ ret_code < HTTP_ERROR_LAST_4XX ->
            entry(http_error_pages, ret_code - 400 + HTTP_ERROR_OFFSET_4XX)
      [] ret_code >= 494 /\ ret_code < HTTP_ERROR_OFFSET_LAST ->
            entry(http_error_pages, ret_code - 494 + HTTP_ERROR_OFFSET_494)
      [] OTHER -> 0

\* What http_finalize_request sends: nothing without a status line.
NoAnswer == [status |-> 0, page |-> 0]
response(ret_code) ==
    LET status == get_http_status_line(ret_code)
    IN  IF status = 0 THEN NoAnswer
        ELSE [status |-> status,
              page |-> IF ret_code = 200 THEN 200
                       ELSE get_http_error_page(ret_code)]

=============================================================================
