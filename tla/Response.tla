------------------------------ MODULE Response ------------------------------
(***************************************************************************)
(* Responses (src/include/response.h, src/src/response.cc): what a handler *)
(* returns, and what is written of it.                                     *)
(***************************************************************************)

\* HttpCode, with the integers codeToInt casts it to.
CodeToInt(code) ==
  CASE code = "OK" -> 200
    [] code = "CREATED" -> 201
    [] code = "FORBIDDEN" -> 403
    [] code = "NOT_FOUND" -> 404
    [] code = "NOT_ALLOWED" -> 405
    [] code = "INTERNAL_ERROR" -> 500

\* MediaType; NONE is punted to the default.
MediaTypeToString(type) ==
  CASE type = "APPLICATION_JSON" -> "application/json"
    [] type = "TEXT_PLAIN" -> "text/plain"
    [] type = "NONE" -> "application/octet-stream"

Response(code, type, content) == [code |-> code, type |-> type, content |-> content]

NoContent == [said |-> "nothing", values |-> <<>>]

Plain(code) == Response(code, "TEXT_PLAIN", NoContent)

NotAllowed == Plain("NOT_ALLOWED")

NotFound == Plain("NOT_FOUND")

\* What the other end reads in the text of a response.
ToText(r) ==
  [status |-> CodeToInt(r.code), type |-> MediaTypeToString(r.type), body |-> r.content]
=============================================================================
