---------------------------- MODULE StatusCodes ----------------------------
(* utils::Status (src/api_manager/utils/status.cc): one integer that is an   *)
(* nginx code (negative), a canonical code (below 100) or an HTTP code, and  *)
(* its conversions.                                                          *)
EXTENDS Integers

OK == 0
CANCELLED == 1
UNKNOWN == 2
INVALID_ARGUMENT == 3
DEADLINE_EXCEEDED == 4
NOT_FOUND == 5
ALREADY_EXISTS == 6
PERMISSION_DENIED == 7
RESOURCE_EXHAUSTED == 8
FAILED_PRECONDITION == 9
ABORTED == 10
OUT_OF_RANGE == 11
UNIMPLEMENTED == 12
INTERNAL == 13
UNAVAILABLE == 14
DATA_LOSS == 15
UNAUTHENTICATED == 16
Canonical == 0..16

(* The constructor: HTTP 200 is kept as the canonical OK.                    *)
StatusOf(code) == IF code = 200 THEN OK ELSE code

(* Status::ok                                                                *)
IsOk(code) == StatusOf(code) = OK

NginxToHttp == [c \in -6..-1 |-> <<500, 100, 429, 202, 404, 400>>[-c]]
CanonicalToHttp ==
  [c \in Canonical |-> <<200, 499, 500, 400, 504, 404, 409, 403, 429, 400, 409, 400,
                         501, 500, 503, 500, 401>>[c + 1]]

HttpCode(code) ==
  IF code >= 100 THEN code
  ELSE IF code < 0 THEN (IF code >= -6 THEN NginxToHttp[code] ELSE 500)
  ELSE IF code \in Canonical THEN CanonicalToHttp[code] ELSE 500

NginxToCanonical ==
  [c \in -6..-1 |-> <<INTERNAL, CANCELLED, PERMISSION_DENIED, ALREADY_EXISTS, NOT_FOUND,
                      ABORTED>>[-c]]
HttpToCanonical(code) ==
  CASE code = 400 -> INVALID_ARGUMENT
    [] code = 401 -> UNAUTHENTICATED
    [] code = 403 -> PERMISSION_DENIED
    [] code = 404 -> NOT_FOUND
    [] code = 409 -> ABORTED
    [] code = 416 -> OUT_OF_RANGE
    [] code = 429 -> RESOURCE_EXHAUSTED
    [] code = 499 -> CANCELLED
    [] code = 501 -> UNIMPLEMENTED
    [] code = 503 -> UNAVAILABLE
    [] code = 504 -> DEADLINE_EXCEEDED
    [] OTHER -> IF code \in 200..299 THEN OK
                ELSE IF code \in 400..499 THEN FAILED_PRECONDITION
                ELSE IF code \in 500..599 THEN INTERNAL ELSE UNKNOWN

CanonicalCode(code) ==
  IF code < 0 THEN (IF code >= -6 THEN NginxToCanonical[code] ELSE UNKNOWN)
  ELSE IF code < 100 THEN code
  ELSE HttpToCanonical(code)
=============================================================================
