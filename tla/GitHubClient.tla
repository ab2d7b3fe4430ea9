----------------------------- MODULE GitHubClient -----------------------------
(***************************************************************************)
(* What the client of app/github_client.py makes of a response of GitHub:  *)
(* the mapping of statuses and rate-limit headers to the service's errors. *)
(*                                                                         *)
(* A response is a record of what the mapping looks at:                    *)
(*   status      the HTTP status                                           *)
(*   data        what the body is to the routes: "issue", "pull",          *)
(*               "comment", "error" (an error object), or "garbled" (no    *)
(*               body, no JSON, or JSON without the expected fields)       *)
(*   number      the number of the issue in it                             *)
(*   remaining   x-ratelimit-remaining: "zero", "some" or "absent"         *)
(*   retryAfter  the Retry-After header (in seconds)                       *)
(*   reset       x-ratelimit-reset (in ticks from now)                     *)
(* A header is "absent", "garbage" (float() raises ValueError, as for a    *)
(* date, or int() does, for nan), "infinite" (int() raises OverflowError)  *)
(* or "number".                                                            *)
(***************************************************************************)
EXTENDS Integers

CONSTANT TicksPerSecond   \* resolution of time.time()

ASSUME TicksAssumption == TicksPerSecond \in Nat \ {0}

Header == [kind : {"absent", "garbage", "infinite", "number"}, value : Int]

Absent == [kind |-> "absent", value |-> 0]

Response ==
  [status : 0..599, data : {"issue", "pull", "comment", "error", "garbled"},
   number : Nat, remaining : {"absent", "zero", "some"},
   retryAfter : Header, reset : Header]

(* An error the service raises: its status and its Retry-After header,     *)
(* 0 for none.  The code follows from the status.                          *)
AppError(status) == [status |-> status, number |-> 0, wait |-> 0]

RateLimited(wait) == [status |-> 429, number |-> 0, wait |-> wait]

AtLeastOne(n) == IF n < 1 THEN 1 ELSE n

FallbackSeconds == 60

(* What float() makes nothing of is as good as no header. *)
Unread == {"absent", "garbage"}

(* The header _retry_after_seconds goes by: Retry-After, then the reset.   *)
WaitHeader(r) ==
  IF r.retryAfter.kind \in Unread THEN r.reset ELSE r.retryAfter

(* What it says in seconds: the reset epoch less the time is cut to whole  *)
(* seconds.                                                                *)
Seconds(r) ==
  IF r.retryAfter.kind \in Unread THEN r.reset.value \div TicksPerSecond
                                  ELSE r.retryAfter.value

(* Mutant: the wait is not at least a second. *)
RetryAfterUnbounded(r) ==
  IF WaitHeader(r).kind \in Unread THEN FallbackSeconds ELSE Seconds(r)

(* Mutant: only Retry-After is read. *)
RetryAfterHeaderOnly(r) ==
  IF r.retryAfter.kind \in Unread THEN FallbackSeconds
                                  ELSE AtLeastOne(r.retryAfter.value)

RetryAfterSeconds(r) ==
  IF WaitHeader(r).kind \in Unread THEN FallbackSeconds
                                   ELSE AtLeastOne(Seconds(r))

(* Mutant: a 403 without Retry-After is always a matter of permissions. *)
IsRateLimitedByHeader(r) ==
  r.status = 429 \/ r.retryAfter.kind # "absent"

(* Primary (quota exhausted) and secondary (abuse) limits. *)
IsRateLimited(r) ==
  \/ r.status = 429
  \/ r.remaining = "zero"
  \/ r.retryAfter.kind # "absent"

(* int() of an infinite number raises OverflowError, which is not caught.  *)
RateLimitError(r) ==
  IF WaitHeader(r).kind = "infinite" THEN AppError(500)
  ELSE RateLimited(RetryAfterSeconds(r))

(* Mutant: 410 Gone is left to the fallback. *)
StatusErrorWithout410(r) ==
  CASE r.status \in {401, 403, 404} -> AppError(r.status)
    [] r.status = 422               -> AppError(400)
    [] r.status >= 500              -> AppError(503)
    [] OTHER                        -> AppError(502)

StatusError(r) ==
  CASE r.status \in {401, 403, 404} -> AppError(r.status)
    [] r.status \in {410, 422}      -> AppError(400)
    [] r.status >= 500              -> AppError(503)
    [] OTHER                        -> AppError(502)

(* Mutant: the headers alone tell a rate limit. *)
MapErrorHeadersFirst(r) ==
  IF IsRateLimited(r) THEN RateLimitError(r) ELSE StatusError(r)

(* _map_error.  An exception in it is an unhandled one: 500. *)
MapError(r) ==
  IF r.status \in {403, 429} /\ IsRateLimited(r)
  THEN RateLimitError(r) ELSE StatusError(r)

(* _request raises for these; any other status is a result, a redirect too. *)
IsError(r) == r.status >= 400

(* A timeout or a transport error: UpstreamUnavailableError. *)
Unavailable == AppError(503)
=============================================================================
