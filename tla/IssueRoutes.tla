----------------------------- MODULE IssueRoutes -----------------------------
(***************************************************************************)
(* POST and PATCH of issues, GET of one issue and POST of comments         *)
(* (app/routers/issues.py): each is one call to GitHub between the         *)
(* validation of the request and the projection of the result.             *)
(*                                                                         *)
(* The call is not atomic: GitHub may carry it out and the answer be lost, *)
(* or too late, or unreadable; it may be carried out after the handler has *)
(* given up.  The service never repeats a call; its callers may, when they *)
(* are told 429 or 503.                                                    *)
(***************************************************************************)
EXTENDS GitHubClient, Schemas, Sequences, FiniteSets

CONSTANTS Calls,      \* requests to the service, each made once
          Opened,     \* the issues and pull requests there are at first
          NoCall,     \* who made those
          Requests,   \* what callers ask for
          Refusals    \* what GitHub answers without doing anything

Ops == {"create", "get", "update", "comment"}

ItemSet == [kind : {"issue", "pull"}, title : Titles,
            body : {"text", "blank", "absent"}, state : States,
            by : Calls \cup {NoCall}]

ASSUME RoutesAssumption ==
  /\ IsFiniteSet(Calls) /\ NoCall \notin Calls
  /\ Opened \in Seq(ItemSet)
  /\ Requests \subseteq [op : Ops, number : Nat, payload : Payload]
  /\ Refusals \subseteq {r \in Response : r.status >= 300 /\ r.data = "error"}

VARIABLES
  repo,      \* GitHub: the issues and pull requests, by number
  comments,  \* GitHub: the comments, as <<number, call that made it>>
  wire,      \* calls on their way to GitHub
  call,      \* per call: the frame of its handler, then its answer
  times      \* history: how often GitHub has carried a call out

vars == <<repo, comments, wire, call, times>>

NoAnswer == [status |-> 0, number |-> 0, wait |-> 0]

Reply(status, data, number, retryAfter) ==
  [status |-> status, data |-> data, number |-> number,
   remaining |-> "absent", retryAfter |-> retryAfter, reset |-> Absent]

NoResponse == Reply(0, "garbled", 0, Absent)

NoRequest == [op |-> "get", number |-> 0, payload |-> NoPayload]

(* first: the call this one repeats, itself if it repeats none. *)
New(a) == [pc |-> "new", request |-> NoRequest, first |-> a,
           response |-> NoResponse, answer |-> NoAnswer]

Exists(n) == n \in DOMAIN repo

-----------------------------------------------------------------------------
(* The handlers.                                                           *)

(* Path(ge=1) and the request models. *)
Valid(q) ==
  /\ q.op # "create" => q.number >= 1
  /\ CASE q.op = "create"  -> ValidCreate(q.payload)
       [] q.op = "update"  -> ValidPatch(q.payload)
       [] q.op = "comment" -> ValidComment(q.payload)
       [] q.op = "get"     -> TRUE

(* Validated, and on to the client's one request to GitHub. *)
Submit(a, q, first) ==
  /\ call[a].pc = "new"
  /\ Valid(q)
  /\ call' = [call EXCEPT ![a] = [New(a) EXCEPT !.pc = "sent", !.request = q,
                                                !.first = first]]
  /\ wire' = wire \cup {a}
  /\ UNCHANGED <<repo, comments, times>>

(* RequestValidationError: 400, and nothing is sent. *)
Reject(a, q) ==
  /\ call[a].pc = "new"
  /\ ~ Valid(q)
  /\ call' = [call EXCEPT ![a] = [New(a) EXCEPT !.pc = "answered",
                                                !.answer = AppError(400)]]
  /\ UNCHANGED <<repo, comments, wire, times>>

Success(status, number) == [status |-> status, number |-> number, wait |-> 0]

(* Mutant: a field that is missing gets a default. *)
ToIssueWithDefault(r, status) == Success(status, r.number)

(* A body without the required fields raises KeyError or TypeError: 500.   *)
ToIssue(r, status) ==
  IF r.data \in {"issue", "pull"} THEN Success(status, r.number) ELSE AppError(500)

ToComment(r) ==
  IF r.data = "comment" THEN Success(201, r.number) ELSE AppError(500)

IsPullRequest(r) == r.data = "pull"

NotFound == AppError(404)

(* What each handler returns for a result of GitHub. *)
CreateIssueResult(r) == ToIssue(r, 201)

(* Mutant: a pull request is looked for in what a PATCH returns only. *)
GetIssueResultUnchecked(r) == ToIssue(r, 200)

GetIssueResult(r) == IF IsPullRequest(r) THEN NotFound ELSE ToIssue(r, 200)

UpdateIssueResult(r) == IF IsPullRequest(r) THEN NotFound ELSE ToIssue(r, 200)

CreateCommentResult(r) == ToComment(r)

Result(op, r) ==
  CASE op = "create"  -> CreateIssueResult(r)
    [] op = "get"     -> GetIssueResult(r)
    [] op = "update"  -> UpdateIssueResult(r)
    [] op = "comment" -> CreateCommentResult(r)

(* What the await brings: _request raises or the handler has a result. *)
Outcome(op, r) == IF IsError(r) THEN MapError(r) ELSE Result(op, r)

Answer(a, answer) ==
  call' = [call EXCEPT ![a].pc = "answered", ![a].answer = answer]

Complete(a) ==
  /\ call[a].pc = "replied"
  /\ Answer(a, Outcome(call[a].request.op, call[a].response))
  /\ UNCHANGED <<repo, comments, wire, times>>

(* Mutant: the client tries a timed out request again. *)
RequestRepeated(a) ==
  /\ call[a].pc \in {"sent", "replied"}
  /\ call' = [call EXCEPT ![a].pc = "sent"]
  /\ wire' = wire \cup {a}
  /\ UNCHANGED <<repo, comments, times>>

(* A timeout or a transport error, whatever has become of the request: it  *)
(* may still be on its way.                                                *)
RequestFails(a) ==
  /\ call[a].pc \in {"sent", "replied"}
  /\ call' = [call EXCEPT ![a].pc = "answered", ![a].answer = Unavailable,
                          ![a].response = NoResponse]
  /\ UNCHANGED <<repo, comments, wire, times>>

-----------------------------------------------------------------------------
(* GitHub and the network, as the client relies on them.                   *)

(* The response reaches a handler that still waits for it. *)
Respond(a, r) ==
  call' = IF call[a].pc = "sent"
          THEN [call EXCEPT ![a].pc = "replied", ![a].response = r]
          ELSE call

OneSecond == [kind |-> "number", value |-> 1]

(* After the effect: the result, a body that cannot be read, or an error   *)
(* of a server on the way, with or without the time it asks for.           *)
Results(status, data, number) ==
  { Reply(status, data, number, Absent), Reply(status, "garbled", 0, Absent),
    Reply(502, "error", 0, Absent), Reply(503, "error", 0, OneSecond) }

CreateIssue(a) ==
  LET p == GithubPayload(call[a].request.payload)
      n == Len(repo) + 1
  IN  /\ call[a].request.op = "create"
      /\ repo' = Append(repo, [kind |-> "issue", title |-> p.title,
                               body |-> p.body, state |-> "open", by |-> a])
      /\ \E r \in Results(201, "issue", n) : Respond(a, r)
      /\ UNCHANGED comments

GetIssue(a) ==
  LET n == call[a].request.number
  IN  /\ call[a].request.op = "get" /\ Exists(n)
      /\ \E r \in Results(200, repo[n].kind, n) : Respond(a, r)
      /\ UNCHANGED <<repo, comments>>

Patched(item, p) ==
  [item EXCEPT !.title = Given(p.title, @), !.body = Given(p.body, @),
               !.state = Given(p.state, @)]

(* A PATCH changes what it names, of a pull request as of an issue. *)
UpdateIssue(a) ==
  LET n == call[a].request.number
      p == GithubPayload(call[a].request.payload)
  IN  /\ call[a].request.op = "update" /\ Exists(n)
      /\ repo' = [repo EXCEPT ![n] = Patched(@, p)]
      /\ \E r \in Results(200, repo[n].kind, n) : Respond(a, r)
      /\ UNCHANGED comments

CreateComment(a) ==
  LET n == call[a].request.number
  IN  /\ call[a].request.op = "comment" /\ Exists(n)
      /\ comments' = comments \cup {<<n, a>>}
      /\ \E r \in Results(201, "comment", n) : Respond(a, r)
      /\ UNCHANGED repo

Execute(a) ==
  /\ a \in wire
  /\ CreateIssue(a) \/ GetIssue(a) \/ UpdateIssue(a) \/ CreateComment(a)
  /\ wire' = wire \ {a}
  /\ times' = [times EXCEPT ![a] = @ + 1]

Refuse(a) ==
  /\ a \in wire
  /\ \E r \in Refusals : Respond(a, r)
  /\ wire' = wire \ {a}
  /\ UNCHANGED <<repo, comments, times>>

Lose(a) ==
  /\ a \in wire
  /\ wire' = wire \ {a}
  /\ UNCHANGED <<repo, comments, call, times>>

(* The process dies: its callers' connections break. *)
Restart ==
  /\ \E a \in Calls : call[a].pc \in {"sent", "replied"}
  /\ call' = [a \in Calls |->
                IF call[a].pc \in {"sent", "replied"}
                THEN [call[a] EXCEPT !.pc = "answered", !.answer = NoAnswer,
                                     !.response = NoResponse]
                ELSE call[a]]
  /\ UNCHANGED <<repo, comments, wire, times>>

-----------------------------------------------------------------------------
(* The callers: "callers should retry on 503 regardless" (DESIGN.md:48),   *)
(* and on 429 when they have waited.                                       *)
Retryable(c) == c.pc = "answered" /\ c.answer.status \in {429, 503}

Retry(a, b) ==
  /\ call[b].first = b
  /\ \A c \in Calls : call[c].first = b => Retryable(call[c])
  /\ Submit(a, call[b].request, b)

-----------------------------------------------------------------------------

Init ==
  /\ repo = Opened
  /\ comments = {}
  /\ wire = {}
  /\ call = [a \in Calls |-> New(a)]
  /\ times = [a \in Calls |-> 0]

Handler(a) == Complete(a) \/ RequestFails(a)

Upstream(a) == Execute(a) \/ Refuse(a) \/ Lose(a)

Caller(a) ==
  \/ \E q \in Requests : Submit(a, q, a) \/ Reject(a, q)
  \/ \E b \in Calls \ {a} : Retry(a, b)

Next == \/ \E a \in Calls : Caller(a) \/ Handler(a) \/ Upstream(a)
        \/ Restart

Spec == Init /\ [][Next]_vars

-----------------------------------------------------------------------------
(* TypeOK: the state has its shape. *)
RequestSet == [op : Ops, number : Nat, payload : Payload]

AnswerSet == [status : Nat, number : Nat, wait : Nat]

FrameSet ==
  [pc : {"new", "sent", "replied", "answered"}, request : RequestSet,
   first : Calls, response : Response, answer : AnswerSet]

TypeOK ==
  /\ repo \in Seq(ItemSet)
  /\ comments \subseteq Nat \X Calls
  /\ wire \subseteq Calls
  /\ call \in [Calls -> FrameSet]
  /\ times \in [Calls -> Nat]

Answered(a, status) == call[a].pc = "answered" /\ call[a].answer.status = status

(* CreatedAsAsked: 201 names (in Location) an issue that this very call    *)
(* created, or the number this very call commented on, which may be a pull *)
(* request's: create_comment does not look.  A call is never answered with *)
(* the work of its repetition or of somebody else.                         *)
CreatedAsAsked ==
  \A a \in Calls : Answered(a, 201) =>
    LET q == call[a].request
        n == call[a].answer.number
    IN  \/ /\ q.op = "create" /\ Exists(n)
           /\ repo[n].kind = "issue" /\ repo[n].by = a
        \/ q.op = "comment" /\ n = q.number /\ <<n, a>> \in comments

(* NoPullRequestShown: what GET and PATCH show is an issue, the one asked  *)
(* for: "silently returning one would break that promise" (DESIGN.md:70).  *)
NoPullRequestShown ==
  \A a \in Calls : Answered(a, 200) =>
    LET n == call[a].answer.number
    IN  n = call[a].request.number /\ Exists(n) /\ repo[n].kind = "issue"

(* DuplicatesOnlyAfterDoubt: what a caller asks for, and repeats as it is  *)
(* told to, happens again at most once for every answer (503, 500, none)   *)
(* that left open whether it had happened.  A caller that was always told  *)
(* never has it happen twice.                                              *)
Doubtful(c) == c.pc = "answered" /\ c.answer.status \in {0, 500, 503}

DuplicatesOnlyAfterDoubt ==
  \A b \in Calls :
    Cardinality({a \in Calls : call[a].first = b /\ times[a] > 0})
      <= 1 + Cardinality({a \in Calls : call[a].first = b /\ Doubtful(call[a])})

(* ErrorsFollowTable: an upstream error is answered exactly as the table   *)
(* of DESIGN.md:18-28 says, but for a rate limit whose wait is infinite;   *)
(* and a 500 comes of that, or of a response below 400 that holds no issue *)
(* and no comment: a redirect, or a result that cannot be read.            *)
Documented(r) ==
  CASE r.status \in {401, 404}                -> r.status
    [] r.status = 403                         ->
         IF r.remaining = "zero" \/ r.retryAfter.kind # "absent" THEN 429 ELSE 403
    [] r.status = 429                         -> 429
    [] r.status \in {410, 422}                -> 400
    [] r.status >= 500 /\ r.status < 600      -> 503
    [] OTHER                                  -> 502

EndlessWait(r) == Documented(r) = 429 /\ WaitHeader(r).kind = "infinite"

Unforeseen(r) == EndlessWait(r) \/ (r.status < 400 /\ r.data \in {"error", "garbled"})

ErrorsFollowTable ==
  \A a \in Calls :
    LET r == call[a].response
    IN  call[a].pc = "answered" /\ r # NoResponse =>
          /\ r.status >= 400 /\ ~ EndlessWait(r) => Answered(a, Documented(r))
          /\ Answered(a, 500) => Unforeseen(r)

(* OnlyNamedFieldsChange: an item changes in those fields only that the    *)
(* caller of a PATCH under way named, and to the values it named; a field  *)
(* left out, by this caller or by a concurrent one, is not set back.       *)
Names(p, old, new) ==
  /\ new.title # old.title => new.title = Strip(p.title)
  /\ new.body # old.body => new.body = p.body
  /\ new.state # old.state => new.state = p.state
  /\ new.kind = old.kind /\ new.by = old.by

OnlyNamedFieldsChange ==
  [][\A n \in DOMAIN repo : repo'[n] # repo[n] =>
       \E a \in wire \ wire' :
         /\ call[a].request.op = "update" /\ call[a].request.number = n
         /\ Names(call[a].request.payload, repo[n], repo'[n])]_vars

(* PullRequestsUntouched: a pull request stays as it was opened, and is    *)
(* not commented on. "GitHub happily patches a PR through the issues       *)
(* endpoint; this service will not." (tests/unit/test_routes_issues.py:356)*)
(* "The service [...] never touches pull requests" (README.md:169).        *)
PullRequestsUntouched ==
  \A n \in DOMAIN Opened : Opened[n].kind = "pull" =>
    repo[n] = Opened[n] /\ \A c \in comments : c[1] # n

(* ErrorsAsTabled: every response but a result is answered as the table    *)
(* says, without exception: 429 for a rate limit, "a retryable condition"  *)
(* (DESIGN.md:21), and 502 for anything else, where "an explicit fallback  *)
(* beats an accidental 500" (DESIGN.md:28).                                *)
ErrorsAsTabled ==
  \A a \in Calls :
    LET r == call[a].response
    IN  call[a].pc = "answered" /\ r # NoResponse /\ r.status >= 300
          => Answered(a, Documented(r))

-----------------------------------------------------------------------------
(* What the answers tell about the calls.  GET and PATCH of a pull request *)
(* are answered like those of a number that does not exist, so their 404   *)
(* leaves open whether GitHub has carried them out.                        *)
Meaning(c) ==
  CASE c.pc # "answered" -> "nothing"
    [] c.pc = "answered" /\ c.answer.status \in {200, 201} -> "done"
    [] Doubtful(c) \/ ( /\ c.pc = "answered" /\ c.answer.status = 404
                        /\ c.request.op \in {"get", "update"} ) -> "unknown"
    [] OTHER -> "refused"

Remote == INSTANCE RemoteCalls
            WITH asked <- {a \in Calls : call[a].pc # "new"},
                 told  <- [a \in Calls |-> Meaning(call[a])]

RemoteSpec == Remote!Spec
=============================================================================
