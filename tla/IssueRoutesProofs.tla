-------------------------- MODULE IssueRoutesProofs --------------------------
(***************************************************************************)
(* Proofs about IssueRoutes, for any number of calls, any repository, any  *)
(* requests and any answers of GitHub: what the answer to a call says is   *)
(* true of the repository, errors follow the table, a repeated request     *)
(* takes effect again only after a doubtful answer, and the routes         *)
(* implement RemoteCalls.                                                  *)
(***************************************************************************)
EXTENDS IssueRoutes, SequenceTheorems, FiniteSetTheorems, TLAPS

-----------------------------------------------------------------------------
(* What the client and the handlers make of a response.                    *)

LEMMA SecondsType ==
  ASSUME NEW r \in Response
  PROVE  RetryAfterSeconds(r) \in Nat \ {0}
<1>1. Seconds(r) \in Int
  BY TicksAssumption DEF Seconds, Response, Header
<1> QED BY <1>1 DEF RetryAfterSeconds, AtLeastOne, FallbackSeconds

(* An error is one of the table, or the 500 of a wait that is infinite.    *)
LEMMA MapErrorOutcome ==
  ASSUME NEW r \in Response, r.status >= 400
  PROVE  /\ MapError(r) \in AnswerSet
         /\ MapError(r).status \in {Documented(r), 500}
         /\ MapError(r).status = 500 <=> EndlessWait(r)
<1> USE DEF AppError, RateLimited, AnswerSet
<1>1. CASE r.status \in {403, 429} /\ IsRateLimited(r)
  <2>1. MapError(r) = RateLimitError(r)
    BY <1>1 DEF MapError
  <2>2. Documented(r) = 429
    BY <1>1 DEF Documented, IsRateLimited, Absent, Response, Header
  <2>3. CASE WaitHeader(r).kind = "infinite"
    BY <2>1, <2>2, <2>3 DEF RateLimitError, EndlessWait
  <2>4. CASE WaitHeader(r).kind # "infinite"
    BY <2>1, <2>2, <2>4, SecondsType DEF RateLimitError, EndlessWait
  <2> QED BY <2>3, <2>4
<1>2. CASE ~ (r.status \in {403, 429} /\ IsRateLimited(r))
  <2>1. MapError(r) = StatusError(r)
    BY <1>2 DEF MapError
  <2>2. r.status # 429
    BY <1>2 DEF IsRateLimited
  <2>3. r.status = 403 => Documented(r) = 403
    BY <1>2 DEF IsRateLimited, Documented, Absent, Response, Header
  <2>4. r.status \in 0..599
    BY DEF Response
  <2>5. StatusError(r).status = Documented(r) /\ StatusError(r).status \notin {429, 500}
    BY <2>2, <2>3, <2>4 DEF StatusError, Documented
  <2>6. StatusError(r) \in AnswerSet
    BY <2>4 DEF StatusError
  <2> QED BY <2>1, <2>5, <2>6 DEF EndlessWait
<1> QED BY <1>1, <1>2

(* A result is shown, not found, or cannot be projected. *)
LEMMA ResultOutcome ==
  ASSUME NEW op \in Ops, NEW r \in Response
  PROVE  /\ Result(op, r) \in AnswerSet
         /\ Result(op, r).status \in {200, 201, 404, 500}
         /\ r.data \in {"garbled", "error"} => Result(op, r).status = 500
         /\ Result(op, r).status = 201 =>
              /\ Result(op, r).number = r.number
              /\ \/ op = "create" /\ r.data \in {"issue", "pull"}
                 \/ op = "comment" /\ r.data = "comment"
         /\ Result(op, r).status = 200 =>
              /\ Result(op, r).number = r.number
              /\ op \in {"get", "update"} /\ r.data = "issue"
         /\ Result(op, r).status = 404 => op \in {"get", "update"}
         /\ op = "create" /\ r.data = "issue" => Result(op, r).status # 500
         /\ op = "comment" /\ r.data = "comment" => Result(op, r).status # 500
         /\ op \in {"get", "update"} /\ r.data \in {"issue", "pull"} =>
              Result(op, r).status # 500
  BY DEF Ops, Response, Result, CreateIssueResult, GetIssueResult,
         UpdateIssueResult, CreateCommentResult, ToIssue, ToComment,
         IsPullRequest, NotFound, Success, AppError, AnswerSet

LEMMA OutcomeType ==
  ASSUME NEW op \in Ops, NEW r \in Response
  PROVE  Outcome(op, r) \in AnswerSet
<1>1. r.status \in Nat
  BY DEF Response
<1> QED BY <1>1, MapErrorOutcome, ResultOutcome DEF Outcome, IsError

-----------------------------------------------------------------------------
(* The inductive invariant: what the frame c of call a is worth, with a on *)
(* its way to GitHub or not, carried out t times, for a repository R and   *)
(* comments C.                                                             *)

(* The result of the effect of this very call. *)
Matches(c, a, R, C) ==
  LET q == c.request
      r == c.response
  IN  \/ /\ q.op = "create" /\ r.status = 201 /\ r.data = "issue"
         /\ r.number \in DOMAIN R
         /\ R[r.number].kind = "issue" /\ R[r.number].by = a
      \/ /\ q.op \in {"get", "update"} /\ r.status = 200
         /\ r.number = q.number /\ q.number \in DOMAIN R
         /\ r.data = R[q.number].kind
      \/ /\ q.op = "comment" /\ r.status = 201 /\ r.data = "comment"
         /\ r.number = q.number /\ <<q.number, a>> \in C

(* A refusal comes instead of the effect, everything else after it.        *)
Honest(c, a, t, R, C) ==
  \/ c.response \in Refusals /\ t = 0
  \/ /\ t = 1
     /\ \/ c.response.status \in {502, 503}
        \/ c.response.status \in {200, 201} /\ c.response.data = "garbled"
        \/ Matches(c, a, R, C)

FrameOK(c, a, on, t, R, C) ==
  /\ t \in {0, 1}
  /\ on => /\ t = 0 /\ Valid(c.request) /\ c.response = NoResponse
           /\ \/ c.pc = "sent"
              \/ c.pc = "answered" /\ c.answer \in {Unavailable, NoAnswer}
  /\ c.pc = "new" => c = New(a) /\ t = 0
  /\ c.pc = "sent" => c.response = NoResponse
  /\ c.pc = "replied" => Honest(c, a, t, R, C)
  /\ c.pc = "answered" =>
       \/ c.response = NoResponse /\ c.answer \in {Unavailable, NoAnswer}
       \/ c.response = NoResponse /\ c.answer = AppError(400) /\ t = 0
       \/ /\ Honest(c, a, t, R, C)
          /\ c.answer = Outcome(c.request.op, c.response)

FramesOK ==
  \A a \in Calls : FrameOK(call[a], a, a \in wire, times[a], repo, comments)

(* Of the calls for one request, all but one have an answer that asks for  *)
(* a repetition.                                                           *)
GroupsOK ==
  /\ \A a \in Calls : call[a].pc # "new" => call[call[a].first].pc # "new"
  /\ \A a, b \in Calls : a # b /\ call[a].first = call[b].first =>
       Retryable(call[a]) \/ Retryable(call[b])

IInv == TypeOK /\ FramesOK /\ GroupsOK

-----------------------------------------------------------------------------
(* The repository only grows, as far as the answers tell of it.            *)
Grows(R, S) ==
  /\ DOMAIN R \subseteq DOMAIN S
  /\ \A n \in DOMAIN R : S[n].kind = R[n].kind /\ S[n].by = R[n].by

LEMMA FrameKept ==
  ASSUME NEW c, NEW a, NEW on, NEW t, NEW R, NEW S, NEW C, NEW D,
         FrameOK(c, a, on, t, R, C), Grows(R, S), C \subseteq D
  PROVE  FrameOK(c, a, on, t, S, D)
<1>1. Matches(c, a, R, C) => Matches(c, a, S, D)
  BY DEF Matches, Grows
<1>2. Honest(c, a, t, R, C) => Honest(c, a, t, S, D)
  BY <1>1 DEF Honest
<1> QED BY <1>2 DEF FrameOK

(* One handler moves: what has to be shown of its new frame.               *)
LEMMA OneMoves ==
  ASSUME IInv, NEW a \in Calls, NEW c \in FrameSet,
         call' = [call EXCEPT ![a] = c],
         repo' \in Seq(ItemSet), comments' \subseteq Nat \X Calls,
         wire' \subseteq Calls, times' \in [Calls -> Nat],
         Grows(repo, repo'), comments \subseteq comments',
         \A b \in Calls \ {a} : (b \in wire') = (b \in wire) /\ times'[b] = times[b],
         FrameOK(c, a, a \in wire', times'[a], repo', comments'),
         c.pc # "new" \/ c = call[a],
         \/ c.first = call[a].first /\ (Retryable(call[a]) => Retryable(c))
         \/ /\ call[c.first].pc # "new"
            /\ \A d \in Calls \ {a} : call[d].first = c.first => Retryable(call[d])
  PROVE  IInv'
<1>1. call \in [Calls -> FrameSet]
  BY DEF IInv, TypeOK
<1>2. /\ call' \in [Calls -> FrameSet] /\ call'[a] = c
      /\ \A b \in Calls \ {a} : call'[b] = call[b]
  BY <1>1
<1>3. TypeOK'
  BY <1>2 DEF TypeOK
<1>4. FramesOK'
  <2> SUFFICES ASSUME NEW b \in Calls
               PROVE  FrameOK(call'[b], b, b \in wire', times'[b], repo', comments')
    BY DEF FramesOK
  <2>1. CASE b = a
    BY <1>2, <2>1
  <2>2. CASE b # a
    <3>1. FrameOK(call[b], b, b \in wire, times[b], repo, comments)
      BY DEF IInv, FramesOK
    <3>2. FrameOK(call[b], b, b \in wire, times[b], repo', comments')
      BY <3>1, FrameKept
    <3> QED BY <3>2, <2>2, <1>2
  <2> QED BY <2>1, <2>2
<1>5. call[a].pc = "new" => call[a].first = a
  <2>1. call[a].pc = "new" => call[a] = New(a)
    BY DEF IInv, FramesOK, FrameOK
  <2>2. New(a).first = a
    BY DEF New
  <2> QED BY <2>1, <2>2, Zenon
<1>6. \A b \in Calls : call[b].first \in Calls /\ c.first \in Calls
  BY <1>1 DEF FrameSet
<1>7. ASSUME NEW b \in Calls, call'[b].pc # "new"
      PROVE  call'[call'[b].first].pc # "new"
  <2>1. \A d \in Calls : call[d].pc # "new" => call'[d].pc # "new"
    BY <1>2
  <2>2. call[b].pc # "new" => call[call[b].first].pc # "new"
    BY DEF IInv, GroupsOK
  <2>3. CASE b # a
    BY <1>2, <1>6, <1>7, <2>1, <2>2, <2>3
  <2>4. CASE b = a
    BY <1>2, <1>5, <1>6, <1>7, <2>1, <2>2, <2>4
  <2> QED BY <2>3, <2>4
<1>8. ASSUME NEW b \in Calls, NEW d \in Calls, b # d, call'[b].first = call'[d].first
      PROVE  Retryable(call'[b]) \/ Retryable(call'[d])
  <2>1. call[b].first = call[d].first => Retryable(call[b]) \/ Retryable(call[d])
    BY <1>8 DEF IInv, GroupsOK
  <2> QED BY <1>2, <1>8, <2>1
<1>9. GroupsOK'
  BY <1>7, <1>8 DEF GroupsOK
<1> QED BY <1>3, <1>4, <1>9 DEF IInv

-----------------------------------------------------------------------------
(* Every action keeps the invariant.                                       *)

LEMMA Constants ==
  /\ NoResponse \in Response /\ NoAnswer \in AnswerSet
  /\ Unavailable \in AnswerSet /\ AppError(400) \in AnswerSet
  /\ NoRequest \in RequestSet
  /\ \A a \in Calls : New(a) \in FrameSet /\ New(a).first = a /\ New(a).pc = "new"
<1>1. NoResponse \in Response
  BY DEF NoResponse, Reply, Response, Absent, Header
<1>2. NoAnswer \in AnswerSet /\ Unavailable \in AnswerSet /\ AppError(400) \in AnswerSet
  BY DEF NoAnswer, AnswerSet, Unavailable, AppError
<1>3. NoPayload \in Payload
  BY DEF NoPayload, Payload
<1>4. NoRequest \in RequestSet
  BY <1>3 DEF NoRequest, RequestSet, Ops
<1>5. \A a \in Calls : New(a) \in FrameSet /\ New(a).first = a /\ New(a).pc = "new"
  BY <1>1, <1>2, <1>4 DEF New, FrameSet
<1> QED BY <1>1, <1>2, <1>4, <1>5

LEMMA InitIInv == Init => IInv
<1> SUFFICES ASSUME Init PROVE IInv
  OBVIOUS
<1>1. \A a \in Calls : call[a] = New(a) /\ times[a] = 0 /\ a \notin wire
  BY DEF Init
<1>2. TypeOK
  BY Constants, RoutesAssumption DEF Init, TypeOK
<1>3. FramesOK
  BY <1>1 DEF FramesOK, FrameOK, New
<1>4. GroupsOK
  <2>1. \A a \in Calls : call[a].first = a
    BY <1>1, Constants
  <2>2. \A a \in Calls : call[a].pc = "new"
    BY <1>1, Constants
  <2> QED BY <2>1, <2>2 DEF GroupsOK
<1> QED BY <1>2, <1>3, <1>4 DEF IInv

LEMMA SameRepo == Grows(repo, repo) /\ comments \subseteq comments
BY DEF Grows

LEMMA SubmitKeeps ==
  ASSUME IInv, NEW a \in Calls, NEW q \in RequestSet, NEW first \in Calls,
         Submit(a, q, first),
         \/ first = a
         \/ /\ call[first].pc # "new"
            /\ \A d \in Calls : call[d].first = first => Retryable(call[d])
  PROVE  IInv'
<1> DEFINE c == [New(a) EXCEPT !.pc = "sent", !.request = q, !.first = first]
<1>1. call[a] = New(a) /\ times[a] = 0
  BY DEF IInv, FramesOK, FrameOK, Submit
<1>2. /\ c \in FrameSet /\ c.pc = "sent" /\ c.first = first
      /\ c.request = q /\ c.response = NoResponse
  BY Constants DEF FrameSet, New
<1>3. call' = [call EXCEPT ![a] = c]
  BY DEF Submit
<1> HIDE DEF c
<1>5. ~ Retryable(call[a]) /\ call[a].first = a
  BY <1>1, Constants DEF Submit, Retryable
<1>6. /\ repo' \in Seq(ItemSet) /\ comments' \subseteq Nat \X Calls
      /\ wire' \subseteq Calls /\ times' \in [Calls -> Nat]
      /\ repo' = repo /\ comments' = comments /\ a \in wire' /\ times'[a] = 0
      /\ \A b \in Calls \ {a} : (b \in wire') = (b \in wire) /\ times'[b] = times[b]
  BY <1>1 DEF Submit, IInv, TypeOK
<1>7. FrameOK(c, a, a \in wire', times'[a], repo', comments')
  BY <1>2, <1>6 DEF FrameOK, Submit
<1> QED BY <1>2, <1>3, <1>5, <1>6, <1>7, SameRepo, OneMoves

LEMMA RejectKeeps ==
  ASSUME IInv, NEW a \in Calls, NEW q, Reject(a, q)
  PROVE  IInv'
<1> DEFINE c == [New(a) EXCEPT !.pc = "answered", !.answer = AppError(400)]
<1>1. call[a] = New(a) /\ times[a] = 0 /\ a \notin wire
  BY DEF IInv, FramesOK, FrameOK, Reject
<1>2. /\ c \in FrameSet /\ c.pc = "answered" /\ c.first = a
      /\ c.answer = AppError(400) /\ c.response = NoResponse
  BY Constants DEF FrameSet, New
<1>3. call' = [call EXCEPT ![a] = c]
  BY DEF Reject
<1> HIDE DEF c
<1>5. ~ Retryable(call[a]) /\ call[a].first = a
  BY <1>1, Constants DEF Reject, Retryable
<1>6. /\ repo' \in Seq(ItemSet) /\ comments' \subseteq Nat \X Calls
      /\ wire' \subseteq Calls /\ times' \in [Calls -> Nat]
      /\ repo' = repo /\ comments' = comments /\ a \notin wire' /\ times'[a] = 0
      /\ \A b \in Calls \ {a} : (b \in wire') = (b \in wire) /\ times'[b] = times[b]
  BY <1>1 DEF Reject, IInv, TypeOK
<1>7. FrameOK(c, a, a \in wire', times'[a], repo', comments')
  BY <1>2, <1>6 DEF FrameOK
<1> QED BY <1>2, <1>3, <1>5, <1>6, <1>7, SameRepo, OneMoves

(* The handler's own steps change one frame and nothing else. *)
LEMMA HandlerKeeps ==
  ASSUME IInv, NEW a \in Calls, NEW c \in FrameSet,
         call' = [call EXCEPT ![a] = c],
         UNCHANGED <<repo, comments, wire, times>>,
         FrameOK(c, a, a \in wire, times[a], repo, comments),
         c.first = call[a].first, c.pc # "new", call[a].pc # "answered"
  PROVE  IInv'
<1>1. ~ Retryable(call[a])
  BY DEF Retryable
<1>2. /\ repo' \in Seq(ItemSet) /\ comments' \subseteq Nat \X Calls
      /\ wire' \subseteq Calls /\ times' \in [Calls -> Nat]
      /\ Grows(repo, repo') /\ comments \subseteq comments'
      /\ \A b \in Calls \ {a} : (b \in wire') = (b \in wire) /\ times'[b] = times[b]
      /\ FrameOK(c, a, a \in wire', times'[a], repo', comments')
  BY SameRepo DEF IInv, TypeOK
<1> QED BY <1>1, <1>2, OneMoves

LEMMA CompleteKeeps ==
  ASSUME IInv, NEW a \in Calls, Complete(a)
  PROVE  IInv'
<1> DEFINE c == [call[a] EXCEPT !.pc = "answered",
                   !.answer = Outcome(call[a].request.op, call[a].response)]
<1>1. call \in [Calls -> FrameSet] /\ call[a].pc = "replied"
  BY DEF IInv, TypeOK, Complete
<1>2. call[a].request.op \in Ops /\ call[a].response \in Response
  BY <1>1 DEF FrameSet, RequestSet
<1>3. Outcome(call[a].request.op, call[a].response) \in AnswerSet
  BY <1>2, OutcomeType
<1>4. /\ c \in FrameSet /\ c.pc = "answered" /\ c.first = call[a].first
      /\ c.request = call[a].request /\ c.response = call[a].response
      /\ c.answer = Outcome(c.request.op, c.response)
  <2>1. call[a] \in FrameSet
    BY <1>1
  <2> QED BY <1>3, <2>1 DEF FrameSet
<1>5. call' = [call EXCEPT ![a] = c]
  BY <1>1 DEF Complete, Answer
<1>6. FrameOK(call[a], a, a \in wire, times[a], repo, comments)
  BY DEF IInv, FramesOK
<1> HIDE DEF c
<1>7. /\ times[a] \in {0, 1} /\ Honest(call[a], a, times[a], repo, comments)
      /\ a \notin wire
  BY <1>1, <1>6 DEF FrameOK
<1>8. Honest(c, a, times[a], repo, comments)
  BY <1>4, <1>7 DEF Honest, Matches
<1>9. FrameOK(c, a, a \in wire, times[a], repo, comments)
  BY <1>4, <1>7, <1>8 DEF FrameOK
<1> QED BY <1>1, <1>4, <1>5, <1>9, HandlerKeeps DEF Complete

LEMMA RequestFailsKeeps ==
  ASSUME IInv, NEW a \in Calls, RequestFails(a)
  PROVE  IInv'
<1> DEFINE c == [call[a] EXCEPT !.pc = "answered", !.answer = Unavailable,
                                !.response = NoResponse]
<1>1. call \in [Calls -> FrameSet] /\ call[a].pc \in {"sent", "replied"}
  BY DEF IInv, TypeOK, RequestFails
<1>2. /\ c \in FrameSet /\ c.pc = "answered" /\ c.first = call[a].first
      /\ c.request = call[a].request /\ c.response = NoResponse
      /\ c.answer = Unavailable
  <2>1. call[a] \in FrameSet
    BY <1>1
  <2>2. Unavailable \in AnswerSet /\ NoAnswer \in AnswerSet /\ NoResponse \in Response
    BY Constants
  <2> QED BY <2>1, <2>2 DEF FrameSet
<1>3. call' = [call EXCEPT ![a] = c]
  BY <1>1 DEF RequestFails
<1>4. FrameOK(call[a], a, a \in wire, times[a], repo, comments)
  BY DEF IInv, FramesOK
<1> HIDE DEF c
<1>5. FrameOK(c, a, a \in wire, times[a], repo, comments)
  BY <1>1, <1>2, <1>4 DEF FrameOK
<1> QED BY <1>1, <1>2, <1>3, <1>5, HandlerKeeps DEF RequestFails

(* The process dies: every frame that waits is given up at once. *)
LEMMA RestartKeeps ==
  ASSUME IInv, Restart
  PROVE  IInv'
<1> DEFINE f(b) == [call[b] EXCEPT !.pc = "answered", !.answer = NoAnswer,
                                   !.response = NoResponse]
           lost(b) == call[b].pc \in {"sent", "replied"}
<1>1. call \in [Calls -> FrameSet]
  BY DEF IInv, TypeOK
<1>2. call' = [b \in Calls |-> IF lost(b) THEN f(b) ELSE call[b]]
  BY DEF Restart
<1>3. ASSUME NEW b \in Calls
      PROVE  /\ f(b) \in FrameSet /\ f(b).pc = "answered" /\ f(b).first = call[b].first
             /\ f(b).request = call[b].request /\ f(b).response = NoResponse
             /\ f(b).answer = NoAnswer
  <2>1. call[b] \in FrameSet
    BY <1>1
  <2>2. Unavailable \in AnswerSet /\ NoAnswer \in AnswerSet /\ NoResponse \in Response
    BY Constants
  <2> QED BY <2>1, <2>2 DEF FrameSet
<1>4. \A b \in Calls : lost(b) => call[b].pc # "new" /\ ~ Retryable(call[b])
  BY DEF Retryable
<1>5. ASSUME NEW b \in Calls, lost(b)
      PROVE  FrameOK(f(b), b, b \in wire, times[b], repo, comments)
  <2>1. FrameOK(call[b], b, b \in wire, times[b], repo, comments)
    BY DEF IInv, FramesOK
  <2>2. call[b].pc \in {"sent", "replied"}
    BY <1>5
  <2> HIDE DEF f, lost
  <2> QED BY <2>1, <2>2, <1>3 DEF FrameOK
<1> HIDE DEF f, lost
<1>6. TypeOK'
  BY <1>1, <1>2, <1>3 DEF IInv, TypeOK, Restart
<1>7. FramesOK'
  <2> SUFFICES ASSUME NEW b \in Calls
               PROVE  FrameOK(call'[b], b, b \in wire, times[b], repo, comments)
    BY DEF FramesOK, Restart
  <2> QED BY <1>2, <1>5 DEF IInv, FramesOK
<1>8. \A b \in Calls : /\ call[b].first \in Calls /\ call'[b].first = call[b].first
                       /\ (call'[b].pc = "new") = (call[b].pc = "new")
                       /\ Retryable(call[b]) => Retryable(call'[b])
  BY <1>1, <1>2, <1>3, <1>4 DEF FrameSet
<1>9. GroupsOK'
  BY <1>8 DEF IInv, GroupsOK
<1> QED BY <1>6, <1>7, <1>9 DEF IInv

(* A response that is honest about the effect reaches the handler, or      *)
(* nobody, if it has given up.                                             *)
LEMMA RespondKeeps ==
  ASSUME IInv, NEW a \in wire, NEW r \in Response, Respond(a, r),
         wire' = wire \ {a},
         repo' \in Seq(ItemSet), comments' \subseteq Nat \X Calls,
         Grows(repo, repo'), comments \subseteq comments',
         NEW t \in {0, 1}, times' = [times EXCEPT ![a] = t],
         \A c : c.request = call[a].request /\ c.response = r
                  => Honest(c, a, t, repo', comments')
  PROVE  IInv'
<1> DEFINE d == [call[a] EXCEPT !.pc = "replied", !.response = r]
<1>1. a \in Calls /\ call \in [Calls -> FrameSet] /\ times \in [Calls -> Nat]
  BY DEF IInv, TypeOK
<1>2. FrameOK(call[a], a, TRUE, times[a], repo, comments)
  <2>1. FrameOK(call[a], a, a \in wire, times[a], repo, comments)
    BY <1>1 DEF IInv, FramesOK
  <2> QED BY <2>1 DEF FrameOK
<1>3. wire' \subseteq Calls /\ times' \in [Calls -> Nat] /\ times'[a] = t /\ a \notin wire'
  BY <1>1 DEF IInv, TypeOK
<1>4. \A b \in Calls \ {a} : (b \in wire') = (b \in wire) /\ times'[b] = times[b]
  BY <1>1
<1>5. CASE call[a].pc = "sent"
  <2>1. call[a] \in FrameSet
    BY <1>1
  <2>2. /\ d \in FrameSet /\ d.pc = "replied" /\ d.first = call[a].first
        /\ d.request = call[a].request /\ d.response = r
    BY <2>1 DEF FrameSet
  <2>3. call' = [call EXCEPT ![a] = d]
    BY <1>1, <1>5 DEF Respond
  <2> HIDE DEF d
  <2>4. FrameOK(d, a, a \in wire', times'[a], repo', comments')
    BY <1>3, <2>2 DEF FrameOK
  <2>5. ~ Retryable(call[a])
    BY <1>5 DEF Retryable
  <2> QED BY <1>1, <1>3, <1>4, <2>2, <2>3, <2>4, <2>5, OneMoves
<1>6. CASE call[a].pc # "sent"
  <2>1. call' = [call EXCEPT ![a] = call[a]] /\ call[a] \in FrameSet
    BY <1>1, <1>6 DEF Respond
  <2>2. FrameOK(call[a], a, a \in wire', times'[a], repo', comments')
    BY <1>2, <1>3, <1>6 DEF FrameOK
  <2> QED BY <1>1, <1>3, <1>4, <2>1, <2>2, OneMoves
<1> QED BY <1>5, <1>6

LEMMA RefuseKeeps ==
  ASSUME IInv, NEW a \in Calls, Refuse(a)
  PROVE  IInv'
<1>1. PICK r \in Refusals : Respond(a, r)
  BY DEF Refuse
<1>2. a \in wire /\ wire' = wire \ {a} /\ r \in Response
  BY RoutesAssumption DEF Refuse
<1>3. FrameOK(call[a], a, a \in wire, times[a], repo, comments)
  BY DEF IInv, FramesOK
<1>4. times[a] = 0 /\ times' = [times EXCEPT ![a] = 0]
  BY <1>2, <1>3 DEF FrameOK, Refuse, IInv, TypeOK
<1>5. \A c : c.response = r => Honest(c, a, 0, repo', comments')
  BY DEF Honest
<1>6. /\ repo' \in Seq(ItemSet) /\ comments' \subseteq Nat \X Calls
      /\ Grows(repo, repo') /\ comments \subseteq comments'
  BY SameRepo DEF Refuse, IInv, TypeOK
<1> QED BY <1>1, <1>2, <1>4, <1>5, <1>6, RespondKeeps

LEMMA LoseKeeps ==
  ASSUME IInv, NEW a \in Calls, Lose(a)
  PROVE  IInv'
<1>1. TypeOK'
  BY DEF IInv, TypeOK, Lose
<1>2. FramesOK'
  <2> SUFFICES ASSUME NEW b \in Calls
               PROVE  FrameOK(call[b], b, b \in wire', times[b], repo, comments)
    BY DEF FramesOK, Lose
  <2>1. FrameOK(call[b], b, b \in wire, times[b], repo, comments)
    BY DEF IInv, FramesOK
  <2>2. b \in wire' => b \in wire
    BY DEF Lose
  <2> QED BY <2>1, <2>2 DEF FrameOK
<1>3. GroupsOK'
  BY DEF IInv, GroupsOK, Lose
<1> QED BY <1>1, <1>2, <1>3 DEF IInv

-----------------------------------------------------------------------------
(* What GitHub carries out.                                                *)

(* The result itself, an unreadable one, or an error on the way back. *)
LEMMA ResultsShape ==
  ASSUME NEW n \in Nat, NEW status \in {200, 201},
         NEW data \in {"issue", "pull", "comment"}, NEW r \in Results(status, data, n)
  PROVE  /\ r \in Response
         /\ \/ r.status = status /\ r.data = data /\ r.number = n
            \/ r.status = status /\ r.data = "garbled"
            \/ r.status \in {502, 503}
<1>1. Absent \in Header /\ OneSecond \in Header
  BY DEF Absent, OneSecond, Header
<1>2. CASE r = Reply(status, data, n, Absent)
  BY <1>1, <1>2 DEF Reply, Response
<1>3. CASE r = Reply(status, "garbled", 0, Absent)
  BY <1>1, <1>3 DEF Reply, Response
<1>4. CASE r = Reply(502, "error", 0, Absent)
  BY <1>1, <1>4 DEF Reply, Response
<1>5. CASE r = Reply(503, "error", 0, OneSecond)
  BY <1>1, <1>5 DEF Reply, Response
<1> QED BY <1>2, <1>3, <1>4, <1>5 DEF Results

LEMMA ResultsHonest ==
  ASSUME NEW n \in Nat, NEW status \in {200, 201},
         NEW data \in {"issue", "pull", "comment"}, NEW r \in Results(status, data, n),
         NEW c, c.response = r, NEW a, NEW R, NEW C,
         r.status = status /\ r.data = data /\ r.number = n => Matches(c, a, R, C)
  PROVE  Honest(c, a, 1, R, C)
<1>1. \/ r.status = status /\ r.data = data /\ r.number = n
      \/ r.status = status /\ r.data = "garbled"
      \/ r.status \in {502, 503}
  BY ResultsShape
<1> QED BY <1>1 DEF Honest

(* The payload of a valid request has the fields an item has. *)
LEMMA PayloadShape ==
  ASSUME NEW p \in Payload, ValidCreate(p) \/ ValidPatch(p)
  PROVE  /\ GithubPayload(p) = [p EXCEPT !.title = Strip(p.title)]
         /\ GithubPayload(p).title = Strip(p.title)
         /\ GithubPayload(p).body = p.body /\ GithubPayload(p).state = p.state
         /\ Strip(p.title) \in Titles \cup {"absent"}
         /\ ValidCreate(p) => Strip(p.title) \in Titles
         /\ p.body \in {"text", "blank", "absent"}
         /\ ValidPatch(p) => p.state \in States \cup {"absent"}
BY DEF Payload, ValidCreate, ValidPatch, ValidTitle, GithubPayload, Strip, Titles, States

(* What a call on its way says, and what becomes of it. *)
LEMMA OnTheWire ==
  ASSUME IInv, NEW a \in Calls, Execute(a)
  PROVE  /\ a \in wire /\ wire' = wire \ {a} /\ call[a].request \in RequestSet
         /\ Valid(call[a].request)
         /\ times[a] = 0 /\ times' = [times EXCEPT ![a] = 1]
<1>1. call \in [Calls -> FrameSet] /\ times \in [Calls -> Nat] /\ a \in wire
  BY DEF IInv, TypeOK, Execute
<1>2. FrameOK(call[a], a, a \in wire, times[a], repo, comments)
  BY DEF IInv, FramesOK
<1>3. Valid(call[a].request) /\ times[a] = 0
  BY <1>1, <1>2 DEF FrameOK
<1>4. times' = [times EXCEPT ![a] = 1]
  BY <1>1, <1>3 DEF Execute
<1>5. call[a].request \in RequestSet
  BY <1>1 DEF FrameSet
<1> QED BY <1>1, <1>3, <1>4, <1>5 DEF Execute

LEMMA CreateIssueKeeps ==
  ASSUME IInv, NEW a \in Calls, Execute(a), CreateIssue(a)
  PROVE  IInv'
<1> DEFINE q == call[a].request
           p == GithubPayload(q.payload)
           n == Len(repo) + 1
           item == [kind |-> "issue", title |-> p.title, body |-> p.body,
                    state |-> "open", by |-> a]
<1>1. q \in RequestSet /\ Valid(q) /\ q.op = "create" /\ repo \in Seq(ItemSet)
  BY OnTheWire DEF CreateIssue, IInv, TypeOK
<1>2. q.payload \in Payload /\ ValidCreate(q.payload)
  BY <1>1 DEF RequestSet, Valid
<1>3. item \in ItemSet /\ item.kind = "issue" /\ item.by = a
  BY <1>2, PayloadShape DEF ItemSet, States
<1>4. repo' = Append(repo, item)
  BY DEF CreateIssue
<1>5. PICK r \in Results(201, "issue", n) : Respond(a, r)
  BY DEF CreateIssue
<1> HIDE DEF item, p
<1>6. /\ Len(repo) \in Nat /\ DOMAIN repo = 1..Len(repo)
      /\ repo' \in Seq(ItemSet) /\ DOMAIN repo' = 1..n /\ repo'[n] = item
      /\ \A i \in 1..Len(repo) : repo'[i] = repo[i]
  BY <1>1, <1>3, <1>4, AppendProperties, LenProperties
<1>7. Grows(repo, repo') /\ n \in DOMAIN repo' /\ n \in Nat
  BY <1>6 DEF Grows
<1>8. comments' \subseteq Nat \X Calls /\ comments \subseteq comments'
  BY DEF CreateIssue, IInv, TypeOK
<1> HIDE DEF n
<1>9. r \in Response
  BY <1>5, <1>7, ResultsShape
<1>10. ASSUME NEW c, c.request = call[a].request, c.response = r
       PROVE  Honest(c, a, 1, repo', comments')
  <2>1. r.status = 201 /\ r.data = "issue" /\ r.number = n
          => Matches(c, a, repo', comments')
    BY <1>1, <1>3, <1>6, <1>7, <1>10 DEF Matches
  <2> QED BY <2>1, <1>5, <1>7, <1>10, ResultsHonest
<1> QED BY <1>5, <1>6, <1>7, <1>8, <1>9, <1>10, OnTheWire, RespondKeeps

LEMMA GetIssueKeeps ==
  ASSUME IInv, NEW a \in Calls, Execute(a), GetIssue(a)
  PROVE  IInv'
<1> DEFINE n == call[a].request.number
<1>1. /\ call[a].request \in RequestSet /\ call[a].request.op = "get"
      /\ repo \in Seq(ItemSet) /\ n \in DOMAIN repo
      /\ repo' = repo /\ comments' = comments
  BY OnTheWire DEF GetIssue, Exists, IInv, TypeOK
<1>2. n \in Nat /\ repo[n].kind \in {"issue", "pull"}
  <2>1. repo[n] \in ItemSet
    BY <1>1, LenProperties
  <2> QED BY <1>1, <2>1 DEF RequestSet, ItemSet
<1>3. PICK r \in Results(200, repo[n].kind, n) : Respond(a, r)
  BY DEF GetIssue
<1>4. repo' \in Seq(ItemSet) /\ Grows(repo, repo')
  BY <1>1, SameRepo
<1>5. comments' \subseteq Nat \X Calls /\ comments \subseteq comments'
  BY <1>1 DEF IInv, TypeOK
<1> HIDE DEF n
<1>6. r \in Response
  BY <1>2, <1>3, ResultsShape
<1>7. ASSUME NEW c, c.request = call[a].request, c.response = r
      PROVE  Honest(c, a, 1, repo', comments')
  <2>1. r.status = 200 /\ r.data = repo[n].kind /\ r.number = n
          => Matches(c, a, repo', comments')
    BY <1>1, <1>7 DEF Matches, n
  <2> QED BY <2>1, <1>2, <1>3, <1>7, ResultsHonest
<1> QED BY <1>3, <1>4, <1>5, <1>6, <1>7, OnTheWire, RespondKeeps

(* A patched item is an item, of the same kind and by the same call.       *)
LEMMA PatchedShape ==
  ASSUME NEW item \in ItemSet, NEW p \in Payload, ValidPatch(p)
  PROVE  /\ Patched(item, GithubPayload(p)) \in ItemSet
         /\ Names(p, item, Patched(item, GithubPayload(p)))
<1> DEFINE g == GithubPayload(p)
           new == Patched(item, g)
<1>1. /\ g.title = Strip(p.title) /\ g.body = p.body /\ g.state = p.state
      /\ Strip(p.title) \in Titles \cup {"absent"}
      /\ p.body \in {"text", "blank", "absent"}
      /\ p.state \in States \cup {"absent"}
  BY PayloadShape
<1> HIDE DEF g
<1>2. /\ Given(g.title, item.title) \in Titles
      /\ Given(g.body, item.body) \in {"text", "blank", "absent"}
      /\ Given(g.state, item.state) \in States
  BY <1>1 DEF Given, ItemSet
<1>3. /\ new \in ItemSet /\ new.title = Given(g.title, item.title)
      /\ new.body = Given(g.body, item.body) /\ new.state = Given(g.state, item.state)
      /\ new.kind = item.kind /\ new.by = item.by
  BY <1>2 DEF Patched, ItemSet
<1> HIDE DEF new
<1>4. Names(p, item, new)
  BY <1>1, <1>3 DEF Names, Given
<1> QED BY <1>3, <1>4 DEF g, new

LEMMA Repatched ==
  ASSUME IInv, NEW a \in Calls, Execute(a), UpdateIssue(a)
  PROVE  LET n == call[a].request.number
             p == call[a].request.payload
         IN  /\ n \in Nat /\ n \in 1..Len(repo) /\ p \in Payload /\ ValidPatch(p)
             /\ repo[n] \in ItemSet
             /\ repo' = [repo EXCEPT ![n] = Patched(repo[n], GithubPayload(p))]
             /\ Patched(repo[n], GithubPayload(p)) \in ItemSet
             /\ Names(p, repo[n], Patched(repo[n], GithubPayload(p)))
<1> DEFINE n == call[a].request.number
           p == call[a].request.payload
<1>1. /\ call[a].request \in RequestSet /\ Valid(call[a].request)
      /\ call[a].request.op = "update"
      /\ repo \in Seq(ItemSet) /\ n \in DOMAIN repo
  BY OnTheWire DEF UpdateIssue, Exists, IInv, TypeOK
<1>2. n \in Nat /\ p \in Payload /\ ValidPatch(p)
  BY <1>1 DEF RequestSet, Valid
<1>3. n \in 1..Len(repo) /\ repo[n] \in ItemSet
  BY <1>1, LenProperties
<1>4. repo' = [repo EXCEPT ![n] = Patched(repo[n], GithubPayload(p))]
  BY DEF UpdateIssue
<1> QED BY <1>2, <1>3, <1>4, PatchedShape

LEMMA UpdateIssueKeeps ==
  ASSUME IInv, NEW a \in Calls, Execute(a), UpdateIssue(a)
  PROVE  IInv'
<1> DEFINE n == call[a].request.number
           new == Patched(repo[n], GithubPayload(call[a].request.payload))
<1>1. /\ n \in Nat /\ n \in 1..Len(repo) /\ repo[n] \in ItemSet /\ new \in ItemSet
      /\ repo' = [repo EXCEPT ![n] = new]
      /\ new.kind = repo[n].kind /\ new.by = repo[n].by
  BY Repatched DEF Names
<1>2. /\ call[a].request \in RequestSet /\ call[a].request.op = "update"
      /\ repo \in Seq(ItemSet) /\ comments' = comments
  BY OnTheWire DEF UpdateIssue, IInv, TypeOK
<1>3. PICK r \in Results(200, repo[n].kind, n) : Respond(a, r)
  BY DEF UpdateIssue
<1> HIDE DEF new
<1>4. /\ repo' \in Seq(ItemSet) /\ DOMAIN repo = 1..Len(repo)
      /\ DOMAIN repo' = 1..Len(repo)
      /\ \A j \in 1..Len(repo) : repo'[j] = IF j = n THEN new ELSE repo[j]
  BY <1>1, <1>2, ExceptSeq, LenProperties
<1>5. Grows(repo, repo')
  BY <1>1, <1>4 DEF Grows
<1>6. comments' \subseteq Nat \X Calls /\ comments \subseteq comments'
  BY <1>2 DEF IInv, TypeOK
<1>7. repo[n].kind \in {"issue", "pull"}
  BY <1>1 DEF ItemSet
<1> HIDE DEF n
<1>8. r \in Response
  BY <1>1, <1>3, <1>7, ResultsShape
<1>9. ASSUME NEW c, c.request = call[a].request, c.response = r
      PROVE  Honest(c, a, 1, repo', comments')
  <2>1. r.status = 200 /\ r.data = repo[n].kind /\ r.number = n
          => Matches(c, a, repo', comments')
    BY <1>1, <1>2, <1>4, <1>9 DEF Matches, n
  <2> QED BY <2>1, <1>1, <1>3, <1>7, <1>9, ResultsHonest
<1> QED BY <1>3, <1>4, <1>5, <1>6, <1>8, <1>9, OnTheWire, RespondKeeps

LEMMA CreateCommentKeeps ==
  ASSUME IInv, NEW a \in Calls, Execute(a), CreateComment(a)
  PROVE  IInv'
<1> DEFINE n == call[a].request.number
<1>1. /\ call[a].request \in RequestSet /\ call[a].request.op = "comment"
      /\ repo' = repo /\ comments' = comments \cup {<<n, a>>}
  BY OnTheWire DEF CreateComment
<1>2. n \in Nat
  BY <1>1 DEF RequestSet
<1>3. PICK r \in Results(201, "comment", n) : Respond(a, r)
  BY DEF CreateComment
<1>4. repo' \in Seq(ItemSet) /\ Grows(repo, repo')
  BY <1>1, SameRepo DEF IInv, TypeOK
<1>5. comments' \subseteq Nat \X Calls /\ comments \subseteq comments'
  BY <1>1, <1>2 DEF IInv, TypeOK
<1> HIDE DEF n
<1>6. r \in Response
  BY <1>2, <1>3, ResultsShape
<1>7. ASSUME NEW c, c.request = call[a].request, c.response = r
      PROVE  Honest(c, a, 1, repo', comments')
  <2>1. r.status = 201 /\ r.data = "comment" /\ r.number = n
          => Matches(c, a, repo', comments')
    BY <1>1, <1>7 DEF Matches, n
  <2> QED BY <2>1, <1>2, <1>3, <1>7, ResultsHonest
<1> QED BY <1>3, <1>4, <1>5, <1>6, <1>7, OnTheWire, RespondKeeps

LEMMA ExecuteKeeps ==
  ASSUME IInv, NEW a \in Calls, Execute(a)
  PROVE  IInv'
BY CreateIssueKeeps, GetIssueKeeps, UpdateIssueKeeps, CreateCommentKeeps DEF Execute

LEMMA CallerKeeps ==
  ASSUME IInv, NEW a \in Calls, Caller(a)
  PROVE  IInv'
<1>1. CASE \E q \in Requests : Submit(a, q, a)
  <2>1. PICK q \in Requests : Submit(a, q, a)
    BY <1>1
  <2>2. q \in RequestSet
    BY RoutesAssumption DEF RequestSet
  <2> QED BY <2>1, <2>2, SubmitKeeps
<1>2. CASE \E q \in Requests : Reject(a, q)
  BY <1>2, RejectKeeps
<1>3. CASE \E b \in Calls \ {a} : Retry(a, b)
  <2>1. PICK b \in Calls \ {a} : Retry(a, b)
    BY <1>3
  <2>2. call \in [Calls -> FrameSet]
    BY DEF IInv, TypeOK
  <2>3. call[b].request \in RequestSet /\ call[b].pc # "new"
    BY <2>1, <2>2 DEF Retry, Retryable, FrameSet
  <2>4. \A d \in Calls : call[d].first = b => Retryable(call[d])
    BY <2>1 DEF Retry
  <2>5. Submit(a, call[b].request, b)
    BY <2>1 DEF Retry
  <2> QED BY <2>3, <2>4, <2>5, SubmitKeeps
<1> QED BY <1>1, <1>2, <1>3 DEF Caller

LEMMA NextKeeps == IInv /\ [Next]_vars => IInv'
<1> SUFFICES ASSUME IInv, [Next]_vars PROVE IInv'
  OBVIOUS
<1>1. CASE \E a \in Calls : Caller(a)
  BY <1>1, CallerKeeps
<1>2. CASE \E a \in Calls : Handler(a)
  BY <1>2, CompleteKeeps, RequestFailsKeeps DEF Handler
<1>3. CASE \E a \in Calls : Upstream(a)
  BY <1>3, ExecuteKeeps, RefuseKeeps, LoseKeeps DEF Upstream
<1>4. CASE Restart
  BY <1>4, RestartKeeps
<1>5. CASE UNCHANGED vars
  BY <1>5 DEF vars, IInv, TypeOK, FramesOK, GroupsOK
<1> QED BY <1>1, <1>2, <1>3, <1>4, <1>5 DEF Next

LEMMA Inductive == Spec => []IInv
<1>1. Init => IInv
  BY InitIInv
<1>2. IInv /\ [Next]_vars => IInv'
  BY NextKeeps
<1> QED BY <1>1, <1>2, PTL DEF Spec

-----------------------------------------------------------------------------
(* The type invariant of the routes, of GitHub as they see it, and of the  *)
(* calls, whatever requests and answers there are.                         *)
THEOREM TypeCorrect == Spec => []TypeOK
<1>1. IInv => TypeOK
  BY DEF IInv
<1> QED BY <1>1, Inductive, PTL

-----------------------------------------------------------------------------
(* What an answer says.                                                    *)

(* The response and the answer of a call that has been answered.           *)
LEMMA AnswerShape ==
  ASSUME IInv, NEW a \in Calls, call[a].pc = "answered"
  PROVE  /\ call[a].request.op \in Ops /\ call[a].response \in Response
         /\ \/ /\ call[a].response = NoResponse
               /\ call[a].answer \in {Unavailable, NoAnswer}
            \/ /\ call[a].response = NoResponse
               /\ call[a].answer = AppError(400) /\ times[a] = 0
            \/ /\ Honest(call[a], a, times[a], repo, comments)
               /\ call[a].answer = Outcome(call[a].request.op, call[a].response)
<1>1. FrameOK(call[a], a, a \in wire, times[a], repo, comments)
  BY DEF IInv, FramesOK
<1>2. call[a] \in FrameSet
  BY DEF IInv, TypeOK
<1> QED BY <1>1, <1>2 DEF FrameOK, FrameSet, RequestSet

(* A success is a result that matches: nothing else is answered with it.   *)
LEMMA SuccessMatches ==
  ASSUME IInv, NEW a \in Calls, call[a].pc = "answered",
         call[a].answer.status \in {200, 201}
  PROVE  /\ Matches(call[a], a, repo, comments) /\ times[a] = 1
         /\ call[a].answer = Result(call[a].request.op, call[a].response)
<1> DEFINE op == call[a].request.op
           r == call[a].response
<1>1. op \in Ops /\ r \in Response
  BY AnswerShape
<1>2. /\ Honest(call[a], a, times[a], repo, comments)
      /\ call[a].answer = Outcome(op, r)
  BY AnswerShape DEF Unavailable, NoAnswer, AppError
<1>3. ~ (r.status >= 400)
  <2>1. SUFFICES ASSUME r.status >= 400 PROVE FALSE
    OBVIOUS
  <2>2. MapError(r).status \in {Documented(r), 500}
    BY <1>1, <2>1, MapErrorOutcome
  <2>3. r.status \in 0..599
    BY <1>1 DEF Response
  <2>4. Documented(r) >= 400
    BY <2>1, <2>3 DEF Documented
  <2> QED BY <1>2, <2>1, <2>2, <2>4 DEF Outcome, IsError
<1>4. call[a].answer = Result(op, r)
  BY <1>2, <1>3 DEF Outcome, IsError
<1>5. r.data \notin {"error", "garbled"}
  BY <1>1, <1>4, ResultOutcome
<1>6. r \notin Refusals
  BY <1>5, RoutesAssumption
<1> QED BY <1>2, <1>3, <1>4, <1>5, <1>6 DEF Honest

(* A 201 names an issue that this very call created, or the number it      *)
(* commented on, where this very call made a comment.                      *)
THEOREM CreatedIsOwn == Spec => []CreatedAsAsked
<1>1. IInv => CreatedAsAsked
  <2> SUFFICES ASSUME IInv, NEW a \in Calls, Answered(a, 201)
               PROVE  LET q == call[a].request
                          n == call[a].answer.number
                      IN  \/ /\ q.op = "create" /\ Exists(n)
                             /\ repo[n].kind = "issue" /\ repo[n].by = a
                          \/ q.op = "comment" /\ n = q.number /\ <<n, a>> \in comments
    BY DEF CreatedAsAsked
  <2>1. /\ Matches(call[a], a, repo, comments)
        /\ call[a].answer = Result(call[a].request.op, call[a].response)
    BY SuccessMatches DEF Answered
  <2>2. /\ call[a].answer.number = call[a].response.number
        /\ call[a].request.op \in {"create", "comment"}
    BY <2>1, AnswerShape, ResultOutcome DEF Answered
  <2> QED BY <2>1, <2>2 DEF Matches, Exists
<1> QED BY <1>1, Inductive, PTL

(* What GET and PATCH show is the issue asked for, never a pull request.   *)
THEOREM ShownAreIssues == Spec => []NoPullRequestShown
<1>1. IInv => NoPullRequestShown
  <2> SUFFICES ASSUME IInv, NEW a \in Calls, Answered(a, 200)
               PROVE  LET n == call[a].answer.number
                      IN  /\ n = call[a].request.number /\ Exists(n)
                          /\ repo[n].kind = "issue"
    BY DEF NoPullRequestShown
  <2>1. /\ Matches(call[a], a, repo, comments)
        /\ call[a].answer = Result(call[a].request.op, call[a].response)
    BY SuccessMatches DEF Answered
  <2>2. /\ call[a].answer.number = call[a].response.number
        /\ call[a].request.op \in {"get", "update"} /\ call[a].response.data = "issue"
    BY <2>1, AnswerShape, ResultOutcome DEF Answered
  <2> QED BY <2>1, <2>2 DEF Matches, Exists
<1> QED BY <1>1, Inductive, PTL

(* Every error but a rate limit whose wait is infinite is answered exactly *)
(* as the table says, whatever its status and its headers; a 500 comes of  *)
(* that wait, of a redirect, or of a result that cannot be read.           *)
THEOREM ErrorsAsDocumented == Spec => []ErrorsFollowTable
<1>1. IInv => ErrorsFollowTable
  <2> SUFFICES ASSUME IInv, NEW a \in Calls, call[a].pc = "answered",
                      call[a].response # NoResponse
               PROVE  LET r == call[a].response
                      IN  /\ r.status >= 400 /\ ~ EndlessWait(r) => Answered(a, Documented(r))
                          /\ Answered(a, 500) => Unforeseen(r)
    BY DEF ErrorsFollowTable
  <2> DEFINE r == call[a].response
             op == call[a].request.op
  <2>1. op \in Ops /\ r \in Response
    BY AnswerShape
  <2>2. /\ Honest(call[a], a, times[a], repo, comments)
        /\ call[a].answer = Outcome(op, r)
    BY AnswerShape
  <2>3. CASE r.status >= 400
    <3>1. call[a].answer = MapError(r)
      BY <2>2, <2>3 DEF Outcome, IsError
    <3> QED BY <2>1, <2>3, <3>1, MapErrorOutcome DEF Answered, Unforeseen
  <2>4. CASE ~ (r.status >= 400)
    <3>1. call[a].answer = Result(op, r)
      BY <2>2, <2>4 DEF Outcome, IsError
    <3>2. r.status < 400
      BY <2>1, <2>4 DEF Response
    <3>3. Matches(call[a], a, repo, comments) => Result(op, r).status # 500
      <4>1. ASSUME Matches(call[a], a, repo, comments), op \in {"get", "update"}
            PROVE  r.data \in {"issue", "pull"}
        <5>1. r.data = repo[call[a].request.number].kind
                /\ call[a].request.number \in DOMAIN repo
          BY <4>1 DEF Matches
        <5>2. repo \in Seq(ItemSet)
          BY DEF IInv, TypeOK
        <5>3. repo[call[a].request.number] \in ItemSet
          BY <5>1, <5>2, LenProperties
        <5> QED BY <5>1, <5>3 DEF ItemSet
      <4> QED BY <2>1, <4>1, ResultOutcome DEF Matches
    <3>4. r.data \in {"error", "garbled"} \/ Matches(call[a], a, repo, comments)
      BY <2>2, <2>4, RoutesAssumption DEF Honest
    <3> QED BY <2>4, <3>1, <3>2, <3>3, <3>4 DEF Answered, Unforeseen
  <2> QED BY <2>3, <2>4
<1> QED BY <1>1, Inductive, PTL

-----------------------------------------------------------------------------
(* An item changes as the caller of one PATCH under way has named.         *)

LEMMA RepoStill ==
  ASSUME IInv, [Next]_vars
  PROVE  \/ \A n \in DOMAIN repo : repo'[n] = repo[n]
         \/ \E a \in Calls : Execute(a) /\ UpdateIssue(a)
<1>1. CASE \E a \in Calls : Caller(a)
  BY <1>1 DEF Caller, Submit, Reject, Retry
<1>2. CASE \E a \in Calls : Handler(a)
  BY <1>2 DEF Handler, Complete, RequestFails
<1>3. CASE \E a \in Calls : Execute(a)
  <2>1. PICK a \in Calls : Execute(a)
    BY <1>3
  <2>2. CASE CreateIssue(a)
    <3>1. PICK item : repo' = Append(repo, item)
      BY <2>2 DEF CreateIssue
    <3>2. repo \in Seq(ItemSet)
      BY DEF IInv, TypeOK
    <3> QED BY <3>1, <3>2
  <2>3. CASE GetIssue(a) \/ CreateComment(a)
    BY <2>3 DEF GetIssue, CreateComment
  <2> QED BY <2>1, <2>2, <2>3 DEF Execute
<1>4. CASE \E a \in Calls : Refuse(a) \/ Lose(a)
  BY <1>4 DEF Refuse, Lose
<1>5. CASE Restart \/ UNCHANGED vars
  BY <1>5 DEF Restart, vars
<1> QED BY <1>1, <1>2, <1>3, <1>4, <1>5 DEF Next, Upstream

THEOREM NamedFieldsOnly == Spec => OnlyNamedFieldsChange
<1>1. ASSUME IInv, [Next]_vars, NEW n \in DOMAIN repo, repo'[n] # repo[n]
      PROVE  \E a \in wire \ wire' :
               /\ call[a].request.op = "update" /\ call[a].request.number = n
               /\ Names(call[a].request.payload, repo[n], repo'[n])
  <2>1. PICK a \in Calls : Execute(a) /\ UpdateIssue(a)
    BY <1>1, RepoStill
  <2> DEFINE m == call[a].request.number
             p == call[a].request.payload
             new == Patched(repo[m], GithubPayload(p))
  <2>2. /\ m \in 1..Len(repo) /\ repo' = [repo EXCEPT ![m] = new]
        /\ Names(p, repo[m], new)
    BY <1>1, <2>1, Repatched
  <2>3. repo \in Seq(ItemSet)
    BY <1>1 DEF IInv, TypeOK
  <2> HIDE DEF new
  <2>4. n = m /\ repo'[n] = new
    BY <1>1, <2>2, <2>3, LenProperties
  <2>5. a \in wire \ wire' /\ call[a].request.op = "update"
    BY <1>1, <2>1, OnTheWire DEF UpdateIssue
  <2> QED BY <2>2, <2>4, <2>5
<1>2. IInv /\ [Next]_vars =>
        [\A n \in DOMAIN repo : repo'[n] # repo[n] =>
           \E a \in wire \ wire' :
             /\ call[a].request.op = "update" /\ call[a].request.number = n
             /\ Names(call[a].request.payload, repo[n], repo'[n])]_vars
  BY <1>1
<1> QED BY <1>2, Inductive, PTL DEF Spec, OnlyNamedFieldsChange

-----------------------------------------------------------------------------
(* What the answers tell about the effects, frame by frame.                *)

(* A request refused is never answered with a success. *)
LEMMA OutcomeRefused ==
  ASSUME NEW op \in Ops, NEW r \in Response, r.status >= 300, r.data = "error"
  PROVE  Outcome(op, r).status \notin {200, 201}
<1>1. r.status \in 0..599
  BY DEF Response
<1>2. Documented(r) \in {401, 404, 403, 429, 400, 502, 503}
  BY <1>1 DEF Documented
<1>3. CASE r.status >= 400
  BY <1>1, <1>2, <1>3, MapErrorOutcome DEF Outcome, IsError
<1>4. CASE ~ (r.status >= 400)
  <2>1. Outcome(op, r) = Result(op, r)
    BY <1>4 DEF Outcome, IsError
  <2> QED BY <2>1, ResultOutcome
<1> QED BY <1>3, <1>4

(* One carried out never with an error that rules it out. *)
LEMMA OutcomeEffected ==
  ASSUME NEW c \in FrameSet, NEW a, NEW R, NEW C, Honest(c, a, 1, R, C)
  PROVE  LET status == Outcome(c.request.op, c.response).status
         IN  \/ status \in {200, 201, 500, 503}
             \/ status = 404 /\ c.request.op \in {"get", "update"}
<1> DEFINE op == c.request.op
           r == c.response
<1>1. op \in Ops /\ r \in Response
  BY DEF FrameSet, RequestSet
<1>2. r.status \in {200, 201, 502, 503}
  BY DEF Honest, Matches
<1>3. CASE r.status \in {502, 503}
  <2>1. Outcome(op, r) = MapError(r) /\ Documented(r) = 503
    BY <1>3 DEF Outcome, IsError, Documented
  <2> QED BY <1>1, <1>3, <2>1, MapErrorOutcome
<1>4. CASE r.status \in {200, 201}
  <2>1. Outcome(op, r) = Result(op, r)
    BY <1>4 DEF Outcome, IsError
  <2> QED BY <1>1, <2>1, ResultOutcome
<1> QED BY <1>2, <1>3, <1>4

LEMMA MeaningOf ==
  ASSUME NEW c \in FrameSet, NEW a, NEW on, NEW t, NEW R, NEW C,
         FrameOK(c, a, on, t, R, C), c.pc = "answered"
  PROVE  /\ Meaning(c) \in {"done", "refused", "unknown"}
         /\ Meaning(c) = "done" => t = 1
         /\ Meaning(c) = "refused" => t = 0 /\ ~ on
         /\ Retryable(c) /\ t # 0 => Doubtful(c)
<1> DEFINE status == c.answer.status
<1>1. \/ c.answer \in {Unavailable, NoAnswer}
      \/ c.answer = AppError(400) /\ c.response = NoResponse /\ t = 0
      \/ /\ Honest(c, a, t, R, C)
         /\ c.answer = Outcome(c.request.op, c.response)
  BY DEF FrameOK
<1>2. CASE c.answer \in {Unavailable, NoAnswer}
  BY <1>2 DEF Unavailable, NoAnswer, AppError, Meaning, Doubtful
<1>3. CASE c.answer = AppError(400) /\ c.response = NoResponse /\ t = 0
  <2>1. ~ on
    BY <1>3 DEF FrameOK, Unavailable, NoAnswer, AppError
  <2> QED BY <1>3, <2>1 DEF AppError, Meaning, Doubtful, Retryable
<1>4. CASE Honest(c, a, t, R, C) /\ c.answer = Outcome(c.request.op, c.response)
  <2>1. c.response # NoResponse
    BY <1>4, RoutesAssumption DEF Honest, Matches, NoResponse, Reply
  <2>2. ~ on
    BY <2>1 DEF FrameOK
  <2>3. CASE t = 0
    <3>1. c.response \in Refusals
      BY <1>4, <2>3 DEF Honest
    <3>2. c.request.op \in Ops
      BY DEF FrameSet, RequestSet
    <3>3. status \notin {200, 201}
      BY <1>4, <3>1, <3>2, OutcomeRefused, RoutesAssumption
    <3> QED BY <2>2, <2>3, <3>3 DEF Meaning, Doubtful, Retryable
  <2>4. CASE t = 1
    <3>1. \/ status \in {200, 201, 500, 503}
          \/ status = 404 /\ c.request.op \in {"get", "update"}
      BY <1>4, <2>4, OutcomeEffected
    <3> QED BY <2>4, <3>1 DEF Meaning, Doubtful, Retryable
  <2> QED BY <2>3, <2>4 DEF FrameOK
<1> QED BY <1>1, <1>2, <1>3, <1>4

(* A request that callers repeat as they are told to takes effect once,    *)
(* and once more at most for every answer that left it open.               *)
THEOREM DuplicatesCounted == Spec => []DuplicatesOnlyAfterDoubt
<1>1. ASSUME IInv, NEW b \in Calls
      PROVE  Cardinality({a \in Calls : call[a].first = b /\ times[a] > 0})
               <= 1 + Cardinality({a \in Calls : call[a].first = b /\ Doubtful(call[a])})
  <2> DEFINE E == {a \in Calls : call[a].first = b /\ times[a] > 0}
             D == {a \in Calls : call[a].first = b /\ Doubtful(call[a])}
  <2>1. \A a \in E : Retryable(call[a]) => a \in D
    <3> SUFFICES ASSUME NEW a \in E, Retryable(call[a]) PROVE Doubtful(call[a])
      OBVIOUS
    <3>1. FrameOK(call[a], a, a \in wire, times[a], repo, comments)
      BY <1>1 DEF IInv, FramesOK
    <3>2. call[a] \in FrameSet /\ call[a].pc = "answered" /\ times[a] # 0
      BY <1>1 DEF IInv, TypeOK, Retryable
    <3> QED BY <3>1, <3>2, MeaningOf
  <2>2. \A a, d \in E : a # d => Retryable(call[a]) \/ Retryable(call[d])
    BY <1>1 DEF IInv, GroupsOK
  <2>3. IsFiniteSet(D) /\ IsFiniteSet(E)
    BY RoutesAssumption, FS_Subset
  <2> HIDE DEF D, E
  <2>4. PICK x : E \subseteq D \cup {x}
    BY <2>1, <2>2
  <2>5. /\ IsFiniteSet(D \cup {x})
        /\ Cardinality(D \cup {x}) = IF x \in D THEN Cardinality(D) ELSE Cardinality(D) + 1
    BY <2>3, FS_AddElement
  <2>6. Cardinality(E) <= Cardinality(D \cup {x})
    BY <2>4, <2>5, FS_Subset
  <2>7. Cardinality(D) \in Nat /\ Cardinality(E) \in Nat
    BY <2>3, FS_CardinalityType
  <2> QED BY <2>5, <2>6, <2>7 DEF D, E
<1>2. IInv => DuplicatesOnlyAfterDoubt
  BY <1>1 DEF DuplicatesOnlyAfterDoubt
<1> QED BY <1>2, Inductive, PTL

-----------------------------------------------------------------------------
(* The refinement.                                                         *)

asked == {a \in Calls : call[a].pc # "new"}
told  == [a \in Calls |-> Meaning(call[a])]

LEMMA Updated ==
  ASSUME NEW S, NEW f, NEW g, NEW x \in S, NEW v,
         f = [y \in S |-> f[y]], g = [y \in S |-> g[y]],
         \A y \in S : g[y] = IF y = x THEN v ELSE f[y]
  PROVE  g = [f EXCEPT ![x] = v]
OBVIOUS

(* Only one call's meaning changes with its frame. *)
LEMMA Mapped ==
  ASSUME IInv, NEW a \in Calls, NEW c, call' = [call EXCEPT ![a] = c], c.pc # "new"
  PROVE  /\ asked' = asked \cup {a}
         /\ told' = [told EXCEPT ![a] = Meaning(c)]
<1>1. \A b \in Calls : call'[b] = IF b = a THEN c ELSE call[b]
  BY DEF IInv, TypeOK
<1>2. asked' = asked \cup {a}
  BY <1>1 DEF asked
<1>3. told' = [b \in Calls |-> Meaning(call'[b])]
  BY DEF told, Meaning, Doubtful
<1>4. told' = [told EXCEPT ![a] = Meaning(c)]
  <2>1. \A b \in Calls : told[b] = Meaning(call[b])
    BY DEF told
  <2>2. \A b \in Calls : told'[b] = IF b = a THEN Meaning(c) ELSE told[b]
    BY <1>1, <1>3, <2>1
  <2>3. told = [b \in Calls |-> told[b]] /\ told' = [b \in Calls |-> told'[b]]
    BY <1>3 DEF told
  <2> QED BY <2>2, <2>3, Updated
<1> QED BY <1>2, <1>4

LEMMA Unmoved ==
  ASSUME UNCHANGED call
  PROVE  UNCHANGED <<asked, told>>
BY DEF asked, told, Meaning, Doubtful

LEMMA CallerImplements ==
  ASSUME IInv, NEW a \in Calls, Caller(a)
  PROVE  Remote!Next
<1>0. ASSUME NEW c, call' = [call EXCEPT ![a] = c], c.pc # "new"
      PROVE  asked' = asked \cup {a} /\ told' = [told EXCEPT ![a] = Meaning(c)]
  BY <1>0, Mapped, Zenon
<1>1. told = [b \in Calls |-> told[b]] /\ told[a] = Meaning(call[a])
  BY DEF told
<1>2. ASSUME NEW q, NEW first, Submit(a, q, first)
      PROVE  Remote!Next
  <2> DEFINE c == [New(a) EXCEPT !.pc = "sent", !.request = q, !.first = first]
  <2>1. call' = [call EXCEPT ![a] = c] /\ call[a].pc = "new" /\ UNCHANGED times
    BY <1>2 DEF Submit
  <2>2. c.pc = "sent"
    BY DEF New
  <2> HIDE DEF c
  <2>3. Meaning(c) = "nothing" /\ Meaning(call[a]) = "nothing"
    BY <2>1, <2>2 DEF Meaning, Doubtful
  <2>4. asked' = asked \cup {a} /\ told' = [told EXCEPT ![a] = told[a]]
    BY <1>0, <1>1, <2>1, <2>2, <2>3
  <2>5. told' = told
    BY <1>1, <2>4
  <2>6. Remote!Ask(a)
    BY <2>1, <2>4, <2>5 DEF Remote!Ask, asked, told
  <2> QED BY <2>6 DEF Remote!Next
<1>3. ASSUME NEW q, Reject(a, q)
      PROVE  Remote!Next
  <2> DEFINE c == [New(a) EXCEPT !.pc = "answered", !.answer = AppError(400)]
  <2>1. call' = [call EXCEPT ![a] = c] /\ call[a].pc = "new" /\ UNCHANGED times
    BY <1>3 DEF Reject
  <2>2. c.pc = "answered" /\ c.answer = AppError(400)
    BY DEF New
  <2> HIDE DEF c
  <2>3. Meaning(c) = "refused"
    BY <2>2 DEF Meaning, Doubtful, AppError
  <2>4. asked' = asked \cup {a} /\ told' = [told EXCEPT ![a] = "refused"]
    BY <1>0, <2>1, <2>2, <2>3
  <2>5. Remote!Reject(a)
    BY <2>1, <2>4 DEF Remote!Reject, asked, told
  <2> QED BY <2>5 DEF Remote!Next
<1> QED BY <1>2, <1>3 DEF Caller, Retry

LEMMA HandlerImplements ==
  ASSUME IInv, IInv', NEW a \in Calls, Handler(a)
  PROVE  Remote!Next
<1> DEFINE c == call'[a]
<1>0. ASSUME NEW d, call' = [call EXCEPT ![a] = d], d.pc # "new"
      PROVE  asked' = asked \cup {a} /\ told' = [told EXCEPT ![a] = Meaning(d)]
  BY <1>0, Mapped, Zenon
<1>1. /\ call \in [Calls -> FrameSet] /\ call[a].pc \in {"sent", "replied"}
      /\ UNCHANGED <<wire, times>>
  BY DEF IInv, TypeOK, Handler, Complete, RequestFails
<1>2. call' = [call EXCEPT ![a] = c] /\ c.pc = "answered"
  <2>1. PICK answer, response :
          call' = [call EXCEPT ![a] = [call[a] EXCEPT !.pc = "answered",
                                         !.answer = answer, !.response = response]]
    <3>1. CASE Complete(a)
      <4> DEFINE answer == Outcome(call[a].request.op, call[a].response)
                 d == [call[a] EXCEPT !.pc = "answered", !.answer = answer]
                 e == [call[a] EXCEPT !.pc = "answered", !.answer = answer,
                                      !.response = call[a].response]
      <4>1. call' = [call EXCEPT ![a] = d]
        BY <1>1, <3>1 DEF Complete, Answer
      <4>2. call[a] \in FrameSet
        BY <1>1
      <4>3. d = e
        BY <4>2 DEF FrameSet
      <4> QED BY <4>1, <4>3, Zenon
    <3>2. CASE RequestFails(a)
      BY <1>1, <3>2 DEF RequestFails
    <3> QED BY <3>1, <3>2 DEF Handler
  <2> DEFINE d == [call[a] EXCEPT !.pc = "answered", !.answer = answer,
                                  !.response = response]
  <2>2. call[a] \in FrameSet
    BY <1>1
  <2>3. d.pc = "answered"
    BY <2>2 DEF FrameSet
  <2>4. call' = [call EXCEPT ![a] = d]
    BY <2>1
  <2> HIDE DEF d
  <2>5. c = d
    BY <1>1, <2>4
  <2> QED BY <2>3, <2>4, <2>5
<1>3. FrameOK(c, a, a \in wire', times'[a], repo', comments') /\ c \in FrameSet
  BY DEF IInv, TypeOK, FramesOK
<1> HIDE DEF c
<1>4. /\ Meaning(c) \in {"done", "refused", "unknown"}
      /\ Meaning(c) = "done" => times[a] = 1
      /\ Meaning(c) = "refused" => times[a] = 0
  BY <1>1, <1>2, <1>3, MeaningOf
<1>5. asked' = asked \cup {a} /\ told' = [told EXCEPT ![a] = Meaning(c)]
  BY <1>0, <1>2
<1>6. a \in asked /\ told[a] = "nothing"
  BY <1>1 DEF asked, told, Meaning, Doubtful
<1>7. asked' = asked
  BY <1>5, <1>6
<1>8. Remote!Tell(a, Meaning(c))
  BY <1>1, <1>4, <1>5, <1>6, <1>7 DEF Remote!Tell, asked, told
<1> QED BY <1>4, <1>8 DEF Remote!Next

LEMMA UpstreamImplements ==
  ASSUME IInv, NEW a \in Calls, Upstream(a)
  PROVE  [Remote!Next]_<<asked, times, told>>
<1>0. ASSUME NEW d, call' = [call EXCEPT ![a] = d], d.pc # "new"
      PROVE  asked' = asked \cup {a} /\ told' = [told EXCEPT ![a] = Meaning(d)]
  BY <1>0, Mapped, Zenon
<1>1. /\ call \in [Calls -> FrameSet] /\ times \in [Calls -> Nat] /\ a \in wire
      /\ FrameOK(call[a], a, TRUE, times[a], repo, comments)
  <2>1. FrameOK(call[a], a, a \in wire, times[a], repo, comments) /\ a \in wire
    BY DEF IInv, FramesOK, Upstream, Execute, Refuse, Lose
  <2> QED BY <2>1 DEF FrameOK, IInv, TypeOK
<1>2. a \in asked /\ told[a] # "refused" /\ times[a] = 0
  <2>1. call[a].pc \in {"sent", "answered"} /\ times[a] = 0
    BY <1>1 DEF FrameOK
  <2>2. CASE call[a].pc = "sent"
    BY <2>1, <2>2 DEF asked, told, Meaning, Doubtful
  <2>3. CASE call[a].pc = "answered"
    <3>1. call[a] \in FrameSet
      BY <1>1
    <3>2. Meaning(call[a]) # "refused"
      BY <1>1, <2>3, <3>1, MeaningOf
    <3> QED BY <2>1, <2>3, <3>2 DEF asked, told
  <2> QED BY <2>1, <2>2, <2>3
<1>3. ASSUME NEW r, Respond(a, r)
      PROVE  UNCHANGED <<asked, told>>
  <2>1. CASE call[a].pc = "sent"
    <3> DEFINE d == [call[a] EXCEPT !.pc = "replied", !.response = r]
    <3>1. call' = [call EXCEPT ![a] = d] /\ d.pc = "replied"
      BY <1>1, <1>3, <2>1 DEF Respond, FrameSet
    <3> HIDE DEF d
    <3>2. Meaning(d) = "nothing" /\ told[a] = "nothing"
      BY <2>1, <3>1 DEF told, Meaning, Doubtful
    <3>3. asked' = asked \cup {a} /\ told' = [told EXCEPT ![a] = "nothing"]
      BY <1>0, <3>1, <3>2
    <3>4. told = [b \in Calls |-> told[b]]
      BY DEF told
    <3> QED BY <1>2, <3>2, <3>3, <3>4
  <2>2. CASE call[a].pc # "sent"
    BY <1>3, <2>2, Unmoved DEF Respond
  <2> QED BY <2>1, <2>2
<1>4. CASE Execute(a)
  <2>1. PICK r : Respond(a, r)
    BY <1>4 DEF Execute, CreateIssue, GetIssue, UpdateIssue, CreateComment
  <2>2. times' = [times EXCEPT ![a] = 1]
    BY <1>1, <1>2, <1>4 DEF Execute
  <2>3. Remote!Perform(a)
    BY <1>2, <1>3, <2>1, <2>2 DEF Remote!Perform, asked, told
  <2> QED BY <2>3 DEF Remote!Next
<1>5. CASE Refuse(a)
  BY <1>3, <1>5 DEF Refuse
<1>6. CASE Lose(a)
  BY <1>6, Unmoved DEF Lose
<1> QED BY <1>4, <1>5, <1>6 DEF Upstream

LEMMA RestartImplements ==
  ASSUME IInv, Restart
  PROVE  Remote!Next
<1> DEFINE lost == {a \in Calls : call[a].pc \in {"sent", "replied"}}
<1>1. call \in [Calls -> FrameSet]
  BY DEF IInv, TypeOK
<1>2. lost \subseteq {a \in asked : told[a] = "nothing"}
  BY DEF asked, told, Meaning, Doubtful
<1>3. ASSUME NEW a \in Calls
      PROVE  /\ (call'[a].pc = "new") = (call[a].pc = "new")
             /\ Meaning(call'[a]) = IF a \in lost THEN "unknown" ELSE told[a]
  <2>1. CASE a \in lost
    <3> DEFINE d == [call[a] EXCEPT !.pc = "answered", !.answer = NoAnswer,
                                    !.response = NoResponse]
    <3>1. call'[a] = d
      BY <2>1 DEF Restart
    <3>2. call[a] \in FrameSet
      BY <1>1
    <3>3. d.pc = "answered" /\ d.answer = NoAnswer
      BY <3>2 DEF FrameSet
    <3> HIDE DEF d
    <3>4. Meaning(d) = "unknown"
      BY <3>3 DEF Meaning, Doubtful, NoAnswer
    <3> QED BY <2>1, <3>1, <3>3, <3>4
  <2>2. CASE a \notin lost
    <3>1. call'[a] = call[a]
      BY <2>2 DEF Restart
    <3> QED BY <2>2, <3>1 DEF told
  <2> QED BY <2>1, <2>2
<1>4. asked' = asked
  BY <1>3 DEF asked
<1>5. told' = [a \in Calls |-> Meaning(call'[a])]
  BY DEF told, Meaning, Doubtful
<1> HIDE DEF lost
<1>6. told' = [a \in Calls |-> IF a \in lost THEN "unknown" ELSE told[a]]
  BY <1>3, <1>5
<1>7. Remote!Abandon(lost)
  BY <1>2, <1>4, <1>6 DEF Restart, Remote!Abandon, asked, told
<1>8. lost \in SUBSET Calls
  BY DEF lost
<1> QED BY <1>7, <1>8 DEF Remote!Next

(* A success comes after the effect, an error that rules the effect out is *)
(* right for good, every other answer leaves it open, and nothing the      *)
(* service is asked for once takes effect twice: the routes implement      *)
(* RemoteCalls.                                                            *)
THEOREM ImplementsRemoteCalls == Spec => RemoteSpec
<1>1. Init => Remote!Init
  <2> SUFFICES ASSUME Init PROVE Remote!Init
    OBVIOUS
  <2>1. \A a \in Calls : call[a] = New(a) /\ times = [b \in Calls |-> 0]
    BY DEF Init
  <2>2. \A a \in Calls : call[a].pc = "new"
    BY <2>1, Constants
  <2>3. \A a \in Calls : Meaning(call[a]) = "nothing"
    BY <2>2 DEF Meaning, Doubtful
  <2> QED BY <2>2, <2>3 DEF Init, Remote!Init
<1>2. IInv /\ IInv' /\ [Next]_vars => [Remote!Next]_<<asked, times, told>>
  <2> SUFFICES ASSUME IInv, IInv', [Next]_vars
               PROVE  [Remote!Next]_<<asked, times, told>>
    OBVIOUS
  <2>1. CASE \E a \in Calls : Caller(a)
    BY <2>1, CallerImplements
  <2>2. CASE \E a \in Calls : Handler(a)
    BY <2>2, HandlerImplements
  <2>3. CASE \E a \in Calls : Upstream(a)
    BY <2>3, UpstreamImplements
  <2>4. CASE Restart
    BY <2>4, RestartImplements
  <2>5. CASE UNCHANGED vars
    BY <2>5, Unmoved DEF vars
  <2> QED BY <2>1, <2>2, <2>3, <2>4, <2>5 DEF Next
<1>3. IInv /\ IInv' /\ [Next]_vars => [Remote!Next]_Remote!vars
  BY <1>2 DEF Remote!vars, asked, told
<1> QED BY <1>1, <1>3, Inductive, PTL DEF Spec, RemoteSpec, Remote!Spec
=============================================================================
