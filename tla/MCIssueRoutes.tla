---------------------------- MODULE MCIssueRoutes ----------------------------
(***************************************************************************)
(* IssueRoutes on a small instance: a closed issue and a pull request, the *)
(* requests and the answers of GitHub that the routes tell apart.          *)
(***************************************************************************)
EXTENDS IssueRoutes

Item(kind, state) == [kind |-> kind, title |-> "other", body |-> "absent",
                      state |-> state, by |-> NoCall]

OneOfEach == <<Item("issue", "closed"), Item("pull", "open")>>

Ask(op, number, payload) == [op |-> op, number |-> number, payload |-> payload]

Title(t) == [NoPayload EXCEPT !.title = t]
State(s) == [NoPayload EXCEPT !.state = s]
Body(b)  == [NoPayload EXCEPT !.body = b]

AllRequests ==
  {Ask("create", 0, p) : p \in {Title("padded"), NoPayload}}
    \cup {Ask("get", n, NoPayload) : n \in 0..2}
    \cup {Ask("update", n, p) : n \in {1, 2},
                                p \in {Title("plain"), State("open"), NoPayload}}
    \cup {Ask("comment", n, Body("text")) : n \in {1, 2}}
    \cup {Ask("comment", 1, Body("blank"))}

Number(n) == [kind |-> "number", value |-> n]
Infinite == [kind |-> "infinite", value |-> 0]

Refused(status, remaining, retryAfter, reset) ==
  [status |-> status, data |-> "error", number |-> 0, remaining |-> remaining,
   retryAfter |-> retryAfter, reset |-> reset]

AllRefusals ==
  {Refused(status, "some", Absent, Absent) :
     status \in {301, 401, 403, 404, 410, 422, 429, 451}}
    \cup {Refused(403, "zero", Absent, Number(3)),
          Refused(403, "zero", Absent, Number(-1)),
          Refused(403, "zero", Infinite, Absent),
          Refused(403, "some", Number(0), Absent)}
=============================================================================
