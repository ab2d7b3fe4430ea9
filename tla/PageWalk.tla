------------------------------- MODULE PageWalk -------------------------------
(***************************************************************************)
(* A caller walks through GET /issues or GET /issues/{number}/comments,    *)
(* page by page along the Link header it is given, while the list changes  *)
(* at GitHub, GitHub's rate limit comes and goes, and requests fail.  It   *)
(* repeats its filter with every request, waits as long as a 429 says, and *)
(* repeats what is answered with 503.  A body that cannot be read is none  *)
(* of this: the service answers 200 with an empty page.                    *)
(*                                                                         *)
(* The cache of GET /issues is left out: callers cannot tell it from none  *)
(* (FreshList), but for a page that was unreadable when it was fetched,    *)
(* which is served as empty again and again.                               *)
(***************************************************************************)
EXTENDS GitHubClient, Pagination, FiniteSets

CONSTANTS
  Lists,           \* the lists there may be when the walk starts
  MaxItems,        \* bound: items that ever exist
  MaxFaults,       \* bound: requests that fail, and answers that are unreadable
  DefaultPerPage, MaxPerPage,
  Quota,           \* requests GitHub answers in a window
  Window           \* the ticks of a window, not longer than Retry-After's 60 s

Kinds == {"issue", "pull", "comment"}

ASSUME WalkAssumption ==
  /\ Quota \in Nat \ {0}
  /\ Window \in Nat \ {0} /\ Window % TicksPerSecond = 0
  /\ MaxPerPage \in Nat /\ DefaultPerPage \in 1..MaxPerPage
  /\ MaxItems \in Nat \ {0} /\ MaxFaults \in Nat

(* Issues and pull requests, or the comments of one issue: two routes.     *)
ASSUME ListsAssumption ==
  \A l \in Lists :
    /\ l \in Seq(Kinds) /\ Len(l) <= MaxItems
    /\ \A i, j \in DOMAIN l : l[i] = "comment" => l[j] = "comment"

VARIABLES
  list,      \* GitHub: the list walked through, in its order
  made,      \* GitHub: how many items there have been
  quota,     \* GitHub: the requests left, and the ticks until it resets
  walk,      \* the caller and its request
  faults,    \* how many requests have failed or been answered unreadably
  start,     \* history: the list when the walk started
  added, removed,  \* history: whether the list has grown or shrunk since
  refused,   \* history: rate limits met since the last reset
  unread     \* history: the items on the pages whose body was unreadable

vars == <<list, made, quota, walk, faults, start, added, removed, refused, unread>>

github == <<list, made, quota>>
history == <<start, added, removed, unread>>

-----------------------------------------------------------------------------
(* GitHub.                                                                 *)

Least(a, b) == IF a < b THEN a ELSE b

PageOf(l, page, size) == SubSeq(l, (page - 1) * size + 1, Least(page * size, Len(l)))

(* A page's address: the filter comes first, with a comma between its      *)
(* labels.                                                                 *)
Address(page, size) ==
  <<Mark("other"), Mark(","), Mark("other"), Param("per_page", size), Param("page", page)>>

(* The links to the other pages; more: this is not the last. *)
Neighbours(page, size, more) ==
  (IF page > 1 THEN <<[rel |-> "prev", url |-> Address(page - 1, size)]>> ELSE <<>>)
    \o (IF more THEN <<[rel |-> "next", url |-> Address(page + 1, size)]>> ELSE <<>>)

Numbers(items) == {items[i].id : i \in DOMAIN items}

(* What happens after the walk is of no interest. *)
Walking == walk.pc \in {"ready", "asked"}

(* An issue is opened or reopened, wherever the order puts it; a comment   *)
(* is the last one.                                                        *)
Add(i, kind) ==
  /\ Walking /\ made < MaxItems
  /\ IF walk.comments THEN i = Len(list) + 1 /\ kind = "comment"
                      ELSE kind \in {"issue", "pull"}
  /\ list' = InsertAt(list, i, [id |-> made + 1, kind |-> kind])
  /\ made' = made + 1
  /\ added' = TRUE
  /\ UNCHANGED <<quota, walk, faults, start, removed, refused, unread>>

(* Closed, deleted, or labelled otherwise. *)
Leave(i) ==
  /\ Walking
  /\ list' = RemoveAt(list, i)
  /\ removed' = TRUE
  /\ UNCHANGED <<made, quota, walk, faults, start, added, refused, unread>>

(* The clock, of GitHub, the service and the caller. *)
Tick ==
  /\ Walking
  /\ walk' = [walk EXCEPT !.wait = IF @ = 0 THEN 0 ELSE @ - 1]
  /\ IF quota.reset = 1
     THEN quota' = [left |-> Quota, reset |-> Window] /\ refused' = 0
     ELSE quota' = [quota EXCEPT !.reset = @ - 1] /\ UNCHANGED refused
  /\ UNCHANGED <<list, made, faults, history>>

-----------------------------------------------------------------------------
(* The routes, and the caller that follows them.                           *)

(* The items that are no pull requests, in their order. *)
WithoutPulls(items) ==
  FoldLeft(LAMBDA kept, item : IF item.kind = "pull" THEN kept ELSE Append(kept, item),
           <<>>, items)

(* Mutant: pull requests are listed. *)
ShownEverything(comments, items) == items

(* What list_issues and list_comments make of a page. *)
Shown(comments, items) == IF comments THEN items ELSE WithoutPulls(items)

(* What the Link header becomes on its way from GitHub to the caller.      *)
Forwarded ==
  [page \in 1..MaxItems |-> [size \in 1..MaxPerPage |-> [more \in BOOLEAN |->
     RewriteLinkHeader(LinkHeader(Neighbours(page, size, more)))]]]

(* Mutant: any per_page is accepted. *)
AskUnchecked ==
  /\ walk.pc = "ready" /\ walk.wait = 0
  /\ walk' = [walk EXCEPT !.pc = "asked"]
  /\ UNCHANGED <<github, faults, history, refused>>

(* The request.  Query(ge=1, le=MAX_PER_PAGE): otherwise 400.              *)
Ask ==
  /\ walk.pc = "ready" /\ walk.wait = 0
  /\ walk' = IF walk.size \in 1..MaxPerPage
             THEN [walk EXCEPT !.pc = "asked"]
             ELSE [walk EXCEPT !.pc = "gave up"]
  /\ UNCHANGED <<github, faults, history, refused>>

Or(query, key, default) == IF key \in DOMAIN query THEN query[key] ELSE default

(* 200: what the service has read of the page, with the links to the       *)
(* others rewritten; the caller goes on to the next.                       *)
Served(items) ==
  LET links == Forwarded[walk.page][walk.size][walk.page * walk.size < Len(list)]
      nexts == {i \in DOMAIN links : links[i].rel = "next"}
      got == walk.got \o Shown(walk.comments, items)
  IN  /\ walk.pc = "asked" /\ quota.left > 0
      /\ quota' = [quota EXCEPT !.left = @ - 1]
      /\ walk' =
           IF nexts = {} THEN [walk EXCEPT !.pc = "done", !.got = got]
           ELSE LET query == links[CHOOSE i \in nexts : TRUE].query
                IN  [walk EXCEPT !.pc = "ready", !.got = got,
                       !.page = Or(query, "page", 1),
                       !.size = Or(query, "per_page", DefaultPerPage)]
      /\ UNCHANGED <<list, made, start, added, removed, refused>>

AnswerPage ==
  /\ Served(PageOf(list, walk.page, walk.size))
  /\ UNCHANGED <<faults, unread>>

(* The body is empty or no JSON: _decode makes it None, the routes an      *)
(* empty page.  The Link header is GitHub's all the same.                  *)
AnswerUnread ==
  /\ Served(<<>>)
  /\ faults < MaxFaults /\ faults' = faults + 1
  /\ unread' = unread \cup Numbers(PageOf(list, walk.page, walk.size))

(* GitHub's 403 when the quota is gone, as the service answers it.         *)
Exhausted ==
  [status |-> 403, data |-> "error", number |-> 0, remaining |-> "zero",
   retryAfter |-> Absent, reset |-> [kind |-> "number", value |-> quota.reset]]

(* The caller does what it is told: 429, wait and repeat; 503, repeat;     *)
(* anything else is its own fault.                                         *)
Told(answer) ==
  CASE answer.status = 429 ->
         [walk EXCEPT !.pc = "ready", !.wait = answer.wait * TicksPerSecond]
    [] answer.status = 503 -> [walk EXCEPT !.pc = "ready"]
    [] OTHER               -> [walk EXCEPT !.pc = "gave up"]

Refuse ==
  /\ walk.pc = "asked" /\ quota.left = 0
  /\ walk' = Told(MapError(Exhausted))
  /\ refused' = refused + 1
  /\ UNCHANGED <<github, faults, history>>

(* A timeout, a broken connection, or a 5xx. *)
RequestFails ==
  /\ walk.pc = "asked" /\ faults < MaxFaults
  /\ walk' = Told(Unavailable)
  /\ faults' = faults + 1
  /\ UNCHANGED <<github, history, refused>>

-----------------------------------------------------------------------------

Init ==
  /\ \E l \in Lists, size \in 1..(MaxPerPage + 1) :
       /\ list = [i \in DOMAIN l |-> [id |-> i, kind |-> l[i]]]
       /\ made = Len(l)
       /\ walk = [pc |-> "ready", comments |-> "comment" \in {l[i] : i \in DOMAIN l},
                  page |-> 1, size |-> size, wait |-> 0, got |-> <<>>]
  /\ quota \in [left : 0..Quota, reset : 1..Window]
  /\ faults = 0
  /\ start = list
  /\ added = FALSE /\ removed = FALSE
  /\ refused = 0
  /\ unread = {}

Walk == Ask \/ AnswerPage \/ AnswerUnread \/ Refuse \/ RequestFails

Next == \/ Walk
        \/ Tick
        \/ \E i \in 1..(Len(list) + 1), kind \in Kinds : Add(i, kind)
        \/ \E i \in DOMAIN list : Leave(i)

Spec == Init /\ [][Next]_vars /\ WF_vars(Walk) /\ WF_vars(Tick)

-----------------------------------------------------------------------------
Item == [id : 1..MaxItems, kind : Kinds]

(* TypeOK: the state has its shape; a page asked for is one the service    *)
(* accepts, the ones it has named itself included.                         *)
TypeOK ==
  /\ list \in Seq(Item) /\ start \in Seq(Item)
  /\ made \in 0..MaxItems
  /\ quota \in [left : 0..Quota, reset : 1..Window]
  /\ walk \in [pc : {"ready", "asked", "done", "gave up"}, comments : BOOLEAN,
              page : Nat \ {0}, size : Nat \ {0}, wait : Nat, got : Seq(Item)]
  /\ walk.pc \in {"asked", "done"} => walk.size <= MaxPerPage
  /\ faults \in 0..MaxFaults /\ refused \in Nat
  /\ added \in BOOLEAN /\ removed \in BOOLEAN
  /\ unread \subseteq 1..MaxItems

Collected == Numbers(walk.got)

Due == WithoutPulls(start)

(* WalkIsTheList: the pages of a list that stands still are the list, in   *)
(* its order, without its pull requests, nothing twice, whatever rate      *)
(* limits and failed requests came between; unless a body that could not   *)
(* be read was answered as an empty page, and that page held something.    *)
WalkIsTheList ==
  walk.pc = "done" /\ ~ added /\ ~ removed /\ unread = {} => walk.got = Due

(* WalkMissesNothing: nothing that was there when the walk started is      *)
(* missing from it, though items were added before, between or after, but  *)
(* for what stood on a page whose body could not be read; else only a      *)
(* removal makes a walk by page numbers skip something.                    *)
WalkMissesNothing ==
  walk.pc = "done" /\ ~ removed =>
    \A i \in DOMAIN Due : Due[i].id \in Collected \cup unread

(* WalkIsWhole: the pages of a list that stands still are the list, with   *)
(* no exception: "so paging behaviour matches the upstream API exactly"    *)
(* (DESIGN.md:53).                                                         *)
WalkIsWhole ==
  walk.pc = "done" /\ ~ added /\ ~ removed => walk.got = Due

(* NothingForeign: no pull request is ever collected, and no comment of an *)
(* issue twice: they are added at the end.                                 *)
NothingForeign ==
  /\ \A i \in DOMAIN walk.got : walk.got[i].kind # "pull"
  /\ walk.comments => Cardinality(Collected) = Len(walk.got)

(* RefusedAtMostTwice: a caller that waits as long as Retry-After says is  *)
(* refused twice at most before GitHub's quota is back: cutting the wait   *)
(* to whole seconds costs one request in vain, and no more.                *)
RefusedAtMostTwice == refused <= 2

(* IdleUnderASecond: nor does it wait for a second or longer once the      *)
(* quota is back.                                                          *)
IdleUnderASecond == refused = 0 => walk.wait < TicksPerSecond

(* WalkCompletes: a walk whose first request is accepted reaches the last  *)
(* page, through rate limits ("a retryable condition", DESIGN.md:21) and   *)
(* failures that pass.                                                     *)
WalkCompletes == (walk.pc = "asked") ~> (walk.pc = "done")
=============================================================================
