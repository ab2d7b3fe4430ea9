---------------------------- MODULE PageWalkProofs ----------------------------
(***************************************************************************)
(* Proofs about PageWalk, for any list, any quota and window, any page     *)
(* size, and any resolution of the clock.                                  *)
(*                                                                         *)
(* The waits: what Retry-After says is short by less than a second, once,  *)
(* and too long by less than a second.                                     *)
(*                                                                         *)
(* The pages: what the links lead to is the list without its pull          *)
(* requests, if it stands still; everything due, if it only grows; and no  *)
(* comment twice, whatever happens to it.                                  *)
(***************************************************************************)
EXTENDS PageWalk, PaginationProofs, FiniteSetTheorems, TLAPS

-----------------------------------------------------------------------------
(* The wait a caller is told of.                                           *)

LEMMA WholeSeconds ==
  ASSUME NEW t \in Nat \ {0}, NEW r \in Nat
  PROVE  /\ r \div t \in Nat
         /\ (r \div t) * t <= r /\ r < (r \div t) * t + t
OBVIOUS

(* An exhausted quota that resets in less than a second is one to wait a   *)
(* second for; otherwise the wait is cut to whole seconds.                 *)
LEMMA WaitAfterRefusal ==
  ASSUME quota.reset \in Nat \ {0}
  PROVE  LET answer == MapError(Exhausted)
             wait == answer.wait * TicksPerSecond
         IN  /\ answer.status = 429 /\ wait \in Nat
             /\ wait < quota.reset + TicksPerSecond
             /\ quota.reset < wait + TicksPerSecond
             /\ quota.reset < TicksPerSecond => quota.reset <= wait
<1> DEFINE t == TicksPerSecond
           r == quota.reset
           s == r \div t
<1>1. t \in Nat \ {0} /\ r \in Nat \ {0}
  BY TicksAssumption
<1>2. MapError(Exhausted) = RateLimited(AtLeastOne(s))
  BY DEF MapError, IsRateLimited, RateLimitError, WaitHeader, RetryAfterSeconds,
         Seconds, Exhausted, Unread, Absent
<1>3. MapError(Exhausted).status = 429 /\ MapError(Exhausted).wait = AtLeastOne(s)
  BY <1>2 DEF RateLimited
<1>4. s \in Nat /\ s * t <= r /\ r < s * t + t
  BY <1>1, WholeSeconds
<1> HIDE DEF s, r, t
<1>5. CASE s = 0
  <2>1. AtLeastOne(s) = 1 /\ s * t = 0 /\ 1 * t = t
    BY <1>1, <1>5 DEF AtLeastOne
  <2> QED BY <1>1, <1>3, <1>4, <2>1 DEF r, t
<1>6. CASE s # 0
  <2>1. AtLeastOne(s) = s
    BY <1>4, <1>6 DEF AtLeastOne
  <2>2. s * t \in Nat /\ s * t >= t
    BY <1>1, <1>4, <1>6
  <2> QED BY <1>1, <1>3, <1>4, <2>1, <2>2 DEF r, t
<1> QED BY <1>5, <1>6

-----------------------------------------------------------------------------
(* The inductive invariant.  A refusal within a second of the last one     *)
(* told to wait until after the reset, so that no third comes before it.   *)
IsWalk(w) ==
  w = [pc |-> w.pc, comments |-> w.comments, page |-> w.page, size |-> w.size,
       wait |-> w.wait, got |-> w.got]

Waits(w, q, n) ==
  /\ IsWalk(w) /\ w.wait \in Nat
  /\ q = [left |-> q.left, reset |-> q.reset] /\ q.reset \in 1..Window
  /\ n \in 0..2
  /\ w.pc = "asked" => w.wait = 0
  /\ n = 0 => w.wait < TicksPerSecond
  /\ n >= 1 => w.wait < q.reset + TicksPerSecond
  /\ n = 1 => q.reset < w.wait + TicksPerSecond
  /\ n = 2 => q.reset <= w.wait

IInv == Waits(walk, quota, refused)

(* The quota but for what is left of it. *)
IsFrom(new, old) ==
  new = [left |-> new.left, reset |-> new.reset] /\ new.reset = old.reset

LEMMA InitIInv == Init => IInv
<1> SUFFICES ASSUME Init PROVE IInv
  OBVIOUS
<1>1. refused = 0 /\ quota \in [left : 0..Quota, reset : 1..Window]
  BY DEF Init
<1>2. IsWalk(walk) /\ walk.pc = "ready" /\ walk.wait = 0
  BY DEF Init, IsWalk
<1> QED BY <1>1, <1>2, TicksAssumption, WalkAssumption DEF IInv, Waits

(* Steps that leave the quota's reset and the wait alone. *)
LEMMA StillWaits ==
  ASSUME IInv, IsWalk(walk'), walk'.wait = walk.wait,
         walk'.pc = "asked" => walk.wait = 0,
         IsFrom(quota', quota), UNCHANGED refused
  PROVE  IInv'
BY DEF IInv, Waits, IsFrom

LEMMA AskKeeps ==
  ASSUME IInv, Ask
  PROVE  IInv'
<1>1. IsWalk(walk) /\ walk.wait = 0
  BY DEF IInv, Waits, Ask
<1>2. PICK pc : walk' = [walk EXCEPT !.pc = pc]
  BY DEF Ask
<1>3. IsWalk(walk') /\ walk'.wait = walk.wait
  BY <1>1, <1>2 DEF IsWalk
<1>4. IsFrom(quota', quota) /\ UNCHANGED refused
  BY DEF Ask, github, IInv, Waits, IsFrom
<1> QED BY <1>1, <1>3, <1>4, StillWaits

LEMMA ServedKeeps ==
  ASSUME IInv, NEW items, Served(items)
  PROVE  IInv'
<1>1. IsWalk(walk) /\ walk.wait = 0
  <2>1. walk.pc = "asked"
    BY Zenon DEF Served
  <2> QED BY <2>1 DEF IInv, Waits
<1>2. \E pc, got, page, size :
        \/ walk' = [walk EXCEPT !.pc = pc, !.got = got]
        \/ walk' = [walk EXCEPT !.pc = pc, !.got = got, !.page = page, !.size = size]
  BY Zenon DEF Served
<1>3. PICK pc, got, page, size :
        \/ walk' = [walk EXCEPT !.pc = pc, !.got = got]
        \/ walk' = [walk EXCEPT !.pc = pc, !.got = got, !.page = page, !.size = size]
  BY <1>2
<1>4. IsWalk(walk') /\ walk'.wait = walk.wait
  BY <1>1, <1>3 DEF IsWalk
<1>5. quota' = [quota EXCEPT !.left = @ - 1] /\ UNCHANGED refused
  BY Zenon DEF Served
<1>6. IsFrom(quota', quota)
  BY <1>5 DEF IInv, Waits, IsFrom
<1> QED BY <1>1, <1>4, <1>5, <1>6, StillWaits

LEMMA RefuseKeeps ==
  ASSUME IInv, Refuse
  PROVE  IInv'
<1> DEFINE answer == MapError(Exhausted)
           wait == answer.wait * TicksPerSecond
<1>1. /\ IsWalk(walk) /\ walk.wait = 0 /\ quota.reset \in 1..Window /\ refused \in 0..2
      /\ refused = 1 => quota.reset < TicksPerSecond
      /\ refused # 2
  BY TicksAssumption, WalkAssumption DEF IInv, Waits, Refuse
<1>2. /\ answer.status = 429 /\ wait \in Nat
      /\ wait < quota.reset + TicksPerSecond
      /\ quota.reset < wait + TicksPerSecond
      /\ quota.reset < TicksPerSecond => quota.reset <= wait
  <2>1. quota.reset \in Nat \ {0}
    BY <1>1, WalkAssumption
  <2> QED BY <2>1, WaitAfterRefusal
<1>3. walk' = [walk EXCEPT !.pc = "ready", !.wait = wait]
  BY <1>2 DEF Refuse, Told
<1> HIDE DEF wait
<1>4. IsWalk(walk') /\ walk'.wait = wait /\ walk'.pc = "ready"
  BY <1>1, <1>3 DEF IsWalk
<1>5. refused' = refused + 1 /\ quota' = quota
  BY DEF Refuse, github
<1> QED BY <1>1, <1>2, <1>4, <1>5, TicksAssumption DEF IInv, Waits

LEMMA RequestFailsKeeps ==
  ASSUME IInv, RequestFails
  PROVE  IInv'
<1>1. IsWalk(walk) /\ walk.wait = 0
  BY DEF IInv, Waits, RequestFails
<1>2. walk' = [walk EXCEPT !.pc = "ready"]
  BY DEF RequestFails, Told, Unavailable, AppError
<1>3. IsWalk(walk') /\ walk'.wait = walk.wait
  BY <1>1, <1>2 DEF IsWalk
<1>4. IsFrom(quota', quota) /\ UNCHANGED refused
  BY DEF RequestFails, github, IInv, Waits, IsFrom
<1> QED BY <1>1, <1>3, <1>4, StillWaits

LEMMA TickKeeps ==
  ASSUME IInv, Tick
  PROVE  IInv'
<1>1. /\ IsWalk(walk) /\ walk.wait \in Nat /\ quota.reset \in 1..Window
      /\ quota = [left |-> quota.left, reset |-> quota.reset]
      /\ walk' = [walk EXCEPT !.wait = IF walk.wait = 0 THEN 0 ELSE walk.wait - 1]
  BY DEF IInv, Waits, Tick
<1>2. /\ IsWalk(walk') /\ walk'.pc = walk.pc
      /\ walk'.wait = IF walk.wait = 0 THEN 0 ELSE walk.wait - 1
  BY <1>1 DEF IsWalk
<1>3. CASE quota.reset = 1
  <2>1. quota' = [left |-> Quota, reset |-> Window] /\ refused' = 0
    BY <1>3 DEF Tick
  <2> QED BY <1>1, <1>2, <1>3, <2>1, TicksAssumption, WalkAssumption DEF IInv, Waits
<1>4. CASE quota.reset # 1
  <2>1. quota' = [quota EXCEPT !.reset = quota.reset - 1] /\ refused' = refused
    BY <1>4 DEF Tick
  <2>2. /\ quota' = [left |-> quota'.left, reset |-> quota'.reset]
        /\ quota'.reset = quota.reset - 1 /\ quota'.reset \in 1..Window
    BY <1>1, <1>4, <2>1, WalkAssumption
  <2> QED BY <1>1, <1>2, <2>1, <2>2, TicksAssumption, WalkAssumption DEF IInv, Waits
<1> QED BY <1>3, <1>4

LEMMA NextKeeps == IInv /\ [Next]_vars => IInv'
<1> SUFFICES ASSUME IInv, [Next]_vars PROVE IInv'
  OBVIOUS
<1>1. CASE Walk
  <2>1. CASE AnswerPage \/ AnswerUnread
    <3>1. \E items : Served(items)
      BY <2>1, Zenon DEF AnswerPage, AnswerUnread
    <3>2. QED
      BY <3>1, ServedKeeps
  <2>2. QED
    BY <1>1, <2>1, AskKeeps, RefuseKeeps, RequestFailsKeeps DEF Walk
<1>2. CASE Tick
  BY <1>2, TickKeeps
<1>3. CASE UNCHANGED <<quota, walk, refused>>
  BY <1>3 DEF IInv
<1> QED BY <1>1, <1>2, <1>3 DEF Next, Add, Leave, vars

LEMMA Inductive == Spec => []IInv
BY InitIInv, NextKeeps, PTL DEF Spec

-----------------------------------------------------------------------------

(* Within a window of GitHub's quota a caller that waits as it is told is  *)
(* refused twice at most.                                                  *)
THEOREM RefusedTwiceAtMost == Spec => []RefusedAtMostTwice
<1>1. IInv => RefusedAtMostTwice
  BY DEF IInv, Waits, RefusedAtMostTwice
<1> QED BY <1>1, Inductive, PTL

(* It idles for less than a second once the quota is back. *)
THEOREM BackWithinASecond == Spec => []IdleUnderASecond
<1>1. IInv => IdleUnderASecond
  BY DEF IInv, Waits, IdleUnderASecond
<1> QED BY <1>1, Inductive, PTL
-----------------------------------------------------------------------------
(* The filter of list_issues.  What is known of a sequence is stated by    *)
(* what occurs in it.                                                      *)
Pull(item) == item.kind = "pull"
Occurs(x, s) == \E i \in 1 .. Len(s) : s[i] = x
NoPulls(s) == \A x : Occurs(x, s) => ~ Pull(x)

LEMMA OccursIn ==
  ASSUME NEW E, NEW s \in Seq(E), NEW x, Occurs(x, s)
  PROVE  x \in E
BY ElementOfSeq DEF Occurs

LEMMA OccursLonger ==
  ASSUME NEW E, NEW s \in Seq(E), NEW e \in E, NEW x
  PROVE  Occurs(x, Longer(s, e)) <=> Occurs(x, s) \/ x = e
<1> DEFINE l == Longer(s, e)
           n == Len(s)
<1>1. /\ n \in Nat /\ Len(l) = n + 1
      /\ \A i \in 1 .. n : l[i] = s[i]
      /\ l[n + 1] = e
  BY LongerIs
<1> HIDE DEF l, n
<1>2. ASSUME NEW i \in 1 .. Len(l) PROVE i \in 1 .. n \/ i = n + 1
  BY <1>1
<1>3. ASSUME NEW i \in 1 .. n PROVE i \in 1 .. Len(l)
  BY <1>1
<1>4. n + 1 \in 1 .. Len(l)
  BY <1>1
<1>5. (\E i \in 1 .. Len(l) : l[i] = x) <=> (\E i \in 1 .. n : s[i] = x) \/ x = e
  BY <1>1, <1>2, <1>3, <1>4
<1>6. QED
  BY <1>5 DEF Occurs, l, n

LEMMA OccursBoth ==
  ASSUME NEW E, NEW s \in Seq(E), NEW t \in Seq(E), NEW x
  PROVE  Occurs(x, Both(s, t)) <=> Occurs(x, s) \/ Occurs(x, t)
<1> DEFINE b == Both(s, t)
           m == Len(s)
           n == Len(t)
<1>1. Joins(b, s, t, E)
  BY ConcatAt DEF Both
<1>2. /\ m \in Nat /\ n \in Nat /\ Len(b) = m + n
      /\ \A i \in 1 .. m : b[i] = s[i]
      /\ \A i \in 1 .. n : b[m + i] = t[i]
  BY <1>1, LenProperties DEF Joins
<1> HIDE DEF b, m, n
<1>3. ASSUME NEW i \in 1 .. Len(b), i \notin 1 .. m PROVE \E k \in 1 .. n : i = m + k
  <2>1. i - m \in 1 .. n /\ i = m + (i - m)
    BY <1>2, <1>3
  <2>2. QED
    BY <2>1
<1>4. ASSUME NEW i \in 1 .. m PROVE i \in 1 .. Len(b)
  BY <1>2
<1>5. ASSUME NEW i \in 1 .. n PROVE m + i \in 1 .. Len(b)
  BY <1>2
<1>6. ASSUME NEW i \in 1 .. Len(b)
      PROVE  (\E k \in 1 .. m : b[i] = s[k]) \/ (\E k \in 1 .. n : b[i] = t[k])
  BY <1>2, <1>3
<1>7. (\E i \in 1 .. Len(b) : b[i] = x)
        <=> (\E i \in 1 .. m : s[i] = x) \/ (\E i \in 1 .. n : t[i] = x)
  BY <1>2, <1>4, <1>5, <1>6
<1>8. QED
  BY <1>7 DEF Occurs, b, m, n

FilterStep(kept, item) == IF item.kind = "pull" THEN kept ELSE Append(kept, item)

Filter == INSTANCE Folding
            WITH Op <- FilterStep, Base <- <<>>, A <- Seq(Item), T <- Item

LEMMA FilterFold == \A items : WithoutPulls(items) = Filter!Fold(items)
BY DEF WithoutPulls, Filter!Fold, FilterStep, FoldLeft, MapThenFoldSet, Max,
       Filter!FoldLeft, Filter!MapThenFoldSet, Filter!Max

LEMMA FilterSteps ==
  \A kept, item : FilterStep(kept, item) = IF Pull(item) THEN kept ELSE Longer(kept, item)
BY DEF FilterStep, Pull, Longer

LEMMA FilterTyped == Filter!Typed
<1>1. <<>> \in Seq(Item)
  BY EmptySeq
<1>2. ASSUME NEW s \in Seq(Item), NEW e \in Item PROVE FilterStep(s, e) \in Seq(Item)
  BY LongerIs, FilterSteps
<1>3. QED
  BY <1>1, <1>2 DEF Filter!Typed

LEMMA KeptTyped == \A s \in Seq(Item) : WithoutPulls(s) \in Seq(Item)
BY FilterFold, FilterTyped, Filter!FoldTyped

LEMMA KeptEmpty == WithoutPulls(<<>>) = <<>>
BY FilterFold, FilterTyped, Filter!FoldEmpty

LEMMA KeptLonger ==
  ASSUME NEW s \in Seq(Item), NEW e \in Item
  PROVE  WithoutPulls(Longer(s, e))
           = IF Pull(e) THEN WithoutPulls(s) ELSE Longer(WithoutPulls(s), e)
<1>1. Filter!Fold(Append(s, e)) = FilterStep(Filter!Fold(s), e)
  BY FilterTyped, Filter!FoldAppend
<1>2. Filter!Fold(Longer(s, e)) = FilterStep(Filter!Fold(s), e)
  BY <1>1 DEF Longer
<1>3. QED
  BY <1>2, FilterFold, FilterSteps

(* What is kept of two sequences one after the other. *)
LEMMA KeptBoth ==
  ASSUME NEW s \in Seq(Item), NEW t \in Seq(Item)
  PROVE  WithoutPulls(Both(s, t)) = Both(WithoutPulls(s), WithoutPulls(t))
<1> DEFINE k == WithoutPulls(s)
           S == {u \in Seq(Item) : WithoutPulls(Both(s, u)) = Both(k, WithoutPulls(u))}
<1>1. k \in Seq(Item)
  BY KeptTyped
<1>2. <<>> \in S
  <2>1. <<>> \in Seq(Item) /\ Both(s, <<>>) = s
    BY EmptySeq, BothEmpty
  <2>2. Both(k, <<>>) = k
    BY <1>1, BothEmpty
  <2>3. QED
    BY <2>1, <2>2, KeptEmpty
<1>3. ASSUME NEW u \in Seq(Item), NEW e \in Item, u \in S
      PROVE  Longer(u, e) \in S
  <2>1. Longer(u, e) \in Seq(Item) /\ Both(s, u) \in Seq(Item) /\ WithoutPulls(u) \in Seq(Item)
    BY LongerIs, BothTyped, KeptTyped
  <2>2. Both(s, Longer(u, e)) = Longer(Both(s, u), e)
    BY BothLonger
  <2>3. WithoutPulls(Both(s, u)) = Both(k, WithoutPulls(u))
    BY <1>3
  <2>4. Both(k, Longer(WithoutPulls(u), e)) = Longer(Both(k, WithoutPulls(u)), e)
    BY <1>1, <2>1, BothLonger
  <2> HIDE DEF k
  <2>5. WithoutPulls(Both(s, Longer(u, e))) = Both(k, WithoutPulls(Longer(u, e)))
    BY <2>1, <2>2, <2>3, <2>4, KeptLonger
  <2>6. QED
    BY <2>1, <2>5 DEF k
<1> HIDE DEF S
<1>4. \A u \in Seq(Item) : u \in S
  BY <1>2, <1>3, ByLonger
<1>5. QED
  BY <1>4 DEF S, k

(* What occurs among the kept: what occurs, but for the pull requests.     *)
LEMMA KeptOccurs ==
  ASSUME NEW s \in Seq(Item), NEW x
  PROVE  Occurs(x, WithoutPulls(s)) <=> Occurs(x, s) /\ ~ Pull(x)
<1> DEFINE S == {u \in Seq(Item) : Occurs(x, WithoutPulls(u)) <=> Occurs(x, u) /\ ~ Pull(x)}
<1>1. <<>> \in S
  BY EmptySeq, KeptEmpty DEF Occurs
<1>2. ASSUME NEW u \in Seq(Item), NEW e \in Item, u \in S
      PROVE  Longer(u, e) \in S
  <2>1. Longer(u, e) \in Seq(Item) /\ WithoutPulls(u) \in Seq(Item)
    BY LongerIs, KeptTyped
  <2>2. Occurs(x, Longer(u, e)) <=> Occurs(x, u) \/ x = e
    BY OccursLonger
  <2>3. Occurs(x, Longer(WithoutPulls(u), e)) <=> Occurs(x, WithoutPulls(u)) \/ x = e
    BY <2>1, OccursLonger
  <2>4. QED
    BY <1>2, <2>1, <2>2, <2>3, KeptLonger
<1> HIDE DEF S
<1>3. \A u \in Seq(Item) : u \in S
  BY <1>1, <1>2, ByLonger
<1>4. QED
  BY <1>3 DEF S

LEMMA AllKept ==
  ASSUME NEW s \in Seq(Item), NoPulls(s)
  PROVE  WithoutPulls(s) = s
<1> DEFINE S == {u \in Seq(Item) : NoPulls(u) => WithoutPulls(u) = u}
<1>1. <<>> \in S
  BY EmptySeq, KeptEmpty
<1>2. ASSUME NEW u \in Seq(Item), NEW e \in Item, u \in S
      PROVE  Longer(u, e) \in S
  <2>1. Longer(u, e) \in Seq(Item)
    BY LongerIs
  <2>2. \A x : Occurs(x, Longer(u, e)) <=> Occurs(x, u) \/ x = e
    BY OccursLonger
  <2>3. QED
    BY <1>2, <2>1, <2>2, KeptLonger DEF NoPulls
<1> HIDE DEF S
<1>3. \A u \in Seq(Item) : u \in S
  BY <1>1, <1>2, ByLonger
<1>4. QED
  BY <1>3 DEF S

-----------------------------------------------------------------------------
(* Pages of a list, and a list with an item more or less.                  *)
OccursAfter(x, s, p) == \E i \in 1 .. Len(s) : p < i /\ s[i] = x

(* The items at the positions after p, up to q. *)
Stretch(s, p, q) == SubSeq(s, p + 1, Least(q, Len(s)))

LEMMA StretchIs ==
  ASSUME NEW E, NEW s \in Seq(E), NEW p \in Nat, NEW q \in Nat
  PROVE  /\ Stretch(s, p, q) \in Seq(E)
         /\ \A i \in 1 .. Len(Stretch(s, p, q)) :
              p + i \in 1 .. Len(s) /\ p + i <= q /\ Stretch(s, p, q)[i] = s[p + i]
         /\ \A j \in 1 .. Len(s) : p < j /\ j <= q => j - p \in 1 .. Len(Stretch(s, p, q))
         /\ p <= Least(q, Len(s)) => Len(Stretch(s, p, q)) = Least(q, Len(s)) - p
<1> DEFINE n == Len(s)
           r == Least(q, n)
           t == SubSeq(s, p + 1, r)
<1>1. n \in Nat /\ r \in Nat /\ r <= n /\ r <= q /\ \A j \in Nat : j <= n /\ j <= q => j <= r
  BY LenProperties DEF Least
<1>2. \A i \in (p + 1) .. r : s[i] \in E
  BY <1>1, ElementOfSeq
<1> HIDE DEF r
<1>3. /\ t \in Seq(E) /\ Len(t) = IF p + 1 <= r THEN r - (p + 1) + 1 ELSE 0
      /\ \A i \in 1 .. r - (p + 1) + 1 : t[i] = s[(p + 1) + i - 1]
  BY <1>1, <1>2, SubSeqProperties
<1> HIDE DEF t, n
<1>4. ASSUME NEW i \in 1 .. Len(t)
      PROVE  p + i \in 1 .. n /\ p + i <= q /\ t[i] = s[p + i]
  <2>1. /\ i \in 1 .. r - (p + 1) + 1 /\ (p + 1) + i - 1 = p + i
        /\ p + i \in 1 .. n /\ p + i <= q
    BY <1>1, <1>3
  <2>2. QED
    BY <1>3, <2>1
<1>5. ASSUME NEW j \in 1 .. n, p < j, j <= q PROVE j - p \in 1 .. Len(t)
  <2>1. j \in Nat /\ j <= r /\ p + 1 <= r
    BY <1>1, <1>5
  <2>2. Len(t) = r - (p + 1) + 1
    BY <1>3, <2>1
  <2>3. QED
    BY <1>1, <1>5, <2>1, <2>2
<1>6. p <= r => Len(t) = r - p
  BY <1>1, <1>3
<1>7. QED
  BY <1>3, <1>4, <1>5, <1>6 DEF Stretch, t, r, n

(* The stretch before p and the one after it make a stretch up to q.       *)
LEMMA StretchBoth ==
  ASSUME NEW E, NEW s \in Seq(E), NEW p \in Nat, NEW q \in Nat, p <= q, p <= Len(s)
  PROVE  Stretch(s, 0, q) = Both(Stretch(s, 0, p), Stretch(s, p, q))
<1> DEFINE n == Len(s)
           a == Stretch(s, 0, p)
           b == Stretch(s, p, q)
           c == Stretch(s, 0, q)
           ab == Both(a, b)
<1>1. n \in Nat /\ p <= n
  BY LenProperties
<1>2. /\ a \in Seq(E) /\ Len(a) = p
      /\ \A i \in 1 .. p : a[i] = s[i]
  <2>1. /\ a \in Seq(E) /\ Len(a) = p
        /\ \A i \in 1 .. Len(a) : a[i] = s[0 + i]
    <3>1. 0 <= Least(p, Len(s)) /\ Least(p, Len(s)) - 0 = p
      BY <1>1 DEF Least
    <3>2. QED
      BY <3>1, StretchIs
  <2> HIDE DEF a
  <2>2. \A i \in 1 .. p : 0 + i = i
    OBVIOUS
  <2>3. QED
    BY <2>1, <2>2
<1>3. /\ b \in Seq(E) /\ Len(b) = Least(q, n) - p
      /\ \A i \in 1 .. Len(b) : b[i] = s[p + i]
  <2>1. p <= Least(q, Len(s))
    BY <1>1 DEF Least
  <2>2. QED
    BY <2>1, StretchIs
<1>4. /\ c \in Seq(E) /\ Len(c) = Least(q, n)
      /\ \A i \in 1 .. Least(q, n) : c[i] = s[i]
  <2>1. /\ c \in Seq(E) /\ Len(c) = Least(q, n)
        /\ \A i \in 1 .. Len(c) : c[i] = s[0 + i]
    <3>1. 0 <= Least(q, Len(s)) /\ Least(q, Len(s)) - 0 = Least(q, Len(s))
      BY <1>1 DEF Least
    <3>2. QED
      BY <3>1, StretchIs
  <2> HIDE DEF c
  <2>2. \A i \in 1 .. Least(q, n) : 0 + i = i
    BY <1>1 DEF Least
  <2>3. QED
    BY <2>1, <2>2
<1>5. Least(q, n) \in Nat /\ p <= Least(q, n)
  BY <1>1 DEF Least
<1>6. Joins(ab, a, b, E)
  BY <1>2, <1>3, ConcatAt DEF Both
<1> DEFINE r == Least(q, n)
<1> HIDE DEF a, b, c, ab, n, r
<1>7. /\ ab \in Seq(E) /\ Len(ab) = p + (r - p)
      /\ \A i \in 1 .. p : ab[i] = s[i]
      /\ \A i \in 1 .. (r - p) : ab[p + i] = s[p + i]
  BY <1>2, <1>3, <1>6 DEF Joins, r
<1>8. /\ r \in Nat /\ p <= r /\ p + (r - p) = r
      /\ Len(c) = r /\ \A i \in 1 .. r : c[i] = s[i]
  BY <1>4, <1>5 DEF r
<1>9. ASSUME NEW i \in 1 .. r PROVE ab[i] = c[i]
  <2>1. CASE i \in 1 .. p
    BY <1>7, <1>8, <2>1
  <2>2. CASE i \notin 1 .. p
    <3>1. i - p \in 1 .. (r - p) /\ p + (i - p) = i
      BY <1>8, <2>2
    <3>2. QED
      BY <1>7, <1>8, <3>1
  <2>3. QED
    BY <2>1, <2>2
<1>10. ab = c
  <2>1. Len(ab) = r
    BY <1>7, <1>8
  <2>2. QED
    BY <1>4, <1>7, <1>8, <1>9, <2>1, SeqEqual
<1>11. QED
  BY <1>10 DEF ab, a, b, c

LEMMA StretchAll ==
  ASSUME NEW E, NEW s \in Seq(E), NEW q \in Nat
  PROVE  /\ Stretch(s, 0, 0) = <<>>
         /\ Len(s) <= q => Stretch(s, 0, q) = s
<1>1. Len(s) \in Nat
  BY LenProperties
<1>2. Least(0, Len(s)) = 0 /\ (Len(s) <= q => Least(q, Len(s)) = Len(s)) /\ 0 + 1 = 1
  BY <1>1 DEF Least
<1>3. SubSeq(s, 1, 0) = <<>>
  BY SubSeqEmpty
<1>4. SubSeq(s, 1, Len(s)) = s
  BY SubSeqFull
<1>5. QED
  BY <1>2, <1>3, <1>4 DEF Stretch

(* What is left after p is on the stretch, or left after q. *)
LEMMA StretchOccurs ==
  ASSUME NEW E, NEW s \in Seq(E), NEW p \in Nat, NEW q \in Nat, NEW x
  PROVE  /\ Occurs(x, Stretch(s, p, q)) => OccursAfter(x, s, p)
         /\ OccursAfter(x, s, p) => Occurs(x, Stretch(s, p, q)) \/ OccursAfter(x, s, q)
<1> DEFINE t == Stretch(s, p, q)
<1>1. /\ \A i \in 1 .. Len(t) : p + i \in 1 .. Len(s) /\ p + i <= q /\ t[i] = s[p + i]
      /\ \A j \in 1 .. Len(s) : p < j /\ j <= q => j - p \in 1 .. Len(t)
  BY StretchIs
<1>2. Len(t) \in Nat /\ Len(s) \in Nat
  <2>1. t \in Seq(E)
    BY StretchIs
  <2>2. QED
    BY <2>1, LenProperties
<1> HIDE DEF t
<1>3. ASSUME NEW i \in 1 .. Len(t), t[i] = x PROVE OccursAfter(x, s, p)
  <2>1. p + i \in 1 .. Len(s) /\ p < p + i /\ s[p + i] = x
    BY <1>1, <1>2, <1>3
  <2>2. QED
    BY <2>1 DEF OccursAfter
<1>4. ASSUME NEW j \in 1 .. Len(s), p < j, s[j] = x, ~ OccursAfter(x, s, q)
      PROVE  Occurs(x, t)
  <2>1. ~ (q < j)
    BY <1>4 DEF OccursAfter
  <2>2. j <= q /\ p + (j - p) = j
    BY <1>2, <2>1
  <2>3. j - p \in 1 .. Len(t)
    BY <1>1, <1>4, <2>2
  <2>4. t[j - p] = s[j]
    BY <1>1, <2>2, <2>3
  <2>5. QED
    BY <1>4, <2>3, <2>4 DEF Occurs
<1>5. QED
  BY <1>3, <1>4 DEF Occurs, OccursAfter, t

LEMMA AfterIsIn ==
  ASSUME NEW s, NEW p, NEW x, OccursAfter(x, s, p)
  PROVE  Occurs(x, s)
BY DEF OccursAfter, Occurs

LEMMA AfterNothing ==
  ASSUME NEW E, NEW s \in Seq(E), NEW x, Occurs(x, s)
  PROVE  OccursAfter(x, s, 0)
<1>1. \A i \in 1 .. Len(s) : 0 < i
  BY LenProperties
<1>2. QED
  BY <1>1 DEF Occurs, OccursAfter

LEMMA AfterLess ==
  ASSUME NEW E, NEW s \in Seq(E), NEW p \in Nat, NEW q \in Nat, p <= q,
         NEW x, OccursAfter(x, s, q)
  PROVE  OccursAfter(x, s, p)
<1>1. \A i \in 1 .. Len(s) : q < i => p < i
  BY LenProperties
<1>2. QED
  BY <1>1 DEF OccursAfter

LEMMA AfterAll ==
  ASSUME NEW E, NEW s \in Seq(E), NEW q \in Nat, Len(s) <= q, NEW x
  PROVE  ~ OccursAfter(x, s, q)
<1>1. \A i \in 1 .. Len(s) : ~ (q < i)
  BY LenProperties
<1>2. QED
  BY <1>1 DEF OccursAfter

(* An item put in, and one taken out, position by position. *)
Inserted(l, s, i, e) ==
  /\ Len(l) = Len(s) + 1 /\ l[i] = e
  /\ \A j \in 1 .. Len(s) : l[j] = s[j] \/ l[j + 1] = s[j]
  /\ \A j \in 1 .. Len(l) : j = i \/ (j < i /\ j \in 1 .. Len(s) /\ l[j] = s[j])
                                  \/ (i < j /\ j - 1 \in 1 .. Len(s) /\ l[j] = s[j - 1])

Removed(l, s, i) ==
  /\ Len(l) = Len(s) - 1
  /\ \A j \in 1 .. Len(l) : \/ j < i /\ l[j] = s[j]
                            \/ i <= j /\ j + 1 \in 1 .. Len(s) /\ l[j] = s[j + 1]

(* The two ends of a sequence, cut before and after a position. *)
LEMMA Ends ==
  ASSUME NEW E, NEW s \in Seq(E), NEW i \in Nat, NEW k \in Nat, 1 <= i, i <= k, k <= Len(s) + 1
  PROVE  /\ SubSeq(s, 1, i - 1) \in Seq(E) /\ Len(SubSeq(s, 1, i - 1)) = i - 1
         /\ \A j \in 1 .. (i - 1) : SubSeq(s, 1, i - 1)[j] = s[j]
         /\ SubSeq(s, k, Len(s)) \in Seq(E) /\ Len(SubSeq(s, k, Len(s))) = (Len(s) + 1) - k
         /\ \A j \in 1 .. ((Len(s) + 1) - k) : SubSeq(s, k, Len(s))[j] = s[(k - 1) + j]
<1> DEFINE n == Len(s)
           a == SubSeq(s, 1, i - 1)
           b == SubSeq(s, k, n)
<1>1. n \in Nat /\ k <= n + 1
  BY LenProperties
<1>2. (\A j \in 1 .. (i - 1) : s[j] \in E) /\ (\A j \in k .. n : s[j] \in E)
  <2>1. \A j \in 1 .. n : s[j] \in E
    BY ElementOfSeq
  <2> HIDE DEF n
  <2>2. \A j \in 1 .. (i - 1) : j \in 1 .. n
    BY <1>1
  <2>3. \A j \in k .. n : j \in 1 .. n
    BY <1>1
  <2>4. QED
    BY <2>1, <2>2, <2>3
<1>3. /\ a \in Seq(E) /\ Len(a) = IF 1 <= i - 1 THEN (i - 1) - 1 + 1 ELSE 0
      /\ \A j \in 1 .. (i - 1) - 1 + 1 : a[j] = s[1 + j - 1]
  <2>1. i - 1 \in Int /\ 1 \in Int
    OBVIOUS
  <2>2. QED
    BY <1>2, <2>1, SubSeqProperties
<1>4. /\ b \in Seq(E) /\ Len(b) = IF k <= n THEN n - k + 1 ELSE 0
      /\ \A j \in 1 .. n - k + 1 : b[j] = s[k + j - 1]
  BY <1>1, <1>2, SubSeqProperties
<1> HIDE DEF a, b, n
<1>5. Len(a) = i - 1 /\ \A j \in 1 .. (i - 1) : a[j] = s[j]
  <2>1. ASSUME NEW j \in 1 .. (i - 1) PROVE j \in 1 .. (i - 1) - 1 + 1 /\ 1 + j - 1 = j
    OBVIOUS
  <2>2. QED
    BY <1>3, <2>1
<1>6. Len(b) = (n + 1) - k /\ \A j \in 1 .. ((n + 1) - k) : b[j] = s[(k - 1) + j]
  <2>1. ASSUME NEW j \in 1 .. ((n + 1) - k)
        PROVE  j \in 1 .. n - k + 1 /\ k + j - 1 = (k - 1) + j
    BY <1>1
  <2>2. QED
    BY <1>1, <1>4, <2>1
<1>7. QED
  BY <1>3, <1>4, <1>5, <1>6 DEF a, b, n

LEMMA InsertIs ==
  ASSUME NEW E, NEW s \in Seq(E), NEW e \in E, NEW i \in 1 .. (Len(s) + 1)
  PROVE  InsertAt(s, i, e) \in Seq(E) /\ Inserted(InsertAt(s, i, e), s, i, e)
<1> DEFINE n == Len(s)
           a == SubSeq(s, 1, i - 1)
           m == <<e>>
           b == SubSeq(s, i, n)
           am == a \o m
           l == am \o b
<1>0. n \in Nat /\ i \in Nat /\ 1 <= i /\ i <= n + 1
  BY LenProperties
<1>1. /\ a \in Seq(E) /\ Len(a) = i - 1
      /\ \A j \in 1 .. (i - 1) : a[j] = s[j]
      /\ b \in Seq(E) /\ Len(b) = (n + 1) - i
      /\ \A j \in 1 .. ((n + 1) - i) : b[j] = s[(i - 1) + j]
  BY <1>0, Ends
<1>2. m \in Seq(E) /\ Len(m) = 1 /\ m[1] = e
  BY OneElement
<1>3. Joins(am, a, m, E)
  BY <1>1, <1>2, ConcatAt
<1>4. am \in Seq(E)
  BY <1>3 DEF Joins
<1>5. Joins(l, am, b, E)
  BY <1>1, <1>4, ConcatAt
<1> HIDE DEF a, m, b, am, l, n
<1>6. /\ Len(am) = i /\ am[i] = e
      /\ \A j \in 1 .. (i - 1) : am[j] = s[j]
  <2>1. /\ Len(am) = (i - 1) + 1 /\ am[(i - 1) + 1] = e
        /\ \A j \in 1 .. (i - 1) : am[j] = s[j]
    <3>1. 1 \in 1 .. 1
      OBVIOUS
    <3>2. QED
      BY <1>1, <1>2, <1>3, <3>1 DEF Joins
  <2>2. (i - 1) + 1 = i
    BY <1>0
  <2>3. QED
    BY <2>1, <2>2
<1>7. /\ l \in Seq(E) /\ Len(l) = i + ((n + 1) - i)
      /\ \A j \in 1 .. i : l[j] = am[j]
      /\ \A j \in 1 .. ((n + 1) - i) : l[i + j] = s[(i - 1) + j]
  BY <1>1, <1>5, <1>6 DEF Joins
<1>8. Len(l) = n + 1 /\ l[i] = e /\ \A j \in 1 .. (i - 1) : l[j] = s[j]
  BY <1>0, <1>6, <1>7
<1>9. ASSUME NEW j \in i .. n PROVE l[j + 1] = s[j]
  <2>1. (j + 1) - i \in 1 .. ((n + 1) - i) /\ i + ((j + 1) - i) = j + 1 /\ (i - 1) + ((j + 1) - i) = j
    BY <1>0
  <2>2. QED
    BY <1>7, <2>1
<1>10. ASSUME NEW j \in 1 .. n PROVE l[j] = s[j] \/ l[j + 1] = s[j]
  <2>1. j \in 1 .. (i - 1) \/ j \in i .. n
    BY <1>0
  <2>2. QED
    BY <1>8, <1>9, <2>1
<1>11. ASSUME NEW j \in 1 .. Len(l)
       PROVE  j = i \/ (j < i /\ j \in 1 .. n /\ l[j] = s[j])
                    \/ (i < j /\ j - 1 \in 1 .. n /\ l[j] = s[j - 1])
  <2>1. CASE j < i
    <3>1. j \in 1 .. n /\ j \in 1 .. (i - 1)
      BY <1>0, <1>8, <2>1
    <3>2. QED
      BY <1>8, <2>1, <3>1
  <2>2. CASE i < j
    <3>1. j - 1 \in i .. n /\ j - 1 \in 1 .. n /\ (j - 1) + 1 = j
      BY <1>0, <1>8, <2>2
    <3>2. QED
      BY <1>9, <2>2, <3>1
  <2>3. QED
    BY <1>0, <1>8, <2>1, <2>2
<1>12. QED
  BY <1>7, <1>8, <1>10, <1>11 DEF Inserted, InsertAt, l, am, a, m, b, n

LEMMA RemoveIs ==
  ASSUME NEW E, NEW s \in Seq(E), NEW i \in 1 .. Len(s)
  PROVE  RemoveAt(s, i) \in Seq(E) /\ Removed(RemoveAt(s, i), s, i)
<1> DEFINE n == Len(s)
           a == SubSeq(s, 1, i - 1)
           b == SubSeq(s, i + 1, n)
           l == a \o b
<1>0. n \in Nat /\ i \in Nat /\ 1 <= i /\ i <= n
  BY LenProperties
<1>1. /\ a \in Seq(E) /\ Len(a) = i - 1
      /\ \A j \in 1 .. (i - 1) : a[j] = s[j]
      /\ b \in Seq(E) /\ Len(b) = (n + 1) - (i + 1)
      /\ \A j \in 1 .. ((n + 1) - (i + 1)) : b[j] = s[((i + 1) - 1) + j]
  <2>1. i + 1 \in Nat /\ i <= i + 1 /\ i + 1 <= n + 1
    BY <1>0
  <2>2. QED
    BY <1>0, <2>1, Ends
<1>2. Joins(l, a, b, E)
  BY <1>1, ConcatAt
<1> HIDE DEF a, b, l, n
<1>3. (n + 1) - (i + 1) = n - i /\ (i + 1) - 1 = i
  BY <1>0
<1>4. /\ l \in Seq(E) /\ Len(l) = (i - 1) + (n - i)
      /\ \A j \in 1 .. (i - 1) : l[j] = s[j]
      /\ \A j \in 1 .. (n - i) : l[(i - 1) + j] = s[i + j]
  BY <1>1, <1>2, <1>3 DEF Joins
<1>5. ASSUME NEW j \in 1 .. Len(l)
      PROVE  \/ j < i /\ l[j] = s[j]
             \/ i <= j /\ j + 1 \in 1 .. n /\ l[j] = s[j + 1]
  <2>1. CASE j < i
    <3>1. j \in 1 .. (i - 1)
      BY <1>0, <1>4, <2>1
    <3>2. QED
      BY <1>4, <2>1, <3>1
  <2>2. CASE i <= j
    <3>1. /\ (j + 1) - i \in 1 .. (n - i) /\ (i - 1) + ((j + 1) - i) = j
          /\ i + ((j + 1) - i) = j + 1 /\ j + 1 \in 1 .. n
      BY <1>0, <1>4, <2>2
    <3>2. QED
      BY <1>4, <2>2, <3>1
  <2>3. QED
    BY <1>0, <1>4, <2>1, <2>2
<1>6. Len(l) = n - 1
  BY <1>0, <1>4
<1>7. QED
  BY <1>4, <1>5, <1>6 DEF Removed, RemoveAt, l, a, b, n

(* What an item more or less leaves where it was, or moves on. *)
LEMMA InsertedOccurs ==
  ASSUME NEW E, NEW s \in Seq(E), NEW l, NEW i \in Nat, NEW e, Inserted(l, s, i, e), NEW x
  PROVE  /\ Occurs(x, l) => Occurs(x, s) \/ x = e
         /\ \A p \in Nat : OccursAfter(x, s, p) => OccursAfter(x, l, p)
<1>1. Len(s) \in Nat /\ Len(l) = Len(s) + 1 /\ l[i] = e
  BY LenProperties DEF Inserted
<1>2. Occurs(x, l) => Occurs(x, s) \/ x = e
  BY <1>1 DEF Inserted, Occurs
<1>3. ASSUME NEW p \in Nat, NEW j \in 1 .. Len(s), p < j, s[j] = x
      PROVE  OccursAfter(x, l, p)
  <2>1. /\ j \in 1 .. Len(l) /\ j + 1 \in 1 .. Len(l) /\ p < j + 1
        /\ l[j] = s[j] \/ l[j + 1] = s[j]
    BY <1>1, <1>3 DEF Inserted
  <2>2. QED
    BY <1>3, <2>1 DEF OccursAfter
<1>4. QED
  BY <1>2, <1>3 DEF OccursAfter

LEMMA RemovedOccurs ==
  ASSUME NEW E, NEW s \in Seq(E), NEW l, NEW i \in 1 .. Len(s), Removed(l, s, i), NEW x
  PROVE  /\ Occurs(x, l) => Occurs(x, s)
         /\ \A p \in Nat : OccursAfter(x, l, p) => OccursAfter(x, s, p)
<1>1. Len(s) \in Nat /\ Len(l) = Len(s) - 1
  BY LenProperties DEF Removed
<1>2. ASSUME NEW j \in 1 .. Len(l)
      PROVE  \E k \in 1 .. Len(s) : j <= k /\ l[j] = s[k]
  <2>1. j \in 1 .. Len(s) /\ j <= j /\ j <= j + 1
    BY <1>1
  <2>2. QED
    BY <2>1 DEF Removed
<1>3. ASSUME NEW p \in Nat, NEW j \in 1 .. Len(l), p < j, l[j] = x
      PROVE  OccursAfter(x, s, p)
  <2>1. PICK k \in 1 .. Len(s) : j <= k /\ l[j] = s[k]
    BY <1>2
  <2>2. p < k /\ s[k] = x
    BY <1>1, <1>3, <2>1
  <2>3. QED
    BY <2>2 DEF OccursAfter
<1>4. QED
  BY <1>2, <1>3 DEF Occurs, OccursAfter

-----------------------------------------------------------------------------
(* A list in the order its items were made.                                *)
Earlier(item, other) == item.id < other.id
Rising(s) == \A i, j \in 1 .. Len(s) : i < j => Earlier(s[i], s[j])

LEMMA RisingBoth ==
  ASSUME NEW E, NEW s \in Seq(E), NEW t \in Seq(E), Rising(s), Rising(t),
         \A x, y : Occurs(x, s) /\ Occurs(y, t) => Earlier(x, y)
  PROVE  Rising(Both(s, t))
<1> DEFINE b == Both(s, t)
           m == Len(s)
           n == Len(t)
<1>1. Joins(b, s, t, E)
  BY ConcatAt DEF Both
<1>2. /\ m \in Nat /\ n \in Nat /\ Len(b) = m + n
      /\ \A i \in 1 .. m : b[i] = s[i]
      /\ \A i \in 1 .. n : b[m + i] = t[i]
  BY <1>1, LenProperties DEF Joins
<1>3. /\ \A i \in 1 .. m : Occurs(s[i], s)
      /\ \A i \in 1 .. n : Occurs(t[i], t)
  BY DEF Occurs
<1>4. /\ \A i, j \in 1 .. m : i < j => Earlier(s[i], s[j])
      /\ \A i, j \in 1 .. n : i < j => Earlier(t[i], t[j])
  BY DEF Rising
<1> HIDE DEF b, m, n
<1>5. ASSUME NEW i \in 1 .. Len(b), NEW j \in 1 .. Len(b), i < j
      PROVE  Earlier(b[i], b[j])
  <2>1. CASE j \in 1 .. m
    <3>1. i \in 1 .. m
      BY <1>2, <1>5, <2>1
    <3>2. QED
      BY <1>2, <1>4, <1>5, <2>1, <3>1
  <2>2. CASE j \notin 1 .. m
    <3>1. PICK l \in 1 .. n : j = m + l
      <4>1. j - m \in 1 .. n /\ j = m + (j - m)
        BY <1>2, <2>2
      <4>2. QED
        BY <4>1
    <3>2. b[j] = t[l]
      BY <1>2, <3>1
    <3>3. CASE i \in 1 .. m
      BY <1>2, <1>3, <3>2, <3>3
    <3>4. CASE i \notin 1 .. m
      <4>1. PICK k \in 1 .. n : i = m + k
        <5>1. i - m \in 1 .. n /\ i = m + (i - m)
          BY <1>2, <3>4
        <5>2. QED
          BY <5>1
      <4>2. b[i] = t[k] /\ k < l
        BY <1>2, <1>5, <3>1, <4>1
      <4>3. QED
        BY <1>4, <3>2, <4>2
    <3>5. QED
      BY <3>3, <3>4
  <2>3. QED
    BY <2>1, <2>2
<1>6. QED
  BY <1>5 DEF Rising, b

(* A stretch of such a list, and what is left after it. *)
LEMMA RisingStretch ==
  ASSUME NEW E, NEW s \in Seq(E), NEW p \in Nat, NEW q \in Nat, Rising(s)
  PROVE  /\ Rising(Stretch(s, p, q))
         /\ \A x, y : Occurs(x, Stretch(s, p, q)) /\ OccursAfter(y, s, q) => Earlier(x, y)
<1> DEFINE t == Stretch(s, p, q)
<1>1. /\ \A i \in 1 .. Len(t) : p + i \in 1 .. Len(s) /\ p + i <= q /\ t[i] = s[p + i]
      /\ t \in Seq(E)
  BY StretchIs
<1>2. Len(t) \in Nat /\ Len(s) \in Nat
  BY <1>1, LenProperties
<1>3. \A i, j \in 1 .. Len(s) : i < j => Earlier(s[i], s[j])
  BY DEF Rising
<1> HIDE DEF t
<1>4. ASSUME NEW i \in 1 .. Len(t), NEW j \in 1 .. Len(t), i < j
      PROVE  Earlier(t[i], t[j])
  <2>1. p + i < p + j
    BY <1>2, <1>4
  <2>2. QED
    BY <1>1, <1>3, <2>1
<1>5. ASSUME NEW x, NEW y, Occurs(x, t), OccursAfter(y, s, q)
      PROVE  Earlier(x, y)
  <2>1. PICK i \in 1 .. Len(t) : t[i] = x
    BY <1>5 DEF Occurs
  <2>2. PICK j \in 1 .. Len(s) : q < j /\ s[j] = y
    BY <1>5 DEF OccursAfter
  <2>3. p + i \in 1 .. Len(s) /\ s[p + i] = x /\ p + i < j
    BY <1>1, <1>2, <2>1, <2>2
  <2>4. QED
    BY <1>3, <2>2, <2>3
<1>6. QED
  BY <1>4, <1>5 DEF Rising, t

LEMMA RisingInserted ==
  ASSUME NEW E, NEW s \in Seq(E), NEW l, NEW e, Rising(s), Inserted(l, s, Len(s) + 1, e),
         \A x : Occurs(x, s) => Earlier(x, e)
  PROVE  Rising(l)
<1> DEFINE n == Len(s)
<1>1. /\ n \in Nat /\ Len(l) = n + 1 /\ l[n + 1] = e
      /\ \A j \in 1 .. Len(l) : j = n + 1 \/ (j < n + 1 /\ j \in 1 .. n /\ l[j] = s[j])
                                \/ (n + 1 < j /\ j - 1 \in 1 .. n /\ l[j] = s[j - 1])
  BY LenProperties DEF Inserted
<1>2. \A i, j \in 1 .. n : i < j => Earlier(s[i], s[j])
  BY DEF Rising
<1>3. \A i \in 1 .. n : Earlier(s[i], e)
  BY DEF Occurs
<1> HIDE DEF n
<1>4. ASSUME NEW j \in 1 .. Len(l), j # n + 1 PROVE j \in 1 .. n /\ l[j] = s[j]
  <2>1. ~ (n + 1 < j)
    BY <1>1
  <2>2. QED
    BY <1>1, <1>4, <2>1
<1>5. ASSUME NEW i \in 1 .. Len(l), NEW j \in 1 .. Len(l), i < j
      PROVE  Earlier(l[i], l[j])
  <2>1. i # n + 1
    BY <1>1, <1>5
  <2>2. i \in 1 .. n /\ l[i] = s[i]
    BY <1>4, <2>1
  <2>3. CASE j = n + 1
    BY <1>1, <1>3, <2>2, <2>3
  <2>4. CASE j # n + 1
    <3>1. j \in 1 .. n /\ l[j] = s[j]
      BY <1>4, <2>4
    <3>2. QED
      BY <1>2, <1>5, <2>2, <3>1
  <2>5. QED
    BY <2>3, <2>4
<1>6. QED
  BY <1>5 DEF Rising

LEMMA RisingRemoved ==
  ASSUME NEW E, NEW s \in Seq(E), NEW l, NEW i \in 1 .. Len(s), Rising(s), Removed(l, s, i)
  PROVE  Rising(l)
<1> DEFINE n == Len(s)
<1>1. /\ n \in Nat /\ i \in Nat /\ Len(l) = n - 1
      /\ \A j \in 1 .. Len(l) : \/ j < i /\ l[j] = s[j]
                                \/ i <= j /\ j + 1 \in 1 .. n /\ l[j] = s[j + 1]
  BY LenProperties DEF Removed
<1>2. \A j, k \in 1 .. n : j < k => Earlier(s[j], s[k])
  BY DEF Rising
<1> HIDE DEF n
<1>3. ASSUME NEW j \in 1 .. Len(l), NEW k \in 1 .. Len(l), j < k
      PROVE  Earlier(l[j], l[k])
  <2>1. j \in 1 .. n /\ k \in 1 .. n /\ j < k + 1 /\ j + 1 < k + 1
    BY <1>1, <1>3
  <2>2. CASE k < i
    <3>1. j < i /\ ~ (i <= j) /\ ~ (i <= k)
      BY <1>1, <1>3, <2>2
    <3>2. QED
      BY <1>1, <1>2, <1>3, <2>1, <3>1
  <2>3. CASE ~ (k < i)
    <3>1. k + 1 \in 1 .. n /\ l[k] = s[k + 1]
      BY <1>1, <2>3
    <3>2. CASE l[j] = s[j]
      BY <1>2, <2>1, <3>1, <3>2
    <3>3. CASE j + 1 \in 1 .. n /\ l[j] = s[j + 1]
      BY <1>2, <2>1, <3>1, <3>3
    <3>4. QED
      BY <1>1, <3>2, <3>3
  <2>4. QED
    BY <2>2, <2>3
<1>4. QED
  BY <1>3 DEF Rising

(* Such a list has as many numbers as items. *)
LEMMA NumbersDiffer ==
  ASSUME NEW s \in Seq(Item), Rising(s)
  PROVE  Cardinality(Numbers(s)) = Len(s)
<1> DEFINE n == Len(s)
           f == [i \in 1 .. n |-> s[i].id]
           S == Numbers(s)
<1>1. n \in Nat /\ DOMAIN s = 1 .. n
  BY LenProperties
<1>2. \A i \in 1 .. n : s[i].id \in Int
  <2>1. \A i \in 1 .. n : s[i] \in Item
    BY ElementOfSeq
  <2>2. QED
    BY <2>1, WalkAssumption DEF Item
<1>3. \A i, j \in 1 .. n : i < j => s[i].id < s[j].id
  BY DEF Rising, Earlier
<1>4. ASSUME NEW i \in 1 .. n, NEW j \in 1 .. n, s[i].id = s[j].id PROVE i = j
  <2>1. ~ (i < j) /\ ~ (j < i)
    BY <1>2, <1>3, <1>4
  <2>2. QED
    BY <1>1, <2>1
<1>5. f \in Bijection(1 .. n, S)
  <2>1. S = {s[i].id : i \in 1 .. n}
    BY <1>1 DEF Numbers
  <2>2. f \in [1 .. n -> S] /\ \A x \in S : \E i \in 1 .. n : f[i] = x
    BY <2>1
  <2>3. \A i, j \in 1 .. n : f[i] = f[j] => i = j
    BY <1>4
  <2>4. DOMAIN f = 1 .. n
    OBVIOUS
  <2> HIDE DEF f, S, n
  <2>5. f \in Injection(1 .. n, S)
    BY <2>2, <2>3, <2>4 DEF Injection, IsInjective
  <2>6. f \in Surjection(1 .. n, S)
    BY <2>2 DEF Surjection
  <2>7. QED
    BY <2>5, <2>6 DEF Bijection
<1> HIDE DEF f, S, n
<1>6. ExistsBijection(1 .. n, S)
  BY <1>5 DEF ExistsBijection
<1>7. Cardinality(S) = n
  BY <1>1, <1>6, FS_CountingElements
<1>8. QED
  BY <1>7 DEF S, n

-----------------------------------------------------------------------------
(* The links of a page: LinksComeThrough brings GitHub's to the rewriting, *)
(* which leaves their page and per_page.                                   *)
LEMMA AddressIs ==
  ASSUME NEW page \in Nat, NEW size \in Nat
  PROVE  /\ Address(page, size) \in Seq(Token) /\ Len(Address(page, size)) = 5
         /\ Address(page, size)[1] = Mark("other") /\ Address(page, size)[2] = Mark(",")
         /\ Address(page, size)[3] = Mark("other")
         /\ Address(page, size)[4] = Param("per_page", size)
         /\ Address(page, size)[5] = Param("page", page)
<1>1. Mark("other") \in Token /\ Mark(",") \in Token
  BY MarkTyped
<1>2. Param("per_page", size) \in Token /\ Param("page", page) \in Token
  BY DEF Token, Param
<1> DEFINE a == Mark("other")
           b == Mark(",")
           c == Param("per_page", size)
           d == Param("page", page)
           u == <<a, b, a, c, d>>
<1> HIDE DEF a, b, c, d
<1>3. /\ u \in Seq(Token) /\ Len(u) = 5
      /\ u[1] = a /\ u[2] = b /\ u[3] = a /\ u[4] = c /\ u[5] = d
  <2>1. a \in Token /\ b \in Token /\ c \in Token /\ d \in Token
    BY <1>1, <1>2 DEF a, b, c, d
  <2>2. QED
    BY <2>1, FiveElements
<1>4. Address(page, size) = u
  BY DEF Address, a, b, c, d
<1>5. QED
  BY <1>3, <1>4 DEF a, b, c, d

LEMMA AddressTypes ==
  ASSUME NEW page \in Nat, NEW size \in Nat
  PROVE  LET u == Address(page, size)
         IN  /\ u[1].type = "other" /\ u[2].type = "," /\ u[3].type = "other"
             /\ u[4].type = "per_page" /\ u[5].type = "page"
<1> DEFINE u == Address(page, size)
           a == Mark("other")
           b == Mark(",")
           c == Param("per_page", size)
           d == Param("page", page)
<1>1. a.type = "other" /\ b.type = "," /\ c.type = "per_page" /\ d.type = "page"
  BY DEF Mark, Param
<1>2. u[1] = a /\ u[2] = b /\ u[3] = a /\ u[4] = c /\ u[5] = d
  BY AddressIs
<1> HIDE DEF u, a, b, c, d
<1>3. /\ u[1].type = "other" /\ u[2].type = "," /\ u[3].type = "other"
      /\ u[4].type = "per_page" /\ u[5].type = "page"
  BY <1>1, <1>2
<1>4. QED
  BY <1>3 DEF u

LEMMA OneToFive == \A i \in 1 .. 5 : i = 1 \/ i = 2 \/ i = 3 \/ i = 4 \/ i = 5
OBVIOUS

LEMMA AddressTyped ==
  ASSUME NEW page \in Nat, NEW size \in Nat
  PROVE  Address(page, size) \in Url
<1> DEFINE u == Address(page, size)
<1>1. u \in Seq(Token) /\ Len(u) = 5
  BY AddressIs
<1>2. u # <<>>
  BY <1>1, EmptySeq
<1>3. \A i \in 1 .. 5 : u[i].type \notin {"<", ">"}
  BY AddressTypes, OneToFive
<1> HIDE DEF u
<1>4. u \in Url
  BY <1>1, <1>2, <1>3 DEF Url
<1>5. QED
  BY <1>4 DEF u

(* What the query of an address says of page and per_page. *)
LEMMA QueryIs ==
  ASSUME NEW page \in Nat, NEW size \in Nat
  PROVE  LET query == QueryOf(Address(page, size), {"page", "per_page"})
         IN  /\ Or(query, "page", 1) = page
             /\ Or(query, "per_page", DefaultPerPage) = size
<1> DEFINE u == Address(page, size)
<1>1. /\ u \in Seq(Token) /\ Len(u) = 5
      /\ u[4] = Param("per_page", size) /\ u[5] = Param("page", page)
  BY AddressIs
<1>2. /\ u[1].type = "other" /\ u[2].type = "," /\ u[3].type = "other"
      /\ u[4].type = "per_page" /\ u[5].type = "page"
  BY AddressTypes
<1> HIDE DEF u
<1>3. First(u, "page") = 5
  <2>0. 5 \in 1 .. Len(u)
    BY <1>1
  <2>1. 5 \in 1 .. Len(u) /\ u[5].type = "page"
    BY <1>2, <2>0
  <2>2. ASSUME NEW j \in 1 .. Len(u), u[j].type = "page" PROVE 5 <= j
    <3>1. j = 1 \/ j = 2 \/ j = 3 \/ j = 4 \/ j = 5
      BY <1>1, OneToFive
    <3>2. j = 4 \/ j = 5
      BY <1>2, <2>2, <3>1
    <3>3. j = 5 \/ 5 <= j
      BY <1>2, <2>2, <3>2
    <3>4. QED
      BY <3>3
  <2>3. QED
    BY <1>1, <2>1, <2>2, FirstIs
<1>4. First(u, "per_page") = 4
  <2>0. 4 \in 1 .. Len(u)
    BY <1>1
  <2>1. 4 \in 1 .. Len(u) /\ u[4].type = "per_page"
    BY <1>2, <2>0
  <2>2. ASSUME NEW j \in 1 .. Len(u), u[j].type = "per_page" PROVE 4 <= j
    <3>1. j = 1 \/ j = 2 \/ j = 3 \/ j = 4 \/ j = 5
      BY <1>1, OneToFive
    <3>2. j = 4 \/ j = 5
      BY <1>2, <2>2, <3>1
    <3>3. j = 4 \/ 4 <= j
      BY <1>2, <2>2, <3>2
    <3>4. QED
      BY <3>3
  <2>3. QED
    BY <1>1, <2>1, <2>2, FirstIs
<1>5. u[5].value = page /\ u[4].value = size
  <2>1. Param("page", page).value = page /\ Param("per_page", size).value = size
    BY DEF Param
  <2>2. QED
    BY <1>1, <2>1
<1> DEFINE query == QueryOf(u, {"page", "per_page"})
           keys == {k \in {"page", "per_page"} : First(u, k) # 0}
<1>6. query = [key \in keys |-> u[First(u, key)].value]
  BY DEF QueryOf
<1>7. "page" \in keys /\ "per_page" \in keys
  BY <1>3, <1>4
<1> HIDE DEF query, keys
<1>8. /\ "page" \in DOMAIN query /\ query["page"] = u[First(u, "page")].value
      /\ "per_page" \in DOMAIN query /\ query["per_page"] = u[First(u, "per_page")].value
  BY <1>6, <1>7
<1>9. query["page"] = page /\ query["per_page"] = size
  BY <1>3, <1>4, <1>5, <1>8
<1>10. QED
  BY <1>8, <1>9 DEF Or, query, u

LEMMA NeighboursAre ==
  ASSUME NEW page \in Nat \ {0}, NEW size \in Nat, NEW more \in BOOLEAN
  PROVE  LET ns == Neighbours(page, size, more)
         IN  /\ ns \in Seq(ALink) /\ Distinct(ns)
             /\ \A i \in 1 .. Len(ns) :
                  ns[i].rel = "next" => more /\ ns[i].url = Address(page + 1, size)
             /\ more => \E i \in 1 .. Len(ns) : ns[i].rel = "next"
<1> DEFINE ns == Neighbours(page, size, more)
           before == [rel |-> "prev", url |-> Address(page - 1, size)]
           after == [rel |-> "next", url |-> Address(page + 1, size)]
<1>1. before \in ALink /\ after \in ALink
  <2>1. page - 1 \in Nat /\ page + 1 \in Nat
    OBVIOUS
  <2>2. Address(page - 1, size) \in Url /\ Address(page + 1, size) \in Url
    BY <2>1, AddressTyped
  <2>3. \A rel \in RelName, u \in Url : [rel |-> rel, url |-> u] \in ALink
    BY DEF ALink
  <2>4. "prev" \in RelName /\ "next" \in RelName
    BY DEF RelName
  <2>5. QED
    BY <2>2, <2>3, <2>4, Zenon
<1>2. before.rel = "prev" /\ after.rel = "next" /\ after.url = Address(page + 1, size)
  OBVIOUS
<1>3. ns = (IF page > 1 THEN <<before>> ELSE <<>>) \o (IF more THEN <<after>> ELSE <<>>)
  BY DEF Neighbours
<1> HIDE DEF ns, before, after
<1>4. /\ <<before>> \in Seq(ALink) /\ <<after>> \in Seq(ALink)
      /\ Len(<<before>>) = 1 /\ <<before>>[1] = before
      /\ Len(<<after>>) = 1 /\ <<after>>[1] = after
  BY <1>1, OneElement
<1>5. <<before>> \o <<>> = <<before>> /\ <<>> \o <<after>> = <<after>>
  BY <1>4, ConcatEmptySeq
<1>6. /\ <<before>> \o <<after>> \in Seq(ALink)
      /\ Len(<<before>> \o <<after>>) = 2
      /\ (<<before>> \o <<after>>)[1] = before /\ (<<before>> \o <<after>>)[2] = after
  <2>1. Joins(<<before>> \o <<after>>, <<before>>, <<after>>, ALink)
    BY <1>4, ConcatAt
  <2>2. 1 \in 1 .. 1 /\ 1 + 1 = 2
    OBVIOUS
  <2>3. QED
    BY <1>4, <2>1, <2>2 DEF Joins
<1>7. \/ ns = <<>> /\ ~ more
      \/ ns = <<before>> /\ ~ more
      \/ ns = <<after>> /\ more
      \/ ns = <<before>> \o <<after>> /\ more
  <2>1. <<>> \o <<>> = <<>>
    BY EmptySeq, ConcatEmptySeq
  <2>2. QED
    BY <1>3, <1>5, <2>1
<1>8. \/ ns \in Seq(ALink) /\ Len(ns) = 0 /\ ~ more
      \/ ns \in Seq(ALink) /\ Len(ns) = 1 /\ ns[1] = before /\ ~ more
      \/ ns \in Seq(ALink) /\ Len(ns) = 1 /\ ns[1] = after /\ more
      \/ ns \in Seq(ALink) /\ Len(ns) = 2 /\ ns[1] = before /\ ns[2] = after /\ more
  BY <1>4, <1>6, <1>7, EmptySeq
<1>9. ns \in Seq(ALink)
  BY <1>8
<1>10. /\ \A i \in 1 .. 0 : FALSE
       /\ \A i \in 1 .. 1 : i = 1
       /\ \A i \in 1 .. 2 : i = 1 \/ i = 2
       /\ 1 \in 1 .. 1 /\ 2 \in 1 .. 2
  OBVIOUS
<1>11. ~ Names(before, after) /\ ~ Names(after, before)
  BY <1>2 DEF Names
<1>12. Distinct(ns)
  BY <1>8, <1>10, <1>11 DEF Distinct
<1>13. \A i \in 1 .. Len(ns) : ns[i].rel = "next" => more /\ ns[i].url = Address(page + 1, size)
  <2>1. \A i \in 1 .. Len(ns) : ns[i] = before \/ (ns[i] = after /\ more)
    BY <1>8, <1>10
  <2>2. QED
    BY <1>2, <2>1
<1>14. more => \E i \in 1 .. Len(ns) : ns[i].rel = "next"
  <2>1. more => \E i \in 1 .. Len(ns) : ns[i] = after
    BY <1>8, <1>10
  <2>2. QED
    BY <1>2, <2>1
<1>15. QED
  BY <1>9, <1>12, <1>13, <1>14 DEF ns

(* The links a caller gets: a next one exactly when there is more, and it  *)
(* names the next page of the same size.                                   *)
Onward(links, page, size, more) ==
  LET nexts == {i \in DOMAIN links : links[i].rel = "next"}
      query == links[CHOOSE i \in nexts : TRUE].query
  IN  /\ nexts = {} <=> ~ more
      /\ more => /\ Or(query, "page", 1) = page + 1
                 /\ Or(query, "per_page", DefaultPerPage) = size

LEMMA ForwardedIs ==
  ASSUME NEW page \in 1 .. MaxItems, NEW size \in 1 .. MaxPerPage, NEW more \in BOOLEAN
  PROVE  Onward(Forwarded[page][size][more], page, size, more)
<1> DEFINE ns == Neighbours(page, size, more)
           keys == {"page", "per_page"}
           links == Forwarded[page][size][more]
<1>1. page \in Nat \ {0} /\ size \in Nat /\ page + 1 \in Nat
  BY WalkAssumption
<1>2. /\ ns \in Seq(ALink) /\ Distinct(ns)
      /\ \A i \in 1 .. Len(ns) :
           ns[i].rel = "next" => more /\ ns[i].url = Address(page + 1, size)
      /\ more => \E i \in 1 .. Len(ns) : ns[i].rel = "next"
  BY <1>1, NeighboursAre
<1>3. links = RewriteLinkHeader(LinkHeader(ns))
  BY DEF Forwarded
<1> HIDE DEF links, ns
<1>4. ParseLinkHeader(LinkHeader(ns)) = ns
  BY <1>2, LinksComeThrough
<1>5. links = [i \in DOMAIN ns |-> [rel |-> ns[i].rel, query |-> QueryOf(ns[i].url, keys)]]
  BY <1>3, <1>4 DEF RewriteLinkHeader, Rewritten
<1>6. DOMAIN ns = 1 .. Len(ns)
  BY <1>2, LenProperties
<1>7. /\ DOMAIN links = 1 .. Len(ns)
      /\ \A i \in 1 .. Len(ns) : links[i].rel = ns[i].rel
      /\ \A i \in 1 .. Len(ns) : links[i].query = QueryOf(ns[i].url, keys)
  <2> HIDE DEF keys
  <2>1. QED
    BY <1>5, <1>6
<1> DEFINE nexts == {i \in DOMAIN links : links[i].rel = "next"}
           k == CHOOSE i \in nexts : TRUE
<1>8. nexts = {} <=> ~ more
  BY <1>2, <1>7
<1>9. ASSUME more
      PROVE  /\ Or(links[k].query, "page", 1) = page + 1
             /\ Or(links[k].query, "per_page", DefaultPerPage) = size
  <2>1. k \in nexts
    BY <1>8, <1>9
  <2>2. k \in 1 .. Len(ns) /\ ns[k].rel = "next"
    <3> HIDE DEF k
    <3>1. QED
      BY <1>7, <2>1
  <2> HIDE DEF k, nexts, keys
  <2>3. links[k].query = QueryOf(Address(page + 1, size), keys)
    BY <1>2, <1>7, <2>2
  <2>4. QED
    BY <1>1, <2>3, QueryIs DEF keys
<1>10. QED
  BY <1>8, <1>9 DEF Onward, links

-----------------------------------------------------------------------------
(* What the walk collects.  The inductive invariant keeps, of a list that  *)
(* nothing has left, that everything due is collected, was on a page that  *)
(* could not be read, or is ahead; of one that stands still and could be   *)
(* read, what exactly is collected; and of the comments, that what is      *)
(* ahead was made after what is collected.                                 *)
Done == walk.pc = "done"
GaveUp == walk.pc = "gave up"

(* The items on the pages before the one asked for. *)
Passed(w) == (w.page - 1) * w.size

OwnOK == NoPulls(walk.got)

KindsOK == walk.comments => NoPulls(list) /\ NoPulls(start)

ShapeOK == Len(list) <= made /\ (walk.page = 1 \/ Passed(walk) < made)

PlaceOK == Walking /\ ~ removed => Passed(walk) <= Len(list)

StillOK ==
  ~ added /\ ~ removed /\ unread = {} =>
    /\ list = start
    /\ Walking => walk.got = WithoutPulls(Stretch(start, 0, Passed(walk)))
    /\ Done => walk.got = WithoutPulls(start)

(* Served as nothing, on a page that could not be read. *)
Missed(x) == x.id \in unread

AheadOK ==
  ~ removed /\ ~ GaveUp =>
    \A x : Occurs(x, start) /\ ~ Pull(x) =>
      \/ Occurs(x, walk.got) \/ Missed(x)
      \/ Walking /\ OccursAfter(x, list, Passed(walk))

MadeBy(x, n) == x.id <= n

MadeOK == \A x : Occurs(x, list) \/ Occurs(x, walk.got) => MadeBy(x, made)

OrderOK ==
  walk.comments =>
    /\ Rising(list) /\ Rising(walk.got)
    /\ Walking => \A x, y : Occurs(x, walk.got) /\ OccursAfter(y, list, Passed(walk))
                              => Earlier(x, y)

WInv ==
  /\ TypeOK /\ OwnOK /\ KindsOK /\ ShapeOK /\ PlaceOK
  /\ StillOK /\ AheadOK /\ MadeOK /\ OrderOK

(* The walk's part of TypeOK, and the rest of it. *)
WalkType(w) ==
  /\ w \in [pc : {"ready", "asked", "done", "gave up"}, comments : BOOLEAN,
            page : Nat \ {0}, size : Nat \ {0}, wait : Nat, got : Seq(Item)]
  /\ w.pc \in {"asked", "done"} => w.size <= MaxPerPage

RestType ==
  /\ list \in Seq(Item) /\ start \in Seq(Item)
  /\ made \in 0 .. MaxItems
  /\ quota \in [left : 0 .. Quota, reset : 1 .. Window]
  /\ faults \in 0 .. MaxFaults /\ refused \in Nat
  /\ added \in BOOLEAN /\ removed \in BOOLEAN
  /\ unread \subseteq 1 .. MaxItems

LEMMA TypeParts ==
  /\ TypeOK <=> WalkType(walk) /\ RestType
  /\ TypeOK' <=> WalkType(walk') /\ RestType'
BY DEF TypeOK, WalkType, RestType

LEMMA Fields ==
  ASSUME WalkType(walk)
  PROVE  /\ walk.page \in Nat \ {0} /\ walk.size \in Nat \ {0} /\ walk.got \in Seq(Item)
         /\ walk.comments \in BOOLEAN /\ walk.wait \in Nat
         /\ Passed(walk) \in Nat
<1>1. /\ walk.page \in Nat \ {0} /\ walk.size \in Nat \ {0} /\ walk.got \in Seq(Item)
      /\ walk.comments \in BOOLEAN /\ walk.wait \in Nat
  BY DEF WalkType
<1>2. \A m \in Nat \ {0}, n \in Nat \ {0} : (m - 1) * n \in Nat
  OBVIOUS
<1>3. QED
  BY <1>1, <1>2 DEF Passed

(* Three ways to be, and what the next request may be. *)
LEMMA Stages ==
  /\ Walking => ~ Done /\ ~ GaveUp
  /\ Done => ~ GaveUp
  /\ WalkType(walk) => Walking \/ Done \/ GaveUp
BY DEF Walking, Done, GaveUp, WalkType

(* Steps that leave the walk where it is, or end it.                       *)
SamePlace ==
  /\ UNCHANGED <<list, made, start, added, removed, unread>>
  /\ walk'.page = walk.page /\ walk'.size = walk.size
  /\ walk'.got = walk.got /\ walk'.comments = walk.comments
  /\ Walking' \/ GaveUp'

LEMMA StagesPrimed ==
  /\ Walking' => ~ Done' /\ ~ GaveUp'
  /\ Done' => ~ GaveUp'
BY DEF Walking, Done, GaveUp

LEMMA SamePlaceKeeps ==
  ASSUME WInv, Walking, TypeOK', SamePlace
  PROVE  WInv'
<1>1. Passed(walk') = Passed(walk)
  BY DEF SamePlace, Passed
<1>2. ~ Done /\ ~ GaveUp /\ ~ Done'
  BY Stages, StagesPrimed DEF SamePlace
<1>3. OwnOK' /\ KindsOK'
  BY DEF WInv, OwnOK, KindsOK, SamePlace
<1>4. ShapeOK' /\ PlaceOK'
  BY <1>1 DEF WInv, ShapeOK, PlaceOK, SamePlace
<1>5. StillOK'
  BY <1>1, <1>2 DEF WInv, StillOK, SamePlace
<1>6. AheadOK'
  BY <1>1, <1>2 DEF WInv, AheadOK, Missed, SamePlace
<1>7. MadeOK'
  BY DEF WInv, MadeOK, SamePlace
<1>8. OrderOK'
  BY <1>1 DEF WInv, OrderOK, SamePlace
<1>9. QED
  BY <1>3, <1>4, <1>5, <1>6, <1>7, <1>8 DEF WInv

(* A step of the caller that takes its wait and stage elsewhere. *)
Moves(pc, wait) ==
  /\ walk' = [walk EXCEPT !.pc = pc, !.wait = wait]
  /\ pc \in {"ready", "gave up"} \/ (pc = "asked" /\ walk.size <= MaxPerPage)

Stays ==
  /\ WalkType(walk') /\ (Walking' \/ GaveUp')
  /\ walk'.page = walk.page /\ walk'.size = walk.size
  /\ walk'.got = walk.got /\ walk'.comments = walk.comments

LEMMA MovesOn ==
  ASSUME WalkType(walk), NEW pc, NEW wait \in Nat, Moves(pc, wait)
  PROVE  Stays
<1>1. /\ walk' \in [pc : {"ready", "asked", "done", "gave up"}, comments : BOOLEAN,
                    page : Nat \ {0}, size : Nat \ {0}, wait : Nat, got : Seq(Item)]
      /\ walk'.pc = pc
      /\ walk'.page = walk.page /\ walk'.size = walk.size
      /\ walk'.got = walk.got /\ walk'.comments = walk.comments
  BY DEF WalkType, Moves
<1>2. QED
  BY <1>1 DEF WalkType, Walking, GaveUp, Moves, Stays

LEMMA AskWalks ==
  ASSUME WInv, Ask
  PROVE  WInv'
<1>1. WalkType(walk) /\ RestType
  BY TypeParts DEF WInv
<1>2. Walking /\ walk.wait = 0
  BY DEF Ask, Walking
<1>3. walk.size \in 1 .. MaxPerPage => walk.size <= MaxPerPage
  BY WalkAssumption
<1>4. \E pc : /\ walk' = [walk EXCEPT !.pc = pc]
              /\ pc = "gave up" \/ (pc = "asked" /\ walk.size <= MaxPerPage)
  BY <1>3 DEF Ask
<1>5. \E pc : Moves(pc, 0)
  BY <1>1, <1>2, <1>4 DEF WalkType, Moves
<1>6. Stays
  BY <1>1, <1>5, MovesOn
<1>7. UNCHANGED <<list, made, quota, faults, start, added, removed, refused, unread>>
  BY DEF Ask, github, history
<1>8. RestType'
  BY <1>1, <1>7 DEF RestType
<1>9. TypeOK' /\ SamePlace
  BY <1>6, <1>7, <1>8, TypeParts DEF Stays, SamePlace
<1>10. QED
  BY <1>2, <1>9, SamePlaceKeeps

LEMMA RefuseWalks ==
  ASSUME WInv, Refuse
  PROVE  WInv'
<1> DEFINE answer == MapError(Exhausted)
           wait == answer.wait * TicksPerSecond
<1>1. WalkType(walk) /\ RestType
  BY TypeParts DEF WInv
<1>2. Walking
  BY DEF Refuse, Walking
<1>3. answer.status = 429 /\ wait \in Nat
  <2>1. quota.reset \in Nat \ {0}
    BY <1>1, WalkAssumption DEF RestType
  <2>2. QED
    BY <2>1, WaitAfterRefusal
<1>4. Moves("ready", wait)
  BY <1>3 DEF Refuse, Told, Moves
<1> HIDE DEF wait
<1>5. Stays
  BY <1>1, <1>3, <1>4, MovesOn
<1>6. /\ UNCHANGED <<list, made, quota, faults, start, added, removed, unread>>
      /\ refused' = refused + 1
  BY DEF Refuse, github, history
<1>7. RestType'
  BY <1>1, <1>6 DEF RestType
<1>8. TypeOK' /\ SamePlace
  BY <1>5, <1>6, <1>7, TypeParts DEF Stays, SamePlace
<1>9. QED
  BY <1>2, <1>8, SamePlaceKeeps

LEMMA RequestFailsWalks ==
  ASSUME WInv, RequestFails
  PROVE  WInv'
<1>1. WalkType(walk) /\ RestType
  BY TypeParts DEF WInv
<1>2. Walking /\ walk.wait \in Nat
  BY <1>1, Fields DEF RequestFails, Walking
<1>3. walk' = [walk EXCEPT !.pc = "ready"]
  BY DEF RequestFails, Told, Unavailable, AppError
<1>4. Moves("ready", walk.wait)
  BY <1>1, <1>3 DEF WalkType, Moves
<1>5. Stays
  BY <1>1, <1>2, <1>4, MovesOn
<1>6. /\ UNCHANGED <<list, made, quota, start, added, removed, refused, unread>>
      /\ faults < MaxFaults /\ faults' = faults + 1
  BY DEF RequestFails, github, history
<1>7. RestType'
  BY <1>1, <1>6, WalkAssumption DEF RestType
<1>8. TypeOK' /\ SamePlace
  BY <1>5, <1>6, <1>7, TypeParts DEF Stays, SamePlace
<1>9. QED
  BY <1>2, <1>8, SamePlaceKeeps

LEMMA TickWalks ==
  ASSUME WInv, Tick
  PROVE  WInv'
<1>1. WalkType(walk) /\ RestType
  BY TypeParts DEF WInv
<1>2. Walking /\ UNCHANGED <<list, made, faults, start, added, removed, unread>>
  BY DEF Tick, history
<1>3. PICK wait \in Nat : walk' = [walk EXCEPT !.wait = wait]
  <2>1. walk' = [walk EXCEPT !.wait = IF walk.wait = 0 THEN 0 ELSE walk.wait - 1]
    BY <1>1 DEF Tick, WalkType
  <2>2. (IF walk.wait = 0 THEN 0 ELSE walk.wait - 1) \in Nat
    BY <1>1, Fields
  <2>3. QED
    BY <2>1, <2>2
<1>4. /\ WalkType(walk') /\ walk'.pc = walk.pc
      /\ walk'.page = walk.page /\ walk'.size = walk.size
      /\ walk'.got = walk.got /\ walk'.comments = walk.comments
  BY <1>1, <1>3 DEF WalkType
<1>5. Walking'
  BY <1>2, <1>4 DEF Walking
<1>6. quota' \in [left : 0 .. Quota, reset : 1 .. Window] /\ refused' \in Nat
  <2>1. CASE quota.reset = 1
    BY <2>1, WalkAssumption DEF Tick
  <2>2. CASE quota.reset # 1
    <3>1. quota' = [quota EXCEPT !.reset = quota.reset - 1] /\ refused' = refused
      BY <2>2 DEF Tick
    <3>2. quota.reset - 1 \in 1 .. Window
      BY <1>1, <2>2, WalkAssumption DEF RestType
    <3>3. QED
      BY <1>1, <3>1, <3>2 DEF RestType
  <2>3. QED
    BY <2>1, <2>2
<1>7. RestType'
  BY <1>1, <1>2, <1>6 DEF RestType
<1>8. TypeOK' /\ SamePlace
  BY <1>2, <1>4, <1>5, <1>7, TypeParts DEF SamePlace
<1>9. QED
  BY <1>2, <1>8, SamePlaceKeeps

(* An item added: nothing that was ahead falls behind, and on the comments *)
(* it is the last one.                                                     *)
LEMMA AddWalks ==
  ASSUME WInv, NEW i \in 1 .. (Len(list) + 1), NEW kind \in Kinds, Add(i, kind)
  PROVE  WInv'
<1> DEFINE e == [id |-> made + 1, kind |-> kind]
<1>1. WalkType(walk) /\ RestType
  BY TypeParts DEF WInv
<1>2. /\ Walking /\ made < MaxItems /\ list' = InsertAt(list, i, e)
      /\ made' = made + 1 /\ added' = TRUE
      /\ UNCHANGED <<quota, walk, faults, start, removed, refused, unread>>
      /\ walk.comments => i = Len(list) + 1 /\ kind = "comment"
  BY DEF Add
<1>3. list \in Seq(Item) /\ made \in Nat /\ made + 1 \in 1 .. MaxItems /\ e \in Item
  BY <1>1, <1>2, WalkAssumption DEF RestType, Item
<1>4. e.id = made + 1 /\ e.kind = kind
  OBVIOUS
<1> HIDE DEF e
<1>5. list' \in Seq(Item) /\ Inserted(list', list, i, e)
  BY <1>2, <1>3, InsertIs
<1>6. Len(list) \in Nat /\ i \in Nat /\ Len(list') = Len(list) + 1
  BY <1>3, <1>5, LenProperties DEF Inserted
<1>7. \A x : /\ Occurs(x, list') => Occurs(x, list) \/ x = e
             /\ \A p \in Nat : OccursAfter(x, list, p) => OccursAfter(x, list', p)
  BY <1>3, <1>5, <1>6, InsertedOccurs
<1>8. Passed(walk) \in Nat /\ walk' = walk /\ Passed(walk') = Passed(walk)
      /\ walk.comments' = walk.comments
  BY <1>1, <1>2, Fields
<1>9. /\ Walking' /\ Walking /\ ~ Done /\ ~ Done' /\ ~ GaveUp /\ ~ GaveUp'
  BY <1>2, <1>8, Stages DEF Walking, Done, GaveUp
<1>10. TypeOK'
  <2>1. RestType'
    BY <1>1, <1>2, <1>3, <1>5, WalkAssumption DEF RestType
  <2>2. QED
    BY <1>1, <1>8, <2>1, TypeParts
<1>11. OwnOK'
  BY <1>8 DEF WInv, OwnOK
<1>12. walk.comments => ~ Pull(e)
  BY <1>2, <1>4 DEF Pull
<1>13. KindsOK'
  BY <1>2, <1>7, <1>8, <1>12 DEF WInv, KindsOK, NoPulls
<1>14. ShapeOK'
  <2>1. Len(list) <= made /\ (walk.page = 1 \/ Passed(walk) < made)
    BY DEF WInv, ShapeOK
  <2>2. Len(list') <= made' /\ (walk.page = 1 \/ Passed(walk) < made')
    BY <1>2, <1>3, <1>6, <1>8, <2>1
  <2>3. QED
    BY <1>8, <2>2 DEF ShapeOK
<1>15. PlaceOK'
  <2>1. ~ removed => Passed(walk) <= Len(list')
    BY <1>6, <1>8, <1>9 DEF WInv, PlaceOK
  <2>2. QED
    BY <1>2, <1>8, <2>1 DEF PlaceOK
<1>16. StillOK'
  BY <1>2 DEF StillOK
<1>17. AheadOK'
  BY <1>2, <1>7, <1>8, <1>9 DEF WInv, AheadOK, Missed
<1>18. \A x : Occurs(x, list') \/ Occurs(x, walk.got) => MadeBy(x, made) \/ x = e
  BY <1>7 DEF WInv, MadeOK
<1>19. \A x \in Item : MadeBy(x, made) => MadeBy(x, made + 1) /\ Earlier(x, e)
  <2>1. \A x \in Item : x.id \in Int
    BY WalkAssumption DEF Item
  <2>2. QED
    BY <1>3, <1>4, <2>1 DEF MadeBy, Earlier
<1>20. MadeBy(e, made + 1)
  BY <1>3, <1>4 DEF MadeBy
<1>21. \A x : Occurs(x, list') \/ Occurs(x, walk.got) \/ Occurs(x, list) => x \in Item
  BY <1>1, <1>3, <1>5, Fields, OccursIn
<1>22. MadeOK'
  BY <1>2, <1>8, <1>18, <1>19, <1>20, <1>21 DEF MadeOK
<1>23. ASSUME walk.comments
       PROVE  /\ Rising(list')
              /\ \A x, y : Occurs(x, walk.got) /\ OccursAfter(y, list', Passed(walk))
                             => Earlier(x, y)
  <2>1. /\ Rising(list)
        /\ \A x, y : Occurs(x, walk.got) /\ OccursAfter(y, list, Passed(walk)) => Earlier(x, y)
    BY <1>9, <1>23 DEF WInv, OrderOK
  <2>2. \A x : Occurs(x, list) \/ Occurs(x, walk.got) => Earlier(x, e)
    BY <1>19, <1>21 DEF WInv, MadeOK
  <2>3. Inserted(list', list, Len(list) + 1, e)
    BY <1>2, <1>5, <1>23
  <2>4. Rising(list')
    BY <1>3, <2>1, <2>2, <2>3, RisingInserted
  <2>5. ASSUME NEW y, OccursAfter(y, list', Passed(walk))
        PROVE  y = e \/ OccursAfter(y, list, Passed(walk))
    <3>1. PICK j \in 1 .. Len(list') : Passed(walk) < j /\ list'[j] = y
      BY <2>5 DEF OccursAfter
    <3>2. CASE j = Len(list) + 1
      BY <2>3, <3>1, <3>2 DEF Inserted
    <3>3. CASE j # Len(list) + 1
      <4>1. ~ (Len(list) + 1 < j)
        BY <1>6
      <4>2. j \in 1 .. Len(list) /\ list'[j] = list[j]
        BY <2>3, <3>3, <4>1 DEF Inserted
      <4>3. QED
        BY <3>1, <4>2 DEF OccursAfter
    <3>4. QED
      BY <3>2, <3>3
  <2>6. QED
    BY <2>1, <2>2, <2>4, <2>5
<1>24. OrderOK'
  BY <1>8, <1>23 DEF WInv, OrderOK
<1>25. QED
  BY <1>10, <1>11, <1>13, <1>14, <1>15, <1>16, <1>17, <1>22, <1>24 DEF WInv

(* An item gone: the rest moves up, and nothing comes back. *)
LEMMA LeaveWalks ==
  ASSUME WInv, NEW i \in DOMAIN list, Leave(i)
  PROVE  WInv'
<1>1. WalkType(walk) /\ RestType
  BY TypeParts DEF WInv
<1>2. /\ Walking /\ list' = RemoveAt(list, i) /\ removed' = TRUE
      /\ UNCHANGED <<made, quota, walk, faults, start, added, refused, unread>>
  BY DEF Leave
<1>3. list \in Seq(Item) /\ i \in 1 .. Len(list)
  <2>1. list \in Seq(Item)
    BY <1>1 DEF RestType
  <2>2. DOMAIN list = 1 .. Len(list)
    BY <2>1, LenProperties
  <2>3. QED
    BY <2>1, <2>2
<1>4. list' \in Seq(Item) /\ Removed(list', list, i)
  BY <1>2, <1>3, RemoveIs
<1>5. Len(list) \in Nat /\ Len(list') = Len(list) - 1
  BY <1>3, <1>4, LenProperties DEF Removed
<1>6. \A x : /\ Occurs(x, list') => Occurs(x, list)
             /\ \A p \in Nat : OccursAfter(x, list', p) => OccursAfter(x, list, p)
  BY <1>3, <1>4, RemovedOccurs
<1>7. Passed(walk) \in Nat /\ walk' = walk /\ Passed(walk') = Passed(walk)
  BY <1>1, <1>2, Fields
<1>8. Walking' /\ Walking
  BY <1>2, <1>7 DEF Walking
<1>9. TypeOK'
  <2>1. RestType'
    BY <1>1, <1>2, <1>4 DEF RestType
  <2>2. QED
    BY <1>1, <1>7, <2>1, TypeParts
<1>10. OwnOK' /\ KindsOK'
  BY <1>2, <1>6, <1>7 DEF WInv, OwnOK, KindsOK, NoPulls
<1>11. ShapeOK'
  <2>1. Len(list) <= made /\ (walk.page = 1 \/ Passed(walk) < made) /\ made \in Nat
    BY <1>1, WalkAssumption DEF WInv, ShapeOK, RestType
  <2>2. Len(list') <= made
    BY <1>5, <2>1
  <2>3. QED
    BY <1>2, <1>7, <2>1, <2>2 DEF ShapeOK
<1>12. PlaceOK' /\ StillOK' /\ AheadOK'
  BY <1>2 DEF PlaceOK, StillOK, AheadOK
<1>13. MadeOK'
  BY <1>2, <1>6, <1>7 DEF WInv, MadeOK
<1>14. walk.comments => Rising(list')
  <2>1. walk.comments => Rising(list)
    BY DEF WInv, OrderOK
  <2>2. QED
    BY <1>3, <1>4, <2>1, RisingRemoved
<1>15. OrderOK'
  BY <1>6, <1>7, <1>8, <1>14 DEF WInv, OrderOK
<1>16. QED
  BY <1>9, <1>10, <1>11, <1>12, <1>13, <1>15 DEF WInv

(* A page: where it begins and ends, and what is kept of it. *)
Through(w) == w.page * w.size

LEMMA Times ==
  ASSUME NEW m \in Nat \ {0}, NEW n \in Nat \ {0}
  PROVE  /\ m * n \in Nat /\ (m - 1) * n \in Nat /\ (m - 1) * n <= m * n
         /\ (m - 1) * n + 1 \in Int /\ ((m + 1) - 1) * n = m * n
         /\ \A k \in Nat : (m - 1) * n < k => m <= k
<1>1. m - 1 \in Nat /\ (m + 1) - 1 = m
  OBVIOUS
<1>2. m * n = (m - 1) * n + n
  BY <1>1
<1>3. (m - 1) * n \in Nat /\ m - 1 <= (m - 1) * n
  BY <1>1
<1> DEFINE k == (m - 1) * n
<1> HIDE DEF k
<1>4. k \in Nat /\ m - 1 <= k /\ m * n = k + n
  BY <1>2, <1>3 DEF k
<1>5. m * n \in Nat /\ k <= m * n /\ k + 1 \in Int /\ \A l \in Nat : k < l => m <= l
  BY <1>4
<1>6. QED
  BY <1>1, <1>3, <1>5 DEF k

(* The page asked for, as GitHub has it. *)
Page == Stretch(list, Passed(walk), Through(walk))

(* What the answer makes of the walk. *)
Answers(items) ==
  /\ UNCHANGED <<list, made, start, added, removed>>
  /\ TypeOK'
  /\ walk'.got = Both(walk.got, WithoutPulls(items)) /\ walk'.comments = walk.comments
  /\ \/ Through(walk) < Len(list) /\ Walking' /\ Passed(walk') = Through(walk)
     \/ Len(list) <= Through(walk) /\ Done' /\ walk'.page = walk.page /\ walk'.size = walk.size

(* The items served are those of the page, or none though it holds some.   *)
ReadsPage(items) ==
  \/ items = Page /\ UNCHANGED unread
  \/ items = <<>> /\ unread' = unread \cup Numbers(Page)

LEMMA PageNumbers ==
  ASSUME WInv
  PROVE  /\ Passed(walk) \in Nat /\ Through(walk) \in Nat /\ Passed(walk) <= Through(walk)
         /\ walk.page \in 1 .. MaxItems
<1>1. WalkType(walk) /\ RestType /\ ShapeOK
  BY TypeParts DEF WInv
<1>2. walk.page \in Nat \ {0} /\ walk.size \in Nat \ {0}
  BY <1>1, Fields
<1>3. /\ Through(walk) \in Nat /\ Passed(walk) \in Nat /\ Passed(walk) <= Through(walk)
      /\ \A k \in Nat : Passed(walk) < k => walk.page <= k
  BY <1>2, Times DEF Passed, Through
<1>4. made \in Nat /\ made <= MaxItems /\ MaxItems \in Nat \ {0}
  BY <1>1, WalkAssumption DEF RestType
<1>5. walk.page = 1 \/ walk.page <= made
  BY <1>1, <1>3, <1>4 DEF ShapeOK
<1>6. walk.page \in 1 .. MaxItems
  BY <1>2, <1>4, <1>5
<1>7. QED
  BY <1>3, <1>6

LEMMA PageIs ==
  ASSUME WInv
  PROVE  /\ PageOf(list, walk.page, walk.size) = Page
         /\ Page \in Seq(Item)
         /\ Shown(walk.comments, Page) = WithoutPulls(Page)
         /\ Shown(walk.comments, <<>>) = WithoutPulls(<<>>)
<1> DEFINE page == Stretch(list, Passed(walk), Through(walk))
<1>1. WalkType(walk) /\ RestType /\ KindsOK
  BY TypeParts DEF WInv
<1>2. list \in Seq(Item) /\ Passed(walk) \in Nat /\ Through(walk) \in Nat
  BY <1>1, PageNumbers DEF RestType
<1>3. page \in Seq(Item)
  BY <1>2, StretchIs
<1>4. PageOf(list, walk.page, walk.size) = page
  BY DEF PageOf, Stretch, Passed, Through
<1>5. ASSUME walk.comments PROVE WithoutPulls(page) = page
  <2>1. NoPulls(list)
    BY <1>1, <1>5 DEF KindsOK
  <2>2. \A x : Occurs(x, page) => OccursAfter(x, list, Passed(walk))
    BY <1>2, StretchOccurs
  <2>3. \A x : OccursAfter(x, list, Passed(walk)) => Occurs(x, list)
    BY AfterIsIn
  <2>4. NoPulls(page)
    BY <2>1, <2>2, <2>3 DEF NoPulls
  <2>5. QED
    BY <1>3, <2>4, AllKept
<1> HIDE DEF page
<1>6. Shown(walk.comments, page) = WithoutPulls(page)
  BY <1>5 DEF Shown
<1>7. Shown(walk.comments, <<>>) = WithoutPulls(<<>>)
  BY KeptEmpty DEF Shown
<1>8. QED
  BY <1>3, <1>4, <1>6, <1>7 DEF page, Page

LEMMA ServedIs ==
  ASSUME WInv, NEW items \in Seq(Item), Served(items),
         Shown(walk.comments, items) = WithoutPulls(items),
         faults' \in 0 .. MaxFaults, unread' \subseteq 1 .. MaxItems
  PROVE  Answers(items)
<1> DEFINE more == Through(walk) < Len(list)
           links == Forwarded[walk.page][walk.size][more]
           nexts == {i \in DOMAIN links : links[i].rel = "next"}
           query == links[CHOOSE i \in nexts : TRUE].query
           got == Both(walk.got, WithoutPulls(items))
<1>1. WalkType(walk) /\ RestType
  BY TypeParts DEF WInv
<1>2. /\ walk.pc = "asked" /\ quota.left > 0
      /\ quota' = [quota EXCEPT !.left = @ - 1]
      /\ UNCHANGED <<list, made, start, added, removed, refused>>
  BY Zenon DEF Served
<1>3. walk' = IF nexts = {} THEN [walk EXCEPT !.pc = "done", !.got = got]
              ELSE [walk EXCEPT !.pc = "ready", !.got = got,
                      !.page = Or(query, "page", 1),
                      !.size = Or(query, "per_page", DefaultPerPage)]
  BY Zenon DEF Served, Through, Both
<1>4. walk.size \in 1 .. MaxPerPage /\ walk.page \in 1 .. MaxItems /\ more \in BOOLEAN
  <2>1. walk.size \in Nat \ {0} /\ walk.size <= MaxPerPage
    BY <1>1, <1>2 DEF WalkType
  <2>2. QED
    BY <2>1, PageNumbers, WalkAssumption
<1>5. Onward(links, walk.page, walk.size, more)
  <2> HIDE DEF more
  <2>1. QED
    BY <1>4, ForwardedIs
<1>6. /\ nexts = {} <=> ~ more
      /\ more => Or(query, "page", 1) = walk.page + 1 /\ Or(query, "per_page", DefaultPerPage) = walk.size
  BY <1>5, Zenon DEF Onward
<1> HIDE DEF links, nexts, query, got
<1>7. got \in Seq(Item)
  <2>1. walk.got \in Seq(Item) /\ WithoutPulls(items) \in Seq(Item)
    BY <1>1, Fields, KeptTyped
  <2>2. QED
    BY <2>1, BothTyped DEF got
<1>8. walk.page \in Nat \ {0} /\ walk.size \in Nat \ {0} /\ walk.size <= MaxPerPage
  BY <1>1, <1>2 DEF WalkType
<1>9. Len(list) \in Nat /\ Through(walk) \in Nat
  <2>1. list \in Seq(Item)
    BY <1>1 DEF RestType
  <2>2. QED
    BY <2>1, LenProperties, PageNumbers
<1>10. RestType'
  <2>1. quota' \in [left : 0 .. Quota, reset : 1 .. Window]
    <3>1. quota.left \in 0 .. Quota /\ quota.left - 1 \in 0 .. Quota
      BY <1>1, <1>2, WalkAssumption DEF RestType
    <3>2. QED
      BY <1>1, <1>2, <3>1 DEF RestType
  <2>2. UNCHANGED <<list, made, start, added, removed, refused>>
    BY <1>2
  <2>3. QED
    BY <1>1, <2>1, <2>2 DEF RestType
<1>11. CASE more
  <2>1. walk' = [walk EXCEPT !.pc = "ready", !.got = got, !.page = walk.page + 1, !.size = walk.size]
    BY <1>3, <1>6, <1>11
  <2>2. /\ WalkType(walk') /\ walk'.pc = "ready"
        /\ walk'.page = walk.page + 1 /\ walk'.size = walk.size
        /\ walk'.got = got /\ walk'.comments = walk.comments
    <3> DEFINE next == walk.page + 1
               size == walk.size
    <3>1. next \in Nat \ {0} /\ size \in Nat \ {0} /\ size <= MaxPerPage
      BY <1>8
    <3>2. walk' = [walk EXCEPT !.pc = "ready", !.got = got, !.page = next, !.size = size]
      BY <2>1
    <3> HIDE DEF next, size
    <3>3. WalkType(walk') /\ walk'.pc = "ready" /\ walk'.page = next /\ walk'.size = size
      BY <1>1, <1>7, <3>1, <3>2 DEF WalkType
    <3>4. walk'.got = got /\ walk'.comments = walk.comments
      BY <1>1, <3>2 DEF WalkType
    <3>5. QED
      BY <3>3, <3>4 DEF next, size
  <2>3. Passed(walk') = Through(walk)
    BY <1>8, <2>2, Times DEF Passed, Through
  <2>4. Walking'
    BY <2>2 DEF Walking
  <2>5. TypeOK'
    BY <1>10, <2>2, TypeParts
  <2>6. UNCHANGED <<list, made, start, added, removed>>
    BY <1>2
  <2>7. QED
    BY <1>11, <2>2, <2>3, <2>4, <2>5, <2>6 DEF Answers, got
<1>12. CASE ~ more
  <2>1. walk' = [walk EXCEPT !.pc = "done", !.got = got]
    BY <1>3, <1>6, <1>12
  <2>2. /\ WalkType(walk') /\ walk'.pc = "done"
        /\ walk'.page = walk.page /\ walk'.size = walk.size
        /\ walk'.got = got /\ walk'.comments = walk.comments
    BY <1>1, <1>7, <1>8, <2>1 DEF WalkType
  <2>3. Done' /\ Len(list) <= Through(walk)
    BY <1>9, <1>12, <2>2 DEF Done
  <2>4. TypeOK'
    BY <1>10, <2>2, TypeParts
  <2>5. UNCHANGED <<list, made, start, added, removed>>
    BY <1>2
  <2>6. QED
    BY <2>2, <2>3, <2>4, <2>5 DEF Answers, got
<1>13. QED
  BY <1>11, <1>12

(* What is not served is missed; if nothing is, the page has been served.  *)
LEMMA ReadsIs ==
  ASSUME Page \in Seq(Item), NEW items, ReadsPage(items)
  PROVE  /\ items \in Seq(Item)
         /\ \A x : Occurs(x, items) => Occurs(x, Page)
         /\ \A x : Occurs(x, Page) => Occurs(x, items) \/ Missed(x)'
         /\ \A x : Missed(x) => Missed(x)'
         /\ unread' = {} => unread = {} /\ items = Page
         /\ Rising(Page) => Rising(items)
<1>1. CASE items = Page /\ UNCHANGED unread
  BY <1>1 DEF Missed
<1>2. CASE items = <<>> /\ unread' = unread \cup Numbers(Page)
  <2>1. /\ Len(Page) \in Nat /\ DOMAIN Page = 1 .. Len(Page)
        /\ items \in Seq(Item) /\ Len(items) = 0
    BY <1>2, EmptySeq, LenProperties
  <2>2. \A x : ~ Occurs(x, items)
    BY <2>1 DEF Occurs
  <2>3. \A x : Occurs(x, Page) => x.id \in Numbers(Page)
    BY <2>1 DEF Occurs, Numbers
  <2>4. \A x : Occurs(x, Page) => Missed(x)'
    BY <1>2, <2>3 DEF Missed
  <2>5. \A x : Missed(x) => Missed(x)'
    BY <1>2 DEF Missed
  <2>6. ASSUME unread' = {} PROVE items = Page
    <3>1. Numbers(Page) = {}
      BY <1>2, <2>6
    <3>2. ~ (1 \in 1 .. Len(Page))
      BY <2>1, <3>1 DEF Numbers
    <3>3. Len(Page) = 0
      BY <2>1, <3>2
    <3>4. QED
      BY <1>2, <3>3, EmptySeq
  <2>7. Rising(items)
    BY <2>1 DEF Rising
  <2>8. QED
    BY <1>2, <2>1, <2>2, <2>4, <2>5, <2>6, <2>7
<1>3. QED
  BY <1>1, <1>2 DEF ReadsPage

LEMMA AnswerWalks ==
  ASSUME WInv, walk.pc = "asked", NEW items, ReadsPage(items), Answers(items)
  PROVE  WInv'
<1> DEFINE p == Passed(walk)
           q == Through(walk)
           kept == WithoutPulls(items)
<1>1. WalkType(walk) /\ RestType
  BY TypeParts DEF WInv
<1>2. Walking
  BY DEF Walking
<1>3. /\ UNCHANGED <<list, made, start, added, removed>> /\ TypeOK'
      /\ walk'.got = Both(walk.got, kept) /\ walk'.comments = walk.comments
      /\ \/ q < Len(list) /\ Walking' /\ Passed(walk') = q
         \/ Len(list) <= q /\ Done' /\ walk'.page = walk.page /\ walk'.size = walk.size
  BY DEF Answers
<1>4. p \in Nat /\ q \in Nat /\ p <= q
  BY PageNumbers
<1>5. /\ list \in Seq(Item) /\ start \in Seq(Item) /\ walk.got \in Seq(Item)
      /\ kept \in Seq(Item) /\ Page \in Seq(Item) /\ items \in Seq(Item)
  <2>1. list \in Seq(Item) /\ start \in Seq(Item) /\ walk.got \in Seq(Item)
    BY <1>1, Fields DEF RestType
  <2>2. QED
    BY <2>1, PageIs, ReadsIs, KeptTyped
<1>6. Len(list) \in Nat
  BY <1>5, LenProperties
<1>7. /\ \A x : Occurs(x, items) => Occurs(x, Page)
      /\ \A x : Occurs(x, Page) => Occurs(x, items) \/ Missed(x)'
      /\ \A x : Missed(x) => Missed(x)'
      /\ unread' = {} => unread = {} /\ items = Page
      /\ Rising(Page) => Rising(items)
  BY <1>5, ReadsIs
<1>8. Page = Stretch(list, p, q)
  BY DEF Page
<1> HIDE DEF p, q
<1>9. \A x : Occurs(x, walk'.got) <=> Occurs(x, walk.got) \/ (Occurs(x, items) /\ ~ Pull(x))
  <2>1. \A x : Occurs(x, Both(walk.got, kept)) <=> Occurs(x, walk.got) \/ Occurs(x, kept)
    BY <1>5, OccursBoth
  <2>2. \A x : Occurs(x, kept) <=> Occurs(x, items) /\ ~ Pull(x)
    BY <1>5, KeptOccurs
  <2>3. QED
    BY <1>3, <2>1, <2>2
<1> HIDE DEF kept
<1>10. \A x : /\ Occurs(x, Page) => OccursAfter(x, list, p)
              /\ OccursAfter(x, list, p) => Occurs(x, Page) \/ OccursAfter(x, list, q)
              /\ OccursAfter(x, list, p) => Occurs(x, list)
              /\ OccursAfter(x, list, q) => OccursAfter(x, list, p)
              /\ Len(list) <= q => ~ OccursAfter(x, list, q)
  BY <1>4, <1>5, <1>8, StretchOccurs, AfterIsIn, AfterLess, AfterAll
<1>11. OwnOK'
  BY <1>9 DEF WInv, OwnOK, NoPulls
<1>12. KindsOK'
  BY <1>3 DEF WInv, KindsOK
<1>13. ShapeOK'
  <2>1. Len(list) <= made /\ (walk.page = 1 \/ Passed(walk) < made) /\ made \in Nat
    BY <1>1, WalkAssumption DEF WInv, ShapeOK, RestType
  <2>2. CASE q < Len(list) /\ Passed(walk') = q
    <3>1. Passed(walk') < made
      BY <1>4, <1>6, <2>1, <2>2
    <3>2. QED
      BY <1>3, <2>1, <3>1 DEF ShapeOK
  <2>3. CASE walk'.page = walk.page /\ walk'.size = walk.size
    <3>1. Passed(walk') = Passed(walk)
      BY <2>3 DEF Passed
    <3>2. QED
      BY <1>3, <2>1, <2>3, <3>1 DEF ShapeOK
  <2>4. QED
    BY <1>3, <2>2, <2>3
<1>14. Walking' => Passed(walk') = q /\ q < Len(list)
  BY <1>3, StagesPrimed
<1>15. PlaceOK'
  BY <1>3, <1>4, <1>6, <1>14 DEF PlaceOK
<1>16. StillOK'
  <2>1. SUFFICES ASSUME ~ added, ~ removed, unread' = {}
                 PROVE  /\ list' = start'
                        /\ Walking' => walk'.got = WithoutPulls(Stretch(start', 0, Passed(walk')))
                        /\ Done' => walk'.got = WithoutPulls(start')
    BY <1>3 DEF StillOK
  <2>2. unread = {} /\ items = Page
    BY <1>7, <2>1
  <2>3. list = start /\ walk.got = WithoutPulls(Stretch(start, 0, p))
    BY <1>2, <2>1, <2>2 DEF WInv, StillOK, p
  <2>4. p <= Len(start)
    BY <1>2, <2>1, <2>3 DEF WInv, PlaceOK, p
  <2>5. Stretch(start, 0, q) = Both(Stretch(start, 0, p), Stretch(start, p, q))
    BY <1>4, <1>5, <2>4, StretchBoth
  <2>6. Stretch(start, 0, p) \in Seq(Item) /\ Stretch(start, p, q) \in Seq(Item)
    BY <1>4, <1>5, StretchIs
  <2>7. WithoutPulls(Stretch(start, 0, q)) = Both(walk.got, kept)
    BY <1>8, <2>3, <2>5, <2>6, <2>2, KeptBoth DEF kept
  <2>8. Len(start) <= q => Stretch(start, 0, q) = start
    BY <1>4, <1>5, StretchAll
  <2>9. Done' => Len(list) <= q
    BY <1>3, StagesPrimed
  <2>10. QED
    BY <1>3, <1>14, <2>3, <2>7, <2>8, <2>9
<1>17. AheadOK'
  <2>1. SUFFICES ASSUME ~ removed, NEW x, Occurs(x, start), ~ Pull(x)
                 PROVE  \/ Occurs(x, walk'.got) \/ Missed(x)'
                        \/ Walking' /\ OccursAfter(x, list', Passed(walk'))
    BY <1>3 DEF AheadOK
  <2>2. Occurs(x, walk.got) \/ Missed(x) \/ OccursAfter(x, list, p)
    BY <1>2, <2>1, Stages DEF WInv, AheadOK, p
  <2>3. Occurs(x, walk'.got) \/ Missed(x)' \/ OccursAfter(x, list, q)
    BY <1>9, <1>10, <1>7, <2>1, <2>2
  <2>4. QED
    BY <1>3, <1>10, <2>3
<1>18. MadeOK'
  BY <1>3, <1>9, <1>10, <1>7 DEF WInv, MadeOK
<1>19. OrderOK'
  <2>1. SUFFICES ASSUME walk.comments
                 PROVE  /\ Rising(list) /\ Rising(walk'.got)
                        /\ Walking' => \A x, y : Occurs(x, walk'.got) /\ OccursAfter(y, list, q)
                                                   => Earlier(x, y)
    BY <1>3, <1>14 DEF OrderOK
  <2>2. /\ Rising(list) /\ Rising(walk.got)
        /\ \A x, y : Occurs(x, walk.got) /\ OccursAfter(y, list, p) => Earlier(x, y)
    BY <1>2, <2>1 DEF WInv, OrderOK, p
  <2>3. /\ Rising(items)
        /\ \A x, y : Occurs(x, items) /\ OccursAfter(y, list, q) => Earlier(x, y)
    BY <1>4, <1>5, <1>7, <1>8, <2>2, RisingStretch
  <2>4. kept = items
    <3>1. NoPulls(list)
      BY <2>1 DEF WInv, KindsOK
    <3>2. NoPulls(items)
      BY <1>10, <1>7, <3>1 DEF NoPulls
    <3>3. QED
      BY <1>5, <3>2, AllKept DEF kept
  <2>5. \A x, y : Occurs(x, walk.got) /\ Occurs(y, items) => Earlier(x, y)
    BY <1>10, <1>7, <2>2
  <2>6. Rising(Both(walk.got, items))
    BY <1>5, <2>2, <2>3, <2>5, RisingBoth
  <2>7. QED
    BY <1>3, <1>9, <1>10, <2>2, <2>3, <2>4, <2>6
<1>20. QED
  BY <1>3, <1>11, <1>12, <1>13, <1>15, <1>16, <1>17, <1>18, <1>19 DEF WInv

LEMMA AnswerPageWalks ==
  ASSUME WInv, AnswerPage
  PROVE  WInv'
<1>1. PageOf(list, walk.page, walk.size) = Page /\ Page \in Seq(Item)
      /\ Shown(walk.comments, Page) = WithoutPulls(Page)
  BY PageIs
<1>2. Served(Page) /\ UNCHANGED <<faults, unread>>
  BY <1>1, Zenon DEF AnswerPage
<1>3. faults' \in 0 .. MaxFaults /\ unread' \subseteq 1 .. MaxItems
  BY <1>2, TypeParts DEF WInv, RestType
<1>4. Answers(Page)
  BY <1>1, <1>2, <1>3, ServedIs
<1>5. walk.pc = "asked"
  BY <1>2, Zenon DEF Served
<1>6. QED
  BY <1>2, <1>4, <1>5, AnswerWalks DEF ReadsPage

LEMMA AnswerUnreadWalks ==
  ASSUME WInv, AnswerUnread
  PROVE  WInv'
<1>1. PageOf(list, walk.page, walk.size) = Page /\ Page \in Seq(Item)
      /\ Shown(walk.comments, <<>>) = WithoutPulls(<<>>)
  BY PageIs
<1>2. /\ Served(<<>>) /\ unread' = unread \cup Numbers(Page)
      /\ faults < MaxFaults /\ faults' = faults + 1
  BY <1>1, Zenon DEF AnswerUnread
<1>3. /\ faults' \in 0 .. MaxFaults /\ unread \subseteq 1 .. MaxItems
  BY <1>2, TypeParts, WalkAssumption DEF WInv, RestType
<1>4. Numbers(Page) \subseteq 1 .. MaxItems
  <2>1. \A i \in DOMAIN Page : Page[i] \in Item
    BY <1>1, LenProperties, ElementOfSeq
  <2>2. \A i \in DOMAIN Page : Page[i].id \in 1 .. MaxItems
    BY <2>1 DEF Item
  <2>3. QED
    BY <2>2 DEF Numbers
<1>5. unread' \subseteq 1 .. MaxItems /\ <<>> \in Seq(Item)
  BY <1>2, <1>3, <1>4, EmptySeq
<1>6. Answers(<<>>)
  BY <1>1, <1>2, <1>3, <1>5, ServedIs
<1>7. walk.pc = "asked"
  BY <1>2, Zenon DEF Served
<1>8. QED
  BY <1>2, <1>6, <1>7, AnswerWalks DEF ReadsPage

LEMMA WalkBegins == Init => WInv
<1> SUFFICES ASSUME Init PROVE WInv
  OBVIOUS
<1>1. PICK l \in Lists, size \in 1 .. (MaxPerPage + 1) :
        /\ list = [i \in DOMAIN l |-> [id |-> i, kind |-> l[i]]]
        /\ made = Len(l)
        /\ walk = [pc |-> "ready", comments |-> "comment" \in {l[i] : i \in DOMAIN l},
                   page |-> 1, size |-> size, wait |-> 0, got |-> <<>>]
  BY DEF Init
<1>2. /\ quota \in [left : 0 .. Quota, reset : 1 .. Window] /\ faults = 0 /\ start = list
      /\ added = FALSE /\ removed = FALSE /\ refused = 0 /\ unread = {}
  BY DEF Init
<1> DEFINE n == Len(l)
<1>3. /\ l \in Seq(Kinds) /\ n <= MaxItems
      /\ \A i, j \in DOMAIN l : l[i] = "comment" => l[j] = "comment"
  BY ListsAssumption
<1>4. n \in Nat /\ DOMAIN l = 1 .. n
  BY <1>3, LenProperties
<1>5. \A i \in 1 .. n : l[i] \in Kinds
  BY <1>3, ElementOfSeq
<1> HIDE DEF n
<1>6. \A i \in 1 .. n : list[i] = [id |-> i, kind |-> l[i]]
  BY <1>1, <1>4
<1>7. \A i \in 1 .. n : list[i] \in Item /\ list[i].id = i /\ list[i].kind = l[i]
  <2>1. \A i \in 1 .. n : i \in 1 .. MaxItems
    BY <1>3, <1>4, WalkAssumption DEF n
  <2>2. QED
    <3>1. ASSUME NEW i \in 1 .. n PROVE [id |-> i, kind |-> l[i]] \in Item
      <4>1. i \in 1 .. MaxItems /\ l[i] \in Kinds
        BY <1>5, <2>1
      <4>2. QED
        BY <4>1 DEF Item
    <3>2. ASSUME NEW i \in 1 .. n PROVE list[i].id = i /\ list[i].kind = l[i]
      <4> DEFINE e == [id |-> i, kind |-> l[i]]
      <4>1. e.id = i /\ e.kind = l[i]
        OBVIOUS
      <4>2. list[i] = e
        BY <1>6
      <4> HIDE DEF e
      <4>3. QED
        BY <4>1, <4>2
    <3>3. QED
      BY <1>6, <3>1, <3>2
<1>8. list \in Seq(Item) /\ Len(list) = n
  <2>1. [i \in 1 .. n |-> [id |-> i, kind |-> l[i]]] \in Seq(Item)
    <3>1. \A i \in 1 .. n : [id |-> i, kind |-> l[i]] \in Item
      BY <1>6, <1>7
    <3>2. QED
      BY <1>4, <3>1, IsASeq
  <2>2. list \in Seq(Item) /\ DOMAIN list = 1 .. n
    BY <1>1, <1>4, <2>1
  <2>3. Len(list) \in Nat /\ DOMAIN list = 1 .. Len(list)
    BY <2>2, LenProperties
  <2>4. QED
    BY <1>4, <2>2, <2>3
<1>9. /\ walk.pc = "ready" /\ walk.page = 1 /\ walk.size = size /\ walk.wait = 0
      /\ walk.got = <<>>
      /\ walk.comments <=> "comment" \in {l[i] : i \in DOMAIN l}
  BY <1>1
<1>10. <<>> \in Seq(Item) /\ Len(<<>>) = 0 /\ \A x : ~ Occurs(x, <<>>)
  BY EmptySeq DEF Occurs
<1>11. size \in Nat \ {0}
  BY WalkAssumption
<1>12. Passed(walk) = 0
  <2>1. \A m \in Nat : (1 - 1) * m = 0
    OBVIOUS
  <2>2. QED
    BY <1>9, <1>11, <2>1 DEF Passed
<1>13. Walking /\ ~ Done /\ ~ GaveUp
  BY <1>9 DEF Walking, Done, GaveUp
<1>14. TypeOK
  <2>1. WalkType(walk)
    BY <1>1, <1>10, <1>11 DEF WalkType
  <2>2. made = n
    BY <1>1 DEF n
  <2>3. made \in 0 .. MaxItems
    BY <1>3, <1>4, <2>2, WalkAssumption DEF n
  <2>4. RestType
    <3>1. added \in BOOLEAN /\ removed \in BOOLEAN /\ unread \subseteq 1 .. MaxItems
      BY <1>2
    <3>2. faults \in 0 .. MaxFaults /\ refused \in Nat
      <4>1. faults = 0 /\ refused = 0
        BY <1>2
      <4>2. QED
        BY <4>1, WalkAssumption
    <3>3. start \in Seq(Item)
      BY <1>2, <1>8
    <3>4. QED
      BY <1>2, <1>8, <2>3, <3>1, <3>2, <3>3 DEF RestType
  <2>5. QED
    BY <2>1, <2>4, TypeParts
<1>15. OwnOK
  BY <1>9, <1>10 DEF OwnOK, NoPulls
<1>16. KindsOK
  <2>1. ASSUME walk.comments PROVE \A i \in 1 .. n : l[i] = "comment"
    BY <1>3, <1>4, <1>9, <2>1
  <2>2. ASSUME walk.comments PROVE \A i \in 1 .. n : ~ Pull(list[i])
    BY <1>7, <2>1, <2>2 DEF Pull
  <2>3. QED
    BY <1>2, <1>8, <2>2 DEF KindsOK, NoPulls, Occurs
<1>17. ShapeOK /\ PlaceOK
  BY <1>1, <1>4, <1>8, <1>9, <1>12 DEF ShapeOK, PlaceOK, n
<1>18. StillOK
  <2>1. Stretch(list, 0, 0) = <<>>
    BY <1>8, StretchAll
  <2>2. QED
    BY <1>2, <1>9, <1>12, <1>13, <2>1, KeptEmpty DEF StillOK
<1>19. AheadOK
  <2>1. \A x : Occurs(x, list) => OccursAfter(x, list, 0)
    BY <1>8, AfterNothing
  <2>2. QED
    BY <1>2, <1>12, <1>13, <2>1 DEF AheadOK
<1>20. MadeOK
  <2>1. \A i \in 1 .. n : MadeBy(list[i], n)
    BY <1>4, <1>7 DEF MadeBy
  <2>2. made = n
    BY <1>1 DEF n
  <2>3. QED
    BY <1>8, <1>9, <1>10, <2>1, <2>2 DEF MadeOK, Occurs
<1>21. OrderOK
  <2>1. Rising(list)
    <3>1. \A i, j \in 1 .. n : i < j => Earlier(list[i], list[j])
      BY <1>7 DEF Earlier
    <3>2. QED
      BY <1>8, <3>1 DEF Rising
  <2>2. Rising(walk.got)
    <3>1. 1 .. 0 = {}
      OBVIOUS
    <3>2. QED
      BY <1>9, <1>10, <3>1 DEF Rising
  <2>3. QED
    BY <1>9, <1>10, <2>1, <2>2 DEF OrderOK
<1>22. QED
  BY <1>14, <1>15, <1>16, <1>17, <1>18, <1>19, <1>20, <1>21 DEF WInv

LEMMA WalkGoesOn == WInv /\ [Next]_vars => WInv'
<1> SUFFICES ASSUME WInv, [Next]_vars PROVE WInv'
  OBVIOUS
<1>1. CASE Walk
  BY <1>1, AskWalks, AnswerPageWalks, AnswerUnreadWalks, RefuseWalks, RequestFailsWalks
  DEF Walk
<1>2. CASE Tick
  BY <1>2, TickWalks
<1>3. ASSUME NEW i \in 1 .. (Len(list) + 1), NEW kind \in Kinds, Add(i, kind) PROVE WInv'
  BY <1>3, AddWalks
<1>4. ASSUME NEW i \in DOMAIN list, Leave(i) PROVE WInv'
  BY <1>4, LeaveWalks
<1>5. CASE UNCHANGED vars
  <2>1. UNCHANGED <<list, made, quota, walk, faults, start, added, removed, refused, unread>>
    BY <1>5 DEF vars
  <2>2. TypeOK' /\ OwnOK' /\ KindsOK' /\ MadeOK'
    BY <2>1 DEF WInv, TypeOK, OwnOK, KindsOK, MadeOK
  <2>3. ShapeOK' /\ PlaceOK'
    BY <2>1 DEF WInv, ShapeOK, PlaceOK, Walking
  <2>4. StillOK' /\ AheadOK' /\ OrderOK'
    BY <2>1 DEF WInv, StillOK, AheadOK, Missed, OrderOK, Walking, Done, GaveUp
  <2>5. QED
    BY <2>2, <2>3, <2>4 DEF WInv
<1>6. QED
  BY <1>1, <1>2, <1>3, <1>4, <1>5 DEF Next

LEMMA WalkInvariant == Spec => []WInv
BY WalkBegins, WalkGoesOn, PTL DEF Spec

-----------------------------------------------------------------------------
(* The state keeps its shape: whatever links a caller follows, the page it *)
(* asks for is one the service accepts, with the per_page it began with.   *)
THEOREM WalkTypeCorrect == Spec => []TypeOK
<1>1. WInv => TypeOK
  BY DEF WInv
<1>2. QED
  BY <1>1, WalkInvariant, PTL

(* The pages of a list that stands still are the list without its pull     *)
(* requests, in its order, for every list, page size and quota, whatever   *)
(* rate limits and failures came between, as long as every page that held  *)
(* something could be read.                                                *)
THEOREM WalkShowsTheList == Spec => []WalkIsTheList
<1>1. WInv => WalkIsTheList
  BY DEF WInv, StillOK, WalkIsTheList, Done, Due
<1>2. QED
  BY <1>1, WalkInvariant, PTL

(* However many items are added while the walk goes on, wherever they come *)
(* into the list, it misses none that was there when it began, but for     *)
(* those on a page whose body could not be read: else only a removal makes *)
(* it skip.                                                                *)
THEOREM WalkComplete == Spec => []WalkMissesNothing
<1>1. ASSUME WInv, walk.pc = "done", ~ removed, NEW i \in DOMAIN Due
      PROVE  Due[i].id \in Collected \cup unread
  <2>1. Done /\ ~ GaveUp /\ ~ Walking
    BY <1>1, Stages DEF Done
  <2>2. start \in Seq(Item) /\ walk.got \in Seq(Item)
    BY <1>1, TypeParts, Fields DEF WInv, RestType
  <2>3. Due \in Seq(Item)
    BY <2>2, KeptTyped DEF Due
  <2>4. Occurs(Due[i], Due)
    <3>1. DOMAIN Due = 1 .. Len(Due)
      BY <2>3, LenProperties
    <3>2. QED
      BY <3>1 DEF Occurs
  <2>5. Occurs(Due[i], start) /\ ~ Pull(Due[i])
    BY <2>2, <2>4, KeptOccurs DEF Due
  <2>6. Occurs(Due[i], walk.got) \/ Due[i].id \in unread
    BY <1>1, <2>1, <2>5 DEF WInv, AheadOK, Missed
  <2>7. DOMAIN walk.got = 1 .. Len(walk.got)
    BY <2>2, LenProperties
  <2>8. QED
    BY <2>6, <2>7 DEF Occurs, Collected, Numbers
<1>2. WInv => WalkMissesNothing
  BY <1>1 DEF WalkMissesNothing
<1>3. QED
  BY <1>2, WalkInvariant, PTL

(* No pull request is ever collected, and no comment twice: items come in  *)
(* at the end of the comments only, so that nothing collected can be ahead *)
(* of the next page again.                                                 *)
THEOREM NothingForeignSeen == Spec => []NothingForeign
<1>1. ASSUME WInv PROVE NothingForeign
  <2>1. walk.got \in Seq(Item)
    BY <1>1, TypeParts, Fields DEF WInv
  <2>2. DOMAIN walk.got = 1 .. Len(walk.got)
    BY <2>1, LenProperties
  <2>3. \A i \in DOMAIN walk.got : ~ Pull(walk.got[i])
    BY <1>1, <2>2 DEF WInv, OwnOK, NoPulls, Occurs
  <2>4. walk.comments => Cardinality(Numbers(walk.got)) = Len(walk.got)
    BY <1>1, <2>1, NumbersDiffer DEF WInv, OrderOK
  <2>5. Collected = Numbers(walk.got)
    BY DEF Collected
  <2>6. QED
    BY <2>3, <2>4, <2>5 DEF NothingForeign, Pull
<1>2. QED
  BY <1>1, WalkInvariant, PTL
===============================================================================
