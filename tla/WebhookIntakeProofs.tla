------------------------- MODULE WebhookIntakeProofs -------------------------
(***************************************************************************)
(* Proofs about the checks of POST /webhook, for any events, delivery ids  *)
(* and actions: their order, and what they accept together.                *)
(***************************************************************************)
EXTENDS WebhookIntake, TLAPS

(* What one check says is a number. *)
LEMMA ChecksSay ==
  ASSUME NEW r \in AllRequests
  PROVE  /\ DOMAIN Checks(r) = 1..5
         /\ VerifySignature(r) \in {Continue, 401, 500}
         /\ ValidateEvent(r) \in {Continue, 400}
         /\ RequireDeliveryId(r) \in {Continue, 400}
         /\ ParseBody(r) \in {Continue, 400, 500}
         /\ RequireAction(r) \in {Continue, 400}
  BY DEF AllRequests, Checks, Continue, VerifySignature, ValidateEvent,
         RequireDeliveryId, ParseBody, RequireAction

(* The status of a request that is not accepted is what the first check    *)
(* says that stops it.                                                     *)
LEMMA FirstRefusal ==
  ASSUME NEW r \in AllRequests, ~ Accepted(r)
  PROVE  \E i \in 1..5 : /\ Status(r) = Checks(r)[i]
                         /\ Checks(r)[i] # Continue
                         /\ \A j \in 1 .. i - 1 : Checks(r)[j] = Continue
<1> DEFINE First(i) == /\ Checks(r)[i] # Continue
                       /\ \A j \in 1 .. i - 1 : Checks(r)[j] = Continue
<1>1. DOMAIN Checks(r) = 1..5
  BY ChecksSay
<1>2. \E i \in 1..5 : First(i)
  <2> HIDE DEF First
  <2>1. PICK k \in 1..5 : Checks(r)[k] # Continue
    BY <1>1 DEF Accepted
  <2> QED
    <3>1. CASE Checks(r)[1] # Continue
      BY <3>1 DEF First
    <3>2. CASE Checks(r)[1] = Continue /\ Checks(r)[2] # Continue
      BY <3>2 DEF First
    <3>3. CASE /\ Checks(r)[1] = Continue /\ Checks(r)[2] = Continue
               /\ Checks(r)[3] # Continue
      BY <3>3 DEF First
    <3>4. CASE /\ Checks(r)[1] = Continue /\ Checks(r)[2] = Continue
               /\ Checks(r)[3] = Continue /\ Checks(r)[4] # Continue
      BY <3>4 DEF First
    <3>5. CASE /\ Checks(r)[1] = Continue /\ Checks(r)[2] = Continue
               /\ Checks(r)[3] = Continue /\ Checks(r)[4] = Continue
      <4>1. k = 5
        BY <2>1, <3>5
      <4> QED BY <2>1, <3>5, <4>1 DEF First
    <3> QED BY <3>1, <3>2, <3>3, <3>4, <3>5
<1>3. First(CHOOSE i \in 1..5 : First(i))
  BY <1>2
<1>4. Status(r) = Checks(r)[CHOOSE i \in 1..5 : First(i)]
  BY <1>1 DEF Status
<1> QED BY <1>2, <1>3, <1>4

(* The signature is looked at first. *)
LEMMA SignatureFirst ==
  ASSUME NEW r \in AllRequests, r.sig # "valid"
  PROVE  Status(r) = VerifySignature(r)
<1>1. VerifySignature(r) # Continue
  BY DEF VerifySignature, AllRequests, Continue
<1>2. Checks(r)[1] = VerifySignature(r)
  BY DEF Checks
<1>3. ~ Accepted(r)
  BY <1>1, <1>2, ChecksSay DEF Accepted
<1>4. PICK i \in 1..5 : /\ Status(r) = Checks(r)[i]
                        /\ \A j \in 1 .. i - 1 : Checks(r)[j] = Continue
  BY <1>3, FirstRefusal
<1>5. i = 1
  BY <1>1, <1>2, <1>4
<1> QED BY <1>2, <1>4, <1>5

(* 204 comes only from all checks together. *)
LEMMA AcceptedStatus ==
  ASSUME NEW r \in AllRequests
  PROVE  Status(r) = 204 <=> Accepted(r) /\ r.storable
<1>1. CASE Accepted(r)
  BY <1>1 DEF Status, AllRequests
<1>2. CASE ~ Accepted(r)
  <2>1. PICK i \in 1..5 : Status(r) = Checks(r)[i]
    BY <1>2, FirstRefusal
  <2>2. Checks(r)[i] # 204
    BY ChecksSay DEF Checks, Continue
  <2> QED BY <1>2, <2>1, <2>2
<1> QED BY <1>1, <1>2

LEMMA AcceptedWellFormed ==
  ASSUME NEW r \in AllRequests
  PROVE  Accepted(r) /\ r.storable <=> WellFormed(r)
<1>1. Accepted(r) <=> /\ VerifySignature(r) = Continue
                      /\ ValidateEvent(r) = Continue
                      /\ RequireDeliveryId(r) = Continue
                      /\ ParseBody(r) = Continue
                      /\ RequireAction(r) = Continue
  BY ChecksSay DEF Accepted, Checks
<1> QED
  BY <1>1, AbsentAssumption
  DEF WellFormed, AllRequests, Continue, VerifySignature, ValidateEvent,
      RequireDeliveryId, ParseBody, RequireAction, PayloadAction,
      SUPPORTED_EVENTS, ACTION_REQUIRED_EVENTS

(* A request that has its status has the one the checks give it. *)
Answered == /\ request \in RequestClasses
            /\ status # Unanswered => status = Status(request)

THEOREM AnsweredAlways == Spec => []Answered
<1>1. Init => Answered
  BY DEF Init, Answered
<1>2. Answered /\ [Next]_vars => Answered'
  BY DEF Answered, Next, Answer, NextRequest, vars, Unanswered, Continue
<1> QED BY <1>1, <1>2, PTL DEF Spec

(* The answer to a request without a valid signature depends on nothing    *)
(* but its signature header.                                               *)
THEOREM NothingLearned == Spec => []UnauthenticatedLearnsNothing
<1>1. Answered => UnauthenticatedLearnsNothing
  <2> SUFFICES ASSUME Answered, status # Unanswered, request.sig # "valid",
                      NEW r \in RequestClasses, r.sig = request.sig
               PROVE  Status(r) = status
    BY DEF UnauthenticatedLearnsNothing
  <2>1. r \in AllRequests /\ request \in AllRequests
    BY DEF RequestClasses, Answered
  <2>2. VerifySignature(r) = VerifySignature(request)
    BY DEF VerifySignature
  <2> QED BY <2>1, <2>2, SignatureFirst DEF Answered
<1> QED BY <1>1, AnsweredAlways, PTL

(* 204 goes to the well formed deliveries, to all of them and no others.   *)
THEOREM AcceptedExactly == Spec => []AcceptsExactly
<1>1. Answered => AcceptsExactly
  BY AcceptedStatus, AcceptedWellFormed DEF Answered, AcceptsExactly, RequestClasses
<1> QED BY <1>1, AnsweredAlways, PTL
=============================================================================
