--------------------------- MODULE AttemptsProofs ---------------------------
(***************************************************************************)
(* What a client sees of a request's attempts, for any number of requests  *)
(* and upstreams, any retry budget and any breaker: one response, always,  *)
(* and the truth about a simulation that was cut.                          *)
(***************************************************************************)
EXTENDS Attempts, FiniteSetTheorems, TLAPS

\* The upstreams to try are distinct, the externals last.
Ranked(s) ==
  \A i, j \in 1 .. Len(s) :
    i < j => s[i] # s[j] /\ ~(s[i] \in Externals /\ s[j] \in Mesh)

\* What holds of one request at each of its steps: nothing has been sent until an
\* attempt passes an answer on, and then the request is only left to return.
Sound(q) ==
  /\ q \in RequestRec
  /\ q.pc \in {"new", "pick", "try", "forward", "spent", "check"} => q.sent = 0
  /\ q.pc = "judge" => /\ q.last \in Outcomes
                       /\ q.last \in Passed => q.sent = 1 /\ q.answer = "upstream"
                       /\ q.last \notin Passed => q.sent = 0
  /\ q.pc = "done" => /\ q.sent = 1 \/ (q.sent = 0 /\ q.gone)
                      /\ q.cause = "quota" /\ ~q.gone
                           => q.answer \in {"quota", "upstream", "aborted"}
  /\ Ranked(q.tries)
  /\ q.pc \in {"forward", "judge"} => q.begun \in 1 .. Len(q.tries)
  /\ q.pc = "try" => q.begun < Len(q.tries)
  /\ q.pc \in {"new", "pick"} => q.begun = 0
  /\ q.cause = "gone" => q.gone
  /\ q.hurried => q.pc = "forward" /\ q.begun = 1
  /\ q.pc = "check" => \A i \in 1 .. Len(q.tries) : q.tries[i] \notin Externals

\* The inductive invariant.
SoundInv ==
  /\ req \in [Requests -> RequestRec]
  /\ \A r \in Requests : Sound(req[r])

LEMMA NoRequestSound == Sound(NoRequest)
<1>1. NoRequest \in RequestRec
  BY DEF NoRequest, RequestRec
<1> QED BY <1>1 DEF NoRequest, Sound, Ranked

\* A step that changes one request, soundly, keeps the invariant.
LEMMA OneChanges ==
  ASSUME SoundInv, NEW r \in Requests, NEW q, Sound(q), req' = [req EXCEPT ![r] = q]
  PROVE  SoundInv'
<1>1. q \in RequestRec
  BY DEF Sound
<1> QED BY <1>1 DEF SoundInv

Answers == {"none", "upstream", "aborted", "unroutable", "quota", "timeout", "busy", "failed"}

\* The handler's last record of a request.
LEMMA ReturnFields ==
  ASSUME NEW q, q \in RequestRec
  PROVE  /\ Return(q) \in RequestRec
         /\ Return(q).pc = "done" /\ Return(q).tries = <<>> /\ Return(q).hurried = FALSE
         /\ Return(q).gone = q.gone /\ Return(q).cause = q.cause
         /\ Return(q).sent = q.sent /\ Return(q).answer = q.answer
<1>1. q.gone \in BOOLEAN /\ q.cause \in {"none", "gone", "quota", "deadline"}
      /\ q.sent \in Nat /\ q.answer \in Answers
  BY DEF RequestRec, Answers
<1> DEFINE n == NoRequest
<1>2. /\ n \in RequestRec /\ n.tries = <<>> /\ n.hurried = FALSE
  BY NoRequestSound DEF Sound, NoRequest
<1>3. Return(q) = [n EXCEPT !.pc = "done", !.gone = q.gone, !.cause = q.cause,
                            !.sent = q.sent, !.answer = q.answer]
  BY DEF Return
<1> HIDE DEF n
<1> QED BY <1>1, <1>2, <1>3, ZenonT(60) DEF RequestRec, Answers

\* ... when the handler answers the client itself.
LEMMA AnswerFields ==
  ASSUME NEW q, q \in RequestRec, NEW a \in Answers
  PROVE  /\ Answer(q, a) \in RequestRec
         /\ Answer(q, a).pc = "done" /\ Answer(q, a).tries = <<>> /\ Answer(q, a).hurried = FALSE
         /\ Answer(q, a).gone = q.gone /\ Answer(q, a).cause = q.cause
         /\ Answer(q, a).sent = q.sent + 1 /\ Answer(q, a).answer = a
<1> DEFINE n == Return(q)
<1>1. /\ n \in RequestRec /\ n.pc = "done" /\ n.tries = <<>> /\ n.hurried = FALSE
      /\ n.gone = q.gone /\ n.cause = q.cause /\ n.sent = q.sent
  BY ReturnFields
<1> DEFINE m == q.sent + 1
<1>2. Answer(q, a) = [n EXCEPT !.sent = m, !.answer = a]
  BY <1>1 DEF Answer
<1>3. m \in Nat
  BY DEF RequestRec
<1> HIDE DEF n, m
<1>4. Answer(q, a) \in RequestRec
  BY <1>1, <1>2, <1>3, ZenonT(60) DEF RequestRec, Answers
<1>5. /\ Answer(q, a).pc = n.pc /\ Answer(q, a).tries = n.tries
      /\ Answer(q, a).hurried = n.hurried
      /\ Answer(q, a).gone = n.gone /\ Answer(q, a).cause = n.cause
      /\ Answer(q, a).sent = m /\ Answer(q, a).answer = a
  BY <1>1, <1>2 DEF RequestRec
<1> QED BY <1>1, <1>4, <1>5 DEF m

\* A request that is over has nothing left to try.
LEMMA OverSound ==
  ASSUME NEW q \in RequestRec, q.pc = "done", q.tries = <<>>, q.hurried = FALSE,
         q.sent = 1 \/ (q.sent = 0 /\ q.gone),
         q.cause = "quota" /\ ~q.gone => q.answer \in {"quota", "upstream", "aborted"},
         q.cause = "gone" => q.gone
  PROVE  Sound(q)
<1>1. Ranked(q.tries)
  BY DEF Ranked
<1> QED BY <1>1 DEF Sound

LEMMA AnswerSound ==
  ASSUME NEW q, Sound(q), q.sent = 0, NEW a,
         a \in {"unroutable", "quota", "timeout", "busy", "failed"},
         q.cause = "quota" /\ ~q.gone => a = "quota"
  PROVE  Sound(Answer(q, a))
<1>1. q \in RequestRec /\ a \in Answers /\ (q.cause = "gone" => q.gone)
  BY DEF Sound, Answers
<1> DEFINE x == Answer(q, a)
<1>2. /\ x \in RequestRec /\ x.pc = "done" /\ x.tries = <<>> /\ x.hurried = FALSE
      /\ x.gone = q.gone /\ x.cause = q.cause /\ x.sent = q.sent + 1 /\ x.answer = a
  BY <1>1, AnswerFields
<1> HIDE DEF x
<1>3. x.sent = 1
  BY <1>2
<1>4. Sound(x)
  BY <1>1, <1>2, <1>3, OverSound
<1> QED BY <1>4 DEF x

LEMMA ReturnSound ==
  ASSUME NEW q, Sound(q),
         \/ q.sent = 1 /\ q.answer = "upstream"
         \/ q.sent = 0 /\ q.gone
  PROVE  Sound(Return(q))
<1>1. q \in RequestRec /\ (q.cause = "gone" => q.gone)
  BY DEF Sound
<1> QED BY <1>1, ReturnFields, OverSound

LEMMA AnswerFailureSound ==
  ASSUME NEW q, Sound(q), q.sent = 0, q.cause = "quota" => q.gone
  PROVE  Sound(AnswerFailure(q))
<1>1. q.gone \in BOOLEAN
  BY DEF Sound, RequestRec
<1>2. CASE q.gone
  BY <1>2, ReturnSound DEF AnswerFailure
<1>3. CASE ~q.gone
  <2> DEFINE a == IF q.last \in DeadlineExceeded THEN "timeout"
                  ELSE IF q.last = "full" /\ q.kind \in Heavy THEN "busy" ELSE "failed"
  <2>1. AnswerFailure(q) = Answer(q, a) /\ a \in {"timeout", "busy", "failed"}
    BY <1>3 DEF AnswerFailure
  <2> HIDE DEF a
  <2> QED BY <1>3, <2>1, AnswerSound
<1> QED BY <1>1, <1>2, <1>3

LEMMA GiveUpSound ==
  ASSUME NEW q, Sound(q), q.sent = 0
  PROVE  Sound(GiveUp(q))
BY AnswerSound, AnswerFailureSound DEF GiveUp

-----------------------------------------------------------------------------
(* The steps.                                                              *)

\* Any selection is ranked, and so is what the budget leaves of it.
LEMMA TriesRanked ==
  ASSUME NEW es \in SUBSET Upstreams, NEW s \in Orders(es), NEW replay \in BOOLEAN
  PROVE  /\ Tries(s, replay) \in Seq(Upstreams)
         /\ Ranked(Tries(s, replay))
         /\ s # <<>> => Len(Tries(s, replay)) > 0
<1> DEFINE n == Cardinality(es)
<1>1. n \in Nat
  <2>1. IsFiniteSet(Upstreams)
    BY AttemptsAssumption, FS_Union DEF Upstreams
  <2> QED BY <2>1, FS_Subset, FS_CardinalityType
<1>2. s \in [1 .. n -> Upstreams]
  BY DEF Orders
<1> HIDE DEF n
<1>3. s \in Seq(Upstreams) /\ Len(s) = n
  BY <1>1, <1>2
<1>4. \A i, j \in 1 .. n : i < j => s[i] # s[j] /\ ~(s[i] \in Externals /\ s[j] \in Mesh)
  BY DEF Orders, n
<1> DEFINE most == IF ~replay THEN 1 ELSE IF RetryBudget >= 0 THEN 1 + RetryBudget ELSE Len(s)
           k == IF most < Len(s) THEN most ELSE Len(s)
<1>5. k \in 0 .. n /\ (n > 0 => k > 0)
  BY <1>1, <1>3, AttemptsAssumption
<1>6. Tries(s, replay) = SubSeq(s, 1, k)
  BY DEF Tries
<1> HIDE DEF k
<1>7. /\ SubSeq(s, 1, k) \in Seq(Upstreams)
      /\ Len(SubSeq(s, 1, k)) = k
      /\ \A i \in 1 .. k : SubSeq(s, 1, k)[i] = s[i]
  BY <1>1, <1>3, <1>5
<1>8. Ranked(SubSeq(s, 1, k))
  BY <1>1, <1>4, <1>5, <1>7 DEF Ranked
<1>9. s # <<>> => n > 0
  BY <1>1, <1>3
<1> QED BY <1>5, <1>6, <1>7, <1>8, <1>9

\* What the steps before an attempt change of a request.
LEMMA ArriveSound ==
  ASSUME SoundInv, NEW r \in Requests, NEW kind \in Kinds, NEW replay \in BOOLEAN,
         NEW es \in SUBSET Upstreams, NEW s \in Orders(es), Arrive(r, kind, replay, s)
  PROVE  SoundInv'
<1> DEFINE t == Tries(s, replay)
           pc == IF s = <<>> THEN "pick" ELSE "try"
           q == [NoRequest EXCEPT !.pc = pc, !.kind = kind, !.replay = replay, !.tries = t]
<1>1. t \in Seq(Upstreams) /\ Ranked(t) /\ (pc = "try" => Len(t) > 0)
  BY TriesRanked
<1>2. req' = [req EXCEPT ![r] = q]
  BY DEF Arrive
<1> DEFINE n == NoRequest
<1>3. n \in RequestRec /\ n.sent = 0 /\ n.begun = 0 /\ n.cause = "none" /\ n.hurried = FALSE
  BY NoRequestSound DEF Sound, NoRequest
<1>4. pc \in {"pick", "try"}
  OBVIOUS
<1>5. q = [n EXCEPT !.pc = pc, !.kind = kind, !.replay = replay, !.tries = t]
  OBVIOUS
<1> HIDE DEF t, pc, n, q
<1>6. /\ q \in RequestRec /\ q.pc = pc /\ q.tries = t /\ q.sent = 0 /\ q.begun = 0 /\ q.cause = "none"
      /\ q.hurried = FALSE
  BY <1>1, <1>3, <1>4, <1>5 DEF RequestRec
<1>7. Sound(q)
  BY <1>1, <1>4, <1>6 DEF Sound
<1> QED BY <1>2, <1>7, OneChanges

LEMMA PickSound ==
  ASSUME SoundInv, NEW r \in Requests
  PROVE  /\ CannotServe(r) => SoundInv'
         /\ \A es \in SUBSET Upstreams : \A s \in Orders(es) : PickAgain(r, s) => SoundInv'
<1> DEFINE q == req[r]
<1>1. Sound(q) /\ q \in RequestRec /\ q.replay \in BOOLEAN /\ (q.cause = "gone" => q.gone)
  BY DEF SoundInv, Sound, RequestRec
<1>2. ASSUME CannotServe(r) PROVE SoundInv'
  <2> DEFINE a == IF q.cause = "quota" THEN "quota" ELSE "unroutable"
  <2>1. req' = [req EXCEPT ![r] = Answer(q, a)] /\ q.pc = "pick"
    BY <1>2 DEF CannotServe, SoundInv
  <2>2. q.sent = 0
    BY <1>1, <2>1 DEF Sound
  <2>3. Sound(Answer(q, a))
    BY <1>1, <2>2, AnswerSound
  <2> QED BY <2>1, <2>3, OneChanges
<1>3. ASSUME NEW es \in SUBSET Upstreams, NEW s \in Orders(es), PickAgain(r, s) PROVE SoundInv'
  <2> DEFINE t == Tries(s, q.replay)
             x == [q EXCEPT !.pc = "try", !.tries = t]
  <2>1. req' = [req EXCEPT ![r] = x] /\ q.pc = "pick" /\ s # <<>>
    BY <1>3 DEF PickAgain, SoundInv
  <2>2. t \in Seq(Upstreams) /\ Ranked(t) /\ Len(t) > 0
    BY <1>1, <2>1, TriesRanked
  <2>3. q.sent = 0 /\ q.begun = 0 /\ ~q.hurried
    BY <1>1, <2>1 DEF Sound
  <2> HIDE DEF t, q
  <2>4. x \in RequestRec /\ x.pc = "try" /\ x.tries = t /\ x.sent = 0 /\ x.begun = 0
        /\ x.gone = q.gone /\ x.cause = q.cause /\ x.hurried = q.hurried
    BY <1>1, <2>2, <2>3 DEF RequestRec
  <2> HIDE DEF x
  <2>5. Sound(x)
    BY <1>1, <2>2, <2>3, <2>4 DEF Sound
  <2> QED BY <2>1, <2>5, OneChanges
<1> QED BY <1>2, <1>3

LEMMA BeginSound ==
  ASSUME SoundInv, NEW r \in Requests, Begin(r) \/ BreakOff(r)
  PROVE  SoundInv'
<1> DEFINE q == req[r]
<1>1. Sound(q) /\ q \in RequestRec /\ q.begun \in Nat /\ q.tries \in Seq(Upstreams) /\ (q.cause = "gone" => q.gone)
  BY DEF SoundInv, Sound, RequestRec
<1>2. q.pc = "try" /\ q.sent = 0 /\ q.begun < Len(q.tries) /\ Ranked(q.tries)
  BY <1>1 DEF Begin, BreakOff, Sound
<1>3. CASE Begin(r)
  <2> DEFINE n == q.begun + 1
             h == ~TimeLeft(q)
             x == [q EXCEPT !.pc = "forward", !.begun = n, !.hurried = h]
  <2>1. req' = [req EXCEPT ![r] = x]
    BY <1>3 DEF Begin, SoundInv
  <2>2. n \in Nat /\ n \in 1 .. Len(q.tries)
    BY <1>1, <1>2
  <2>5. h \in BOOLEAN /\ (h => n = 1)
    BY <1>1, <1>3 DEF Begin
  <2> HIDE DEF n, q, h
  <2>3. x \in RequestRec /\ x.pc = "forward" /\ x.tries = q.tries /\ x.sent = 0 /\ x.begun = n
        /\ x.gone = q.gone /\ x.cause = q.cause /\ x.hurried = h
    BY <1>1, <1>2, <2>2, <2>5 DEF RequestRec
  <2> HIDE DEF x
  <2>4. Sound(x)
    BY <1>1, <1>2, <2>2, <2>3, <2>5 DEF Sound
  <2> QED BY <2>1, <2>4, OneChanges
<1>4. CASE BreakOff(r)
  <2> DEFINE x == [q EXCEPT !.pc = "spent"]
  <2>1. req' = [req EXCEPT ![r] = x]
    BY <1>4 DEF BreakOff, SoundInv
  <2> HIDE DEF q
  <2>2. x \in RequestRec /\ x.pc = "spent" /\ x.tries = q.tries /\ x.sent = 0
        /\ x.gone = q.gone /\ x.cause = q.cause /\ x.hurried = q.hurried
    BY <1>1, <1>2 DEF RequestRec
  <2> HIDE DEF x
  <2>3. Sound(x)
    BY <1>1, <1>2, <2>2 DEF Sound
  <2> QED BY <2>1, <2>3, OneChanges
<1> QED BY <1>3, <1>4

LEMMA AttemptEndsSound ==
  ASSUME SoundInv, NEW r \in Requests, NEW out \in Outcomes, NEW d, AttemptEnds(r, out, d)
  PROVE  SoundInv'
<1> DEFINE q == req[r]
           sent == IF out \in Passed THEN q.sent + 1 ELSE q.sent
           answer == IF out \in Passed THEN "upstream" ELSE q.answer
           x == [q EXCEPT !.pc = "judge", !.last = out, !.hurried = FALSE, !.sent = sent,
                          !.answer = answer]
<1>1. Sound(q) /\ q \in RequestRec /\ (q.cause = "gone" => q.gone)
  BY DEF SoundInv, Sound
<1>2. q.pc = "forward" /\ q.sent = 0 /\ q.begun \in 1 .. Len(q.tries) /\ Ranked(q.tries)
  BY <1>1 DEF AttemptEnds, Sound
<1>3. req' = [req EXCEPT ![r] = x]
  BY DEF AttemptEnds, SoundInv
<1>4. /\ sent = IF out \in Passed THEN 1 ELSE 0
      /\ sent \in Nat
      /\ answer \in Answers
      /\ out \in Passed => answer = "upstream"
  BY <1>1, <1>2 DEF RequestRec, Answers
<1> HIDE DEF q, sent, answer
<1>5. x \in RequestRec
  BY <1>1, <1>4, ZenonT(60) DEF RequestRec, Answers
<1>6. /\ x.pc = "judge" /\ x.tries = q.tries /\ x.sent = sent
      /\ x.begun = q.begun /\ x.last = out /\ x.answer = answer
      /\ x.gone = q.gone /\ x.cause = q.cause /\ x.hurried = FALSE
  BY <1>1 DEF RequestRec
<1> HIDE DEF x
<1>7. Sound(x)
  BY <1>1, <1>2, <1>4, <1>5, <1>6 DEF Sound
<1> QED BY <1>3, <1>7, OneChanges

LEMMA AbortSound ==
  ASSUME SoundInv, NEW r \in Requests, Abort(r)
  PROVE  SoundInv'
<1> DEFINE q == req[r]
<1>1. Sound(q) /\ q \in RequestRec /\ (q.cause = "gone" => q.gone)
  BY DEF SoundInv, Sound
<1>2. q.pc = "forward" /\ q.sent = 0
  BY <1>1 DEF Abort, Sound
<1>3. req' = [req EXCEPT ![r] = Answer(q, "aborted")]
  BY DEF Abort, SoundInv
<1>0. "aborted" \in Answers
  BY DEF Answers
<1> HIDE DEF q
<1> DEFINE x == Answer(q, "aborted")
<1>4. /\ x \in RequestRec /\ x.pc = "done" /\ x.tries = <<>> /\ x.hurried = FALSE
      /\ x.gone = q.gone /\ x.cause = q.cause /\ x.sent = q.sent + 1 /\ x.answer = "aborted"
  BY <1>0, <1>1, AnswerFields
<1> HIDE DEF x
<1>5. x.sent = 1
  BY <1>2, <1>4
<1>6. Sound(x)
  BY <1>1, <1>4, <1>5, OverSound
<1> QED BY <1>3, <1>6, OneChanges DEF x

LEMMA JudgeSound ==
  ASSUME SoundInv, NEW r \in Requests, Judge(r)
  PROVE  SoundInv'
<1> DEFINE q == req[r]
           next == IF q.begun < Len(q.tries) THEN "try" ELSE "spent"
           x == [q EXCEPT !.pc = next]
<1>1. Sound(q) /\ q \in RequestRec /\ (q.cause = "gone" => q.gone)
  BY DEF SoundInv, Sound
<1>2. /\ q.pc = "judge"
      /\ q.last \in Passed => q.sent = 1 /\ q.answer = "upstream"
      /\ q.last \notin Passed => q.sent = 0
      /\ q.gone \in BOOLEAN
  BY <1>1 DEF Judge, Sound, RequestRec
<1>3. CASE Replied(q)
  <2>1. req' = [req EXCEPT ![r] = Return(q)]
    BY <1>3 DEF Judge, SoundInv
  <2>2. Sound(Return(q))
    BY <1>1, <1>2, <1>3, ReturnSound DEF Replied
  <2> QED BY <2>1, <2>2, OneChanges
<1>4. CASE ~Replied(q) /\ q.cause = "quota"
  <2>1. req' = [req EXCEPT ![r] = Answer(q, "quota")]
    BY <1>4 DEF Judge, SoundInv
  <2>2. Sound(Answer(q, "quota"))
    BY <1>1, <1>2, <1>4, AnswerSound DEF Replied
  <2> QED BY <2>1, <2>2, OneChanges
<1>5. CASE ~Replied(q) /\ q.cause # "quota" /\ (q.fell \/ (q.kind = "simulate" /\ q.last \in DeadlineExceeded))
  <2>1. req' = [req EXCEPT ![r] = AnswerFailure(q)]
    BY <1>5 DEF Judge, SoundInv
  <2>2. Sound(AnswerFailure(q))
    BY <1>1, <1>2, <1>5, AnswerFailureSound DEF Replied
  <2> QED BY <2>1, <2>2, OneChanges
<1>6. CASE ~Replied(q) /\ q.cause # "quota" /\ ~(q.fell \/ (q.kind = "simulate" /\ q.last \in DeadlineExceeded))
  <2>1. req' = [req EXCEPT ![r] = x]
    BY <1>6 DEF Judge, SoundInv
  <2>2. q.sent = 0 /\ Ranked(q.tries) /\ q.begun \in 1 .. Len(q.tries) /\ ~q.hurried
    BY <1>1, <1>2, <1>6 DEF Replied, Sound
  <2>3. next \in {"try", "spent"} /\ (next = "try" => q.begun < Len(q.tries))
    OBVIOUS
  <2> HIDE DEF q, next
  <2>4. x \in RequestRec /\ x.pc = next /\ x.tries = q.tries /\ x.sent = 0 /\ x.begun = q.begun
        /\ x.gone = q.gone /\ x.cause = q.cause /\ x.hurried = q.hurried
    BY <1>1, <2>2, <2>3 DEF RequestRec
  <2> HIDE DEF x
  <2>5. Sound(x)
    BY <1>1, <2>2, <2>3, <2>4 DEF Sound
  <2> QED BY <2>1, <2>5, OneChanges
<1> QED BY <1>3, <1>4, <1>5, <1>6

LEMMA SpentSound ==
  ASSUME SoundInv, NEW r \in Requests, Spent(r)
  PROVE  SoundInv'
<1> DEFINE q == req[r]
           x == [q EXCEPT !.pc = "check"]
<1>1. Sound(q) /\ q \in RequestRec /\ (q.cause = "gone" => q.gone)
  BY DEF SoundInv, Sound
<1>2. q.pc = "spent" /\ q.sent = 0 /\ Ranked(q.tries)
  BY <1>1 DEF Spent, Sound
<1>3. CASE MayFallBack(q)
  <2>1. req' = [req EXCEPT ![r] = x]
    BY <1>3 DEF Spent, SoundInv
  <2> HIDE DEF q
  <2>2. x \in RequestRec /\ x.pc = "check" /\ x.tries = q.tries /\ x.sent = 0
        /\ x.gone = q.gone /\ x.cause = q.cause /\ x.hurried = q.hurried
    BY <1>1, <1>2 DEF RequestRec
  <2> HIDE DEF x
  <2>3. \A i \in 1 .. Len(x.tries) : x.tries[i] \notin Externals
    BY <1>3, <2>2 DEF MayFallBack
  <2>4. Sound(x)
    BY <1>1, <1>2, <2>2, <2>3 DEF Sound
  <2> QED BY <2>1, <2>4, OneChanges
<1>4. CASE ~MayFallBack(q)
  <2>1. req' = [req EXCEPT ![r] = GiveUp(q)]
    BY <1>4 DEF Spent, SoundInv
  <2>2. Sound(GiveUp(q))
    BY <1>1, <1>2, GiveUpSound
  <2> QED BY <2>1, <2>2, OneChanges
<1> QED BY <1>3, <1>4

\* An external is appended to upstreams none of which is one.
LEMMA FallBackSound ==
  ASSUME SoundInv, NEW r \in Requests
  PROVE  /\ \A e \in Externals : FallBack(r, e) => SoundInv'
         /\ NoFallBack(r) => SoundInv'
<1> DEFINE q == req[r]
<1>1. Sound(q) /\ q \in RequestRec /\ q.tries \in Seq(Upstreams) /\ (q.cause = "gone" => q.gone)
  BY DEF SoundInv, Sound, RequestRec
<1>2. ASSUME NEW e \in Externals, FallBack(r, e) PROVE SoundInv'
  <2> DEFINE t == Append(q.tries, e)
             n == Len(q.tries) + 1
             x == [q EXCEPT !.pc = "forward", !.tries = t, !.begun = n, !.fell = TRUE]
  <2>1. req' = [req EXCEPT ![r] = x] /\ q.pc = "check"
    BY <1>2 DEF FallBack, SoundInv
  <2>2. /\ q.sent = 0 /\ Ranked(q.tries) /\ ~q.hurried
        /\ \A i \in 1 .. Len(q.tries) : q.tries[i] \notin Externals
    BY <1>1, <2>1 DEF Sound
  <2>3. t \in Seq(Upstreams) /\ Len(t) = n /\ n \in Nat /\ n \in 1 .. Len(t)
    BY <1>1 DEF Upstreams
  <2>4. Ranked(t)
    <3>1. t[n] = e /\ \A i \in 1 .. Len(q.tries) : t[i] = q.tries[i]
      BY <1>1
    <3> SUFFICES ASSUME NEW i \in 1 .. n, NEW j \in 1 .. n, i < j
                 PROVE  t[i] # t[j] /\ ~(t[i] \in Externals /\ t[j] \in Mesh)
      BY <2>3 DEF Ranked
    <3>2. i \in 1 .. Len(q.tries) /\ t[i] = q.tries[i] /\ t[i] \notin Externals
      BY <1>1, <2>2, <3>1
    <3>3. CASE j = n
      BY <3>1, <3>2, <3>3
    <3>4. CASE j # n
      <4>1. j \in 1 .. Len(q.tries) /\ t[j] = q.tries[j]
        BY <1>1, <3>1, <3>4
      <4> QED BY <2>2, <3>2, <4>1 DEF Ranked
    <3> QED BY <3>3, <3>4
  <2> HIDE DEF q, t, n
  <2>5. x \in RequestRec /\ x.pc = "forward" /\ x.tries = t /\ x.sent = 0 /\ x.begun = n
        /\ x.gone = q.gone /\ x.cause = q.cause /\ x.hurried = q.hurried
    BY <1>1, <2>2, <2>3 DEF RequestRec
  <2> HIDE DEF x
  <2>6. Sound(x)
    BY <1>1, <2>2, <2>3, <2>4, <2>5 DEF Sound
  <2> QED BY <2>1, <2>6, OneChanges
<1>3. ASSUME NoFallBack(r) PROVE SoundInv'
  <2>1. req' = [req EXCEPT ![r] = GiveUp(q)] /\ q.pc = "check"
    BY <1>3 DEF NoFallBack, SoundInv
  <2>2. Sound(GiveUp(q))
    BY <1>1, <2>1, GiveUpSound DEF Sound
  <2> QED BY <2>1, <2>2, OneChanges
<1> QED BY <1>2, <1>3

\* What happens to a running request from outside leaves its attempts alone.
LEMMA OutsideSound ==
  ASSUME SoundInv, NEW r \in Requests, ClientLeaves(r) \/ QuotaRunsOut(r) \/ TimePasses(r)
  PROVE  SoundInv'
<1> DEFINE q == req[r]
           left == IF q.cause = "none" THEN "gone" ELSE q.cause
           late == IF q.short THEN "deadline" ELSE q.cause
<1>1. Sound(q) /\ q \in RequestRec /\ (q.cause = "gone" => q.gone)
  BY DEF SoundInv, Sound
<1>2. q.pc \notin {"new", "done"}
  BY DEF ClientLeaves, QuotaRunsOut, TimePasses, Running
<1>3. /\ left \in {"none", "gone", "quota", "deadline"}
      /\ late \in {"none", "gone", "quota", "deadline"}
  BY <1>1 DEF RequestRec
<1>4. ASSUME NEW x \in RequestRec, x.pc = q.pc, x.tries = q.tries, x.begun = q.begun,
             x.hurried = q.hurried,
             x.sent = q.sent, x.last = q.last, x.answer = q.answer,
             x.cause = "gone" => x.gone, req' = [req EXCEPT ![r] = x]
      PROVE  SoundInv'
  <2>1. Sound(x)
    BY <1>1, <1>2, <1>4 DEF Sound
  <2> QED BY <1>4, <2>1, OneChanges
<1>8. late = "gone" => q.gone
  BY <1>1
<1>5. CASE ClientLeaves(r)
  <2> DEFINE x == [q EXCEPT !.gone = TRUE, !.cause = left]
  <2>1. req' = [req EXCEPT ![r] = x]
    BY <1>5 DEF ClientLeaves, SoundInv
  <2> HIDE DEF q, left
  <2>2. /\ x \in RequestRec /\ x.pc = q.pc /\ x.tries = q.tries /\ x.begun = q.begun
        /\ x.hurried = q.hurried /\ x.sent = q.sent /\ x.last = q.last /\ x.answer = q.answer
        /\ x.cause = "gone" => x.gone
    BY <1>1, <1>3, ZenonT(60) DEF RequestRec
  <2> QED BY <1>4, <2>1, <2>2
<1>6. CASE QuotaRunsOut(r)
  <2> DEFINE x == [q EXCEPT !.cause = "quota"]
  <2>1. req' = [req EXCEPT ![r] = x]
    BY <1>6 DEF QuotaRunsOut, SoundInv
  <2> HIDE DEF q
  <2>2. /\ x \in RequestRec /\ x.pc = q.pc /\ x.tries = q.tries /\ x.begun = q.begun
        /\ x.hurried = q.hurried /\ x.sent = q.sent /\ x.last = q.last /\ x.answer = q.answer
        /\ x.cause = "gone" => x.gone
    BY <1>1 DEF RequestRec
  <2> QED BY <1>4, <2>1, <2>2
<1>7. CASE TimePasses(r)
  <2> DEFINE x == [q EXCEPT !.short = TRUE, !.cause = late]
  <2>1. req' = [req EXCEPT ![r] = x]
    BY <1>7 DEF TimePasses, SoundInv
  <2> HIDE DEF q, late
  <2>2. /\ x \in RequestRec /\ x.pc = q.pc /\ x.tries = q.tries /\ x.begun = q.begun
        /\ x.hurried = q.hurried /\ x.sent = q.sent /\ x.last = q.last /\ x.answer = q.answer
        /\ x.cause = "gone" => x.gone
    BY <1>1, <1>3, <1>8, ZenonT(60) DEF RequestRec
  <2> QED BY <1>4, <2>1, <2>2
<1> QED BY <1>5, <1>6, <1>7

LEMMA NextSound == SoundInv /\ [Next]_vars => SoundInv'
<1> SUFFICES ASSUME SoundInv, [Next]_vars PROVE SoundInv'
  OBVIOUS
<1>1. \A kind : Usable(kind) \subseteq Upstreams
  BY DEF Usable
<1>2. ASSUME NEW r \in Requests, NEW kind \in Kinds, NEW replay \in BOOLEAN,
             NEW es \in SUBSET Usable(kind), NEW s \in Orders(es), Arrive(r, kind, replay, s)
      PROVE  SoundInv'
  BY <1>1, <1>2, ArriveSound
<1>3. ASSUME NEW r \in Requests, Step(r) PROVE SoundInv'
  <2>1. ASSUME NEW es \in SUBSET Usable(req[r].kind), NEW s \in Orders(es), PickAgain(r, s)
        PROVE  SoundInv'
    BY <1>1, <2>1, PickSound
  <2>2. CASE CannotServe(r) \/ NoFallBack(r)
    BY <2>2, PickSound, FallBackSound
  <2>3. CASE Begin(r) \/ BreakOff(r)
    BY <2>3, BeginSound
  <2>4. ASSUME NEW out \in Outcomes, NEW d \in 1 .. BusyFor, AttemptEnds(r, out, d)
        PROVE  SoundInv'
    BY <2>4, AttemptEndsSound
  <2>5. CASE Abort(r) \/ Judge(r) \/ Spent(r)
    BY <2>5, AbortSound, JudgeSound, SpentSound
  <2>6. ASSUME NEW e \in Externals, FallBack(r, e) PROVE SoundInv'
    BY <2>6, FallBackSound
  <2> QED BY <1>3, <2>1, <2>2, <2>3, <2>4, <2>5, <2>6 DEF Step
<1>4. ASSUME NEW r \in Requests, ClientLeaves(r) \/ QuotaRunsOut(r) \/ TimePasses(r)
      PROVE  SoundInv'
  BY <1>4, OutsideSound
<1>5. CASE Tick \/ UNCHANGED vars
  BY <1>5 DEF Tick, vars, SoundInv
<1> QED BY <1>2, <1>3, <1>4, <1>5 DEF Next

\* Every request is sound at every step: forwardSelected and what it calls.
THEOREM SoundHolds == Spec => []SoundInv
<1>1. Init => SoundInv
  BY NoRequestSound DEF Init, SoundInv, Sound
<1> QED BY <1>1, NextSound, PTL DEF Spec

\* A client gets one response at most, however many upstreams failed before it.
THEOREM OneResponseHolds == Spec => []OneResponse
<1>1. SoundInv => OneResponse
  <2> SUFFICES ASSUME SoundInv, NEW r \in Requests PROVE req[r].sent <= 1
    BY DEF OneResponse
  <2>1. Sound(req[r]) /\ req[r] \in RequestRec
    BY DEF SoundInv
  <2>2. req[r].sent \in {0, 1}
    BY <2>1 DEF Sound, RequestRec
  <2> QED BY <2>2
<1> QED BY <1>1, SoundHolds, PTL

\* A handler returns without an answer only when the client has left.
THEOREM EveryoneIsAnsweredHolds == Spec => []EveryoneIsAnswered
<1>1. SoundInv => EveryoneIsAnswered
  BY DEF SoundInv, Sound, EveryoneIsAnswered
<1> QED BY <1>1, SoundHolds, PTL

\* A client whose simulation was cut hears of its quota, or has an answer.
THEOREM QuotaIsToldHolds == Spec => []QuotaIsTold
<1>1. SoundInv => QuotaIsTold
  BY DEF SoundInv, Sound, QuotaIsTold
<1> QED BY <1>1, SoundHolds, PTL

\* A client gets exactly one response, and a true one, unless it leaves.
THEOREM AnsweredTrulyHolds == Spec => []AnsweredTruly
BY OneResponseHolds, EveryoneIsAnsweredHolds, QuotaIsToldHolds, PTL DEF AnsweredTruly

\* Every upstream is tried once at most, the externals after the mesh, whatever
\* the selection, the budget and the fallback.
THEOREM EachOnceMeshFirstHolds == Spec => []EachOnceMeshFirst
<1>1. SoundInv => EachOnceMeshFirst
  BY DEF SoundInv, Sound, Ranked, EachOnceMeshFirst
<1> QED BY <1>1, SoundHolds, PTL

-----------------------------------------------------------------------------
(* What counts against an upstream.                                        *)

\* What the StatsBook holds of an upstream.  inflight may be any integer here:
\* that it never goes below none is left to TLC.
StatsRec ==
  [inflight : Int, failures : Nat, probing : BOOLEAN, open : Nat, throttled : Nat, busy : Nat]

StatsInv == stats \in [Upstreams -> StatsRec]

\* The upstream looks worse in t than in s.
Worse(t, s) == t.failures > s.failures \/ t.open > s.open

LEMMA NewStatsRec == NewStats \in StatsRec
  BY DEF NewStats, StatsRec

LEMMA LoadOnly ==
  ASSUME NEW s \in StatsRec, NEW n \in Int
  PROVE  /\ [s EXCEPT !.inflight = n] \in StatsRec
         /\ [s EXCEPT !.inflight = n].failures = s.failures
         /\ [s EXCEPT !.inflight = n].open = s.open
  BY DEF StatsRec

LEMMA TickedRec ==
  ASSUME NEW s \in StatsRec
  PROVE  LET t == [s EXCEPT !.open = Sooner(s.open), !.throttled = Sooner(s.throttled),
                            !.busy = Sooner(s.busy)]
         IN  t \in StatsRec /\ ~Worse(t, s)
<1> DEFINE o == Sooner(s.open)
           h == Sooner(s.throttled)
           b == Sooner(s.busy)
           t == [s EXCEPT !.open = o, !.throttled = h, !.busy = b]
<1>1. s.open \in Nat /\ s.throttled \in Nat /\ s.busy \in Nat /\ s.failures \in Nat
  BY DEF StatsRec
<1>2. o \in Nat /\ h \in Nat /\ b \in Nat /\ o <= s.open
  BY <1>1 DEF Sooner
<1> HIDE DEF o, h, b
<1>3. t \in StatsRec
  BY <1>2 DEF StatsRec
<1>4. t.open = o /\ t.failures = s.failures
  BY DEF StatsRec
<1> HIDE DEF t
<1>5. ~Worse(t, s)
  BY <1>1, <1>2, <1>4 DEF Worse
<1> QED BY <1>3, <1>5 DEF t, o, h, b

\* Record of a success makes nothing worse.
LEMMA RecordRec ==
  ASSUME NEW s \in StatsRec, NEW out
  PROVE  Record(s, out) \in StatsRec /\ (out = "ok" => ~Worse(Record(s, out), s))
<1>1. s.failures \in Nat /\ s.open \in Nat /\ s.throttled \in Nat /\ s.probing \in BOOLEAN
  BY DEF StatsRec
<1>2. CASE out = "ok"
  <2> DEFINE t == [s EXCEPT !.failures = 0, !.probing = FALSE]
  <2>1. Record(s, out) = t
    BY <1>2 DEF Record
  <2>2. t \in StatsRec /\ t.failures = 0 /\ t.open = s.open
    BY DEF StatsRec
  <2> HIDE DEF t
  <2>3. ~Worse(t, s)
    BY <1>1, <2>2 DEF Worse
  <2> QED BY <2>1, <2>2, <2>3
<1>3. CASE out # "ok"
  <2> DEFINE opens == s.probing \/ s.failures + 1 >= Threshold
             f == Capped(s.failures + 1)
             o == IF opens THEN OpenFor ELSE s.open
             p == s.probing \/ opens
             h == IF out = "throttled" THEN OpenFor ELSE s.throttled
             t == [s EXCEPT !.failures = f, !.open = o, !.probing = p, !.throttled = h]
  <2>1. Record(s, out) = t
    BY <1>3 DEF Record
  <2>2. f \in Nat /\ o \in Nat /\ h \in Nat
    BY <1>1, AttemptsAssumption DEF Capped
  <2>3. p \in BOOLEAN
    BY <1>1
  <2> HIDE DEF f, o, p, h
  <2>4. t \in StatsRec
    BY <2>2, <2>3 DEF StatsRec
  <2> QED BY <1>3, <2>1, <2>4
<1> QED BY <1>2, <1>3

LEMMA BusyRec ==
  ASSUME NEW s \in StatsRec, NEW d \in Nat
  PROVE  Busy(s, d) \in StatsRec /\ ~Worse(Busy(s, d), s)
<1> DEFINE b == IF d > s.busy THEN d ELSE s.busy
           t == [s EXCEPT !.busy = b]
<1>1. s.failures \in Nat /\ s.open \in Nat /\ b \in Nat
  BY DEF StatsRec
<1> HIDE DEF b
<1>2. t \in StatsRec /\ t.failures = s.failures /\ t.open = s.open
  BY <1>1 DEF StatsRec
<1>3. Busy(s, d) = t
  BY DEF Busy, b
<1> HIDE DEF t
<1>4. ~Worse(t, s)
  BY <1>1, <1>2 DEF Worse
<1> QED BY <1>2, <1>3, <1>4

\* forward makes an upstream look worse only for a fault of its own.
LEMMA ObservedRec ==
  ASSUME NEW q \in RequestRec, q.cause = "gone" => q.gone,
         NEW s \in StatsRec, NEW d \in Nat, NEW out \in Possible(q)
  PROVE  /\ Observed(q, s, out, d) \in StatsRec
         /\ Worse(Observed(q, s, out, d), s) => out \in Faults(q.kind) /\ ~q.gone
<1>1. ~Worse(s, s)
  BY DEF StatsRec, Worse
<1>2. CASE ~Counts(q, out)
  BY <1>1, <1>2 DEF Observed
<1>3. CASE Counts(q, out) /\ out = "full" /\ q.kind \in Heavy
  BY <1>3, BusyRec DEF Observed
<1>4. CASE Counts(q, out) /\ ~(out = "full" /\ q.kind \in Heavy)
  <2>1. Observed(q, s, out, d) = Record(s, out)
    BY <1>4 DEF Observed
  <2>2. ~q.gone /\ out # "cancelled" /\ out # "limit"
    BY <1>4 DEF Counts, Possible
  <2>3. out # "ok" => out \in Faults(q.kind)
    BY <1>4, <2>2 DEF Possible, Outcomes, Passed, Withheld, Faults
  <2> QED BY <2>1, <2>2, <2>3, RecordRec
<1> QED BY <1>2, <1>3, <1>4

\* A step keeps the StatsBook's type and blames no upstream that did no wrong.
Blameless ==
  \A u \in Upstreams : Worse(stats'[u], stats[u])
    => \E r \in Requests :
         /\ req[r].pc = "forward" /\ req'[r].pc = "judge" /\ Upstream(req[r]) = u
         /\ req'[r].last \in Faults(req[r].kind)
         /\ req'[r].last = "overdue" => req[r].begun = 1 \/ ~req[r].hurried
         /\ ~req[r].gone

\* Begin changes the load of an upstream and nothing else of it.
LEMMA BegunStats ==
  ASSUME StatsInv, NEW v \in Upstreams, stats' = Begun(v)
  PROVE  StatsInv' /\ Blameless
<1> DEFINE t == [stats[v] EXCEPT !.inflight = stats[v].inflight + 1]
<1>1. \A u \in Upstreams : stats[u] \in StatsRec
  BY DEF StatsInv
<1>2. stats[v].inflight + 1 \in Int
  BY <1>1 DEF StatsRec
<1>3. t \in StatsRec /\ t.failures = stats[v].failures /\ t.open = stats[v].open
  BY <1>1, <1>2, LoadOnly
<1>4. stats' = [stats EXCEPT ![v] = t]
  BY DEF Begun, StatsInv
<1> HIDE DEF t
<1>5. StatsInv'
  BY <1>3, <1>4 DEF StatsInv
<1>6. ASSUME NEW u \in Upstreams PROVE ~Worse(stats'[u], stats[u])
  <2>1. stats'[u].failures = stats[u].failures /\ stats'[u].open = stats[u].open
    BY <1>3, <1>4 DEF StatsInv
  <2>2. stats[u].failures \in Nat /\ stats[u].open \in Nat
    BY <1>1 DEF StatsRec
  <2> QED BY <2>1, <2>2 DEF Worse
<1> QED BY <1>5, <1>6 DEF Blameless

LEMMA SameStats ==
  ASSUME StatsInv, UNCHANGED stats
  PROVE  StatsInv' /\ Blameless
<1>1. StatsInv'
  BY DEF StatsInv
<1>2. ASSUME NEW u \in Upstreams PROVE ~Worse(stats'[u], stats[u])
  BY DEF StatsInv, StatsRec, Worse
<1> QED BY <1>1, <1>2 DEF Blameless

LEMMA TickStats ==
  ASSUME StatsInv, Tick
  PROVE  StatsInv' /\ Blameless
<1>1. ASSUME NEW u \in Upstreams
      PROVE  stats'[u] \in StatsRec /\ ~Worse(stats'[u], stats[u])
  <2>1. stats[u] \in StatsRec
    BY DEF StatsInv
  <2>2. stats'[u] = [stats[u] EXCEPT !.open = Sooner(stats[u].open),
                                     !.throttled = Sooner(stats[u].throttled),
                                     !.busy = Sooner(stats[u].busy)]
    BY DEF Tick
  <2> QED BY <2>1, <2>2, TickedRec
<1>2. StatsInv'
  BY <1>1 DEF StatsInv, Tick
<1> QED BY <1>1, <1>2 DEF Blameless

LEMMA AttemptEndsStats ==
  ASSUME SoundInv, StatsInv, NEW r \in Requests, NEW out \in Outcomes,
         NEW d \in 1 .. BusyFor, AttemptEnds(r, out, d)
  PROVE  StatsInv' /\ Blameless
<1> DEFINE q == req[r]
           v == Upstream(q)
           o == Observed(q, stats[v], out, d)
           t == [o EXCEPT !.inflight = o.inflight - 1]
<1>1. /\ q \in RequestRec /\ (q.cause = "gone" => q.gone) /\ q.pc = "forward"
      /\ q.hurried => q.begun = 1
  BY DEF SoundInv, Sound, AttemptEnds
<1>2. v \in Upstreams
  BY <1>1 DEF SoundInv, Sound, Upstream, RequestRec
<1>3. stats[v] \in StatsRec /\ d \in Nat
  BY <1>2, AttemptsAssumption DEF StatsInv
<1>4. out \in Possible(q)
  BY DEF AttemptEnds
<1>5. o \in StatsRec /\ (Worse(o, stats[v]) => out \in Faults(q.kind) /\ ~q.gone)
  BY <1>1, <1>3, <1>4, ObservedRec
<1>6. stats' = [stats EXCEPT ![v] = t]
  BY Zenon DEF AttemptEnds
<1>7. req'[r].pc = "judge" /\ req'[r].last = out
  <2> DEFINE sent == IF out \in Passed THEN q.sent + 1 ELSE q.sent
             answer == IF out \in Passed THEN "upstream" ELSE q.answer
             x == [q EXCEPT !.pc = "judge", !.last = out, !.hurried = FALSE, !.sent = sent,
                          !.answer = answer]
  <2>1. req' = [req EXCEPT ![r] = x]
    BY DEF AttemptEnds, SoundInv
  <2> HIDE DEF q, sent, answer
  <2>2. x.pc = "judge" /\ x.last = out
    BY <1>1 DEF RequestRec
  <2> HIDE DEF x
  <2>3. req'[r] = x
    BY <2>1 DEF SoundInv
  <2> QED BY <2>2, <2>3
<1> HIDE DEF o
<1>8. t \in StatsRec /\ t.failures = o.failures /\ t.open = o.open
  <2>1. o.inflight - 1 \in Int
    BY <1>5 DEF StatsRec
  <2> QED BY <1>5, <2>1, LoadOnly
<1> HIDE DEF t
<1>9. StatsInv'
  BY <1>2, <1>6, <1>8 DEF StatsInv
<1>10. ASSUME NEW u \in Upstreams, Worse(stats'[u], stats[u])
       PROVE  u = v /\ out \in Faults(q.kind) /\ ~q.gone
  <2> HIDE DEF v, q
  <2>1. CASE u # v
    <3>1. stats'[u] = stats[u]
      BY <1>2, <1>6, <2>1 DEF StatsInv
    <3>2. stats[u].failures \in Nat /\ stats[u].open \in Nat
      BY DEF StatsInv, StatsRec
    <3> QED BY <1>10, <3>1, <3>2 DEF Worse
  <2>2. CASE u = v
    <3>1. stats'[v] = t
      BY <1>2, <1>6 DEF StatsInv
    <3>2. Worse(o, stats[v])
      BY <1>8, <1>10, <2>2, <3>1 DEF Worse
    <3> QED BY <1>5, <2>2, <3>2
  <2> QED BY <2>1, <2>2
<1> QED BY <1>1, <1>7, <1>9, <1>10 DEF Blameless

LEMMA NextStats == SoundInv /\ StatsInv /\ [Next]_vars => StatsInv' /\ Blameless
<1> SUFFICES ASSUME SoundInv, StatsInv, [Next]_vars PROVE StatsInv' /\ Blameless
  OBVIOUS
<1>1. ASSUME NEW r \in Requests, Step(r) PROVE StatsInv' /\ Blameless
  <2>1. CASE Begin(r)
    <3> DEFINE q == req[r]
               v == q.tries[q.begun + 1]
    <3>1. q.tries \in Seq(Upstreams) /\ q.begun \in Nat /\ q.begun < Len(q.tries)
      BY <2>1 DEF Begin, SoundInv, Sound, RequestRec
    <3>2. v \in Upstreams
      BY <3>1
    <3> QED BY <2>1, <3>2, BegunStats DEF Begin
  <2>2. ASSUME NEW e \in Externals, FallBack(r, e) PROVE StatsInv' /\ Blameless
    BY <2>2, BegunStats DEF FallBack, Upstreams
  <2>3. ASSUME NEW out \in Outcomes, NEW d \in 1 .. BusyFor, AttemptEnds(r, out, d)
        PROVE  StatsInv' /\ Blameless
    BY <2>3, AttemptEndsStats
  <2>4. CASE \/ CannotServe(r) \/ BreakOff(r) \/ Abort(r) \/ Judge(r) \/ Spent(r) \/ NoFallBack(r)
             \/ \E es \in SUBSET Usable(req[r].kind) : \E s \in Orders(es) : PickAgain(r, s)
    <3>1. UNCHANGED stats
      BY <2>4 DEF CannotServe, BreakOff, Abort, Judge, Spent, NoFallBack, PickAgain
    <3> QED BY <3>1, SameStats
  <2> QED BY <1>1, <2>1, <2>2, <2>3, <2>4 DEF Step
<1>2. ASSUME NEW r \in Requests, NEW kind \in Kinds, NEW replay \in BOOLEAN,
             NEW s, Arrive(r, kind, replay, s)
      PROVE  StatsInv' /\ Blameless
  BY <1>2, SameStats DEF Arrive
<1>3. ASSUME NEW r \in Requests, ClientLeaves(r) \/ QuotaRunsOut(r) \/ TimePasses(r)
      PROVE  StatsInv' /\ Blameless
  BY <1>3, SameStats DEF ClientLeaves, QuotaRunsOut, TimePasses
<1>4. CASE Tick
  BY <1>4, TickStats
<1>5. CASE UNCHANGED vars
  BY <1>5, SameStats DEF vars
<1> QED BY <1>1, <1>2, <1>3, <1>4, <1>5 DEF Next

\* However requests, clients, the limiter and the clock interleave, an upstream's
\* failure count and its breaker move only on a failure at that upstream, and a
\* retry is never blamed for time it was not given.
THEOREM BlamelessUpstreamsHolds == Spec => BlamelessUpstreams
<1>1. Init => SoundInv /\ StatsInv
  BY NoRequestSound, NewStatsRec DEF Init, SoundInv, Sound, StatsInv
<1>2. Blameless <=> (\A u \in Upstreams :
         stats'[u].failures > stats[u].failures \/ stats'[u].open > stats[u].open
           => \E r \in Requests :
                /\ req[r].pc = "forward" /\ req'[r].pc = "judge" /\ Upstream(req[r]) = u
                /\ req'[r].last \in Faults(req[r].kind)
                /\ req'[r].last = "overdue" => req[r].begun = 1 \/ ~req[r].hurried
                /\ ~req[r].gone)
  BY DEF Blameless, Worse
<1> QED BY <1>1, <1>2, NextSound, NextStats, PTL DEF Spec, BlamelessUpstreams
=============================================================================
