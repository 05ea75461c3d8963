----------------------------- MODULE ChasingProofs -----------------------------
(* For any number of requests and handlers, and however long: what is said to  *)
(* be sent was taken by the relay, and a request known to be reminded of is    *)
(* not reminded of again too soon.                                             *)
EXTENDS Chasing, Integers, TLAPS

\* Those a handler will write to, none of whom it has written to.
Ahead(x) == run[x].todo \union (IF run[x].at = "mailing" THEN {run[x].now} ELSE {})

\* Whether a letter of l counts as a contact of the chase.
Counts(l) == l.by = None \/ By(l, "chase") \/ By(l, "reminder")

Known == {l \in letters : l.known}

\* Longer ago than the cadence a handler began with, or on an earlier day.
LongAgo(a, x) == clock - a.at >= run[x].every * PartsOfDay
Yesterday(a)  == Day(a.at) < Day(clock)

\* What each handler says of its letters, and whom it may still write to: nobody whom
\* it saw contacted within the cadence, or the practice told of today.
RunKeepsBooks(x) ==
  /\ run[x].at = "idle" => \A r \in Request : ~Wrote(x, r)
  /\ run[x].at \in {"drafted", "sending", "mailing", "taken"} => run[x].kind \in Kinds
  /\ run[x].at \in {"mailing", "taken"} => run[x].now \in Request
  /\ run[x].at = "mailing" => run[x].now \notin run[x].todo
  /\ run[x].at = "taken" => Wrote(x, run[x].now)
  /\ \A r \in Ahead(x) : ~Wrote(x, r)
  /\ \A r \in Request :
       /\ run[x].outcome[r] = "sent" => Wrote(x, r)
       /\ run[x].outcome[r] \in {"not-attempted", "held", "no-address"} =>
            ~Wrote(x, r) /\ r \notin Ahead(x)
  /\ run[x].seen \subseteq Known
  /\ run[x].kind = "chase" =>
       \A a \in run[x].seen : a.request \in Ahead(x) /\ Counts(a) => LongAgo(a, x)
  /\ run[x].kind = "notice" =>
       \A a \in run[x].seen : a.request \in Ahead(x) /\ By(a, "notice") => Yesterday(a)

\* A letter whose answer arrived is in the history, at its time or later.
Recorded(l) ==
  \E e \in history :
    /\ e.request = l.request /\ e.at >= l.at
    /\ e.kind = IF l.by = None THEN "request.contacted" ELSE Sent[run[l.by].kind]

LettersAreRecorded ==
  /\ \A l \in letters : l.at <= clock /\ (l.known => Recorded(l))
  /\ \A e \in history : e.at <= clock /\ Wrote(e.by, e.request)

\* The inductive invariant.
ChasingInv ==
  /\ TypeOK
  /\ \A x \in Run : RunKeepsBooks(x)
  /\ LettersAreRecorded
  /\ TooSoonOnlyUnknowing
  /\ OneNoticeADay

-----------------------------------------------------------------------------
(* Time.                                                                       *)

LEMMA DaysPass ==
  \A s, t \in Nat : Day(s) \in Nat /\ (s <= t => Day(s) <= Day(t))
<1> DEFINE P == PartsOfDay
<1>1. P \in Nat \ {0}  BY TimeAssumption
<1>2. ASSUME NEW s \in Nat, NEW t \in Nat
      PROVE  Day(s) \in Nat /\ (s <= t => Day(s) <= Day(t))
  <2>1. PICK a \in Int, b \in Int : a = Day(s) /\ b = Day(t)  BY <1>1 DEF Day
  <2>2. P * a <= s /\ s < P * a + P /\ P * b <= t /\ t < P * b + P
    BY <1>1, <2>1 DEF Day
  <2>3. a >= 0  BY <1>1, <2>2
  <2>4. ASSUME s <= t PROVE a <= b
    <3> SUFFICES ASSUME b + 1 <= a PROVE FALSE  BY <2>1
    <3>1. P * (b + 1) <= P * a  BY <1>1
    <3>2. P * (b + 1) = P * b + P  BY <1>1
    <3> QED  BY <1>1, <2>2, <2>4, <3>1, <3>2
  <2> QED  BY <2>1, <2>3, <2>4
<1> QED  BY <1>2

-----------------------------------------------------------------------------
(* How a handler may move.                                                     *)

\* It goes on with what it has to do, ...
GoesOn(x) ==
  /\ run[x].at # "idle"
  /\ run'[x].kind = run[x].kind /\ run'[x].seen = run[x].seen /\ run'[x].every = run[x].every
  /\ run'[x].at \notin {"idle", "taken"}
  /\ run'[x].at \in {"drafted", "sending", "mailing"} => run[x].kind \in Kinds
  /\ run'[x].at = "mailing" => run'[x].now \in Request /\ run'[x].now \notin run'[x].todo
  /\ Ahead(x)' \subseteq Ahead(x)
  /\ \A r \in Request :
       \/ run'[x].outcome[r] \in {run[x].outcome[r], "failed", None}
       \/ run'[x].outcome[r] = "not-attempted" /\ r \in Ahead(x) /\ r \notin Ahead(x)'
       \/ run'[x].outcome[r] = "sent" /\ Wrote(x, r)

\* ... or it begins, with what the database says now.
Begins(x) ==
  /\ run[x].at = "idle" /\ run'[x].at \in {"drafted", "sending", "over"}
  /\ run'[x].at # "over" => run'[x].kind \in Kinds
  /\ run'[x].seen \subseteq Known
  /\ \A r \in Request :
       /\ run'[x].outcome[r] \notin {"sent", "not-attempted"}
       /\ run'[x].outcome[r] \in {"held", "no-address"} => r \notin run'[x].todo
  /\ run'[x].kind = "chase" =>
       clock' = clock /\ run'[x].every = cadence /\ \A r \in run'[x].todo : ~HeldBackBy(r)
  /\ run'[x].kind = "notice" =>
       clock' = clock /\ \A r \in run'[x].todo : ~ToldToday(r)

\* The letters there were stay, and the answers that arrived.
LEMMA WhoWrote ==
  ASSUME TypeOK, \A x \in Run : RunKeepsBooks(x), NEW l \in letters
  PROVE  /\ l.request \in Request /\ l.at \in Nat /\ l.by \in Run \union {None}
         /\ l.by # None => l.by \in Run /\ run[l.by].at # "idle"
<1>1. l \in Letters  BY DEF TypeOK
<1>2. l.request \in Request /\ l.at \in Nat /\ l.by \in Run \union {None}
  BY <1>1, TimeAssumption DEF Letters, Clock
<1>3. Wrote(l.by, l.request)  BY DEF Wrote
<1> QED  BY <1>2, <1>3 DEF RunKeepsBooks

\* Handlers whose letters are there keep their kind, what they saw and the cadence.
Framed ==
  \A z \in Run : \/ run[z].at = "idle"
                 \/ /\ run'[z].kind = run[z].kind /\ run'[z].seen = run[z].seen
                    /\ run'[z].every = run[z].every

LEMMA KindsStay ==
  ASSUME TypeOK, \A x \in Run : RunKeepsBooks(x), Framed, NEW l \in letters
  PROVE  /\ \A k \in Kinds : By(l, k)' <=> By(l, k)
         /\ Counts(l)' <=> Counts(l)
         /\ l.by # None => /\ run'[l.by].kind = run[l.by].kind /\ run'[l.by].seen = run[l.by].seen
                           /\ run'[l.by].every = run[l.by].every
<1>1. l.by # None => /\ run'[l.by].kind = run[l.by].kind /\ run'[l.by].seen = run[l.by].seen
                     /\ run'[l.by].every = run[l.by].every
  BY WhoWrote DEF Framed
<1>2. \A k \in Kinds : By(l, k)' <=> By(l, k)  BY <1>1 DEF By
<1> QED  BY <1>1, <1>2 DEF Counts, Kinds, ByHand

\* Of a letter that is known, the history tells, and so does the cadence.
LEMMA KnownAreHeld ==
  ASSUME TypeOK, \A x \in Run : RunKeepsBooks(x), LettersAreRecorded, NEW a \in Known
  PROVE  /\ Counts(a) /\ ~HeldBackBy(a.request) => clock - a.at >= cadence * PartsOfDay
         /\ By(a, "notice") /\ ~ToldToday(a.request) => Day(a.at) < Day(clock)
<1>1. a \in letters /\ a.known  BY DEF Known
<1>2. PICK e \in history :
         /\ e.request = a.request /\ e.at >= a.at
         /\ e.kind = IF a.by = None THEN "request.contacted" ELSE Sent[run[a.by].kind]
  BY <1>1 DEF LettersAreRecorded, Recorded
<1>3. e.at <= clock  BY DEF LettersAreRecorded
<1>4. a.at \in Nat /\ e.at \in Nat /\ clock \in Nat
  <2>1. e \in Events  BY DEF TypeOK
  <2>2. e.at \in Nat  BY <2>1, TimeAssumption DEF Events, Clock
  <2> QED  BY <1>1, <2>2, WhoWrote, TimeAssumption DEF TypeOK, Clock
<1>5. ASSUME Counts(a), ~HeldBackBy(a.request)
      PROVE  clock - a.at >= cadence * PartsOfDay
  <2>1. e.kind \in Contact  BY <1>2, <1>5 DEF Counts, By, Sent, Contact, Kinds, ByHand
  <2>2. ~(clock - e.at < cadence * PartsOfDay)  BY <1>2, <1>5, <2>1 DEF HeldBackBy
  <2>3. cadence * PartsOfDay \in Nat
    BY CadenceAssumption, TimeAssumption DEF TypeOK
  <2> QED  BY <1>2, <1>3, <1>4, <2>2, <2>3
<1>6. ASSUME By(a, "notice"), ~ToldToday(a.request)
      PROVE  Day(a.at) < Day(clock)
  <2>1. e.kind = "notice.sent"  BY <1>2, <1>6 DEF By, Sent, Kinds, ByHand
  <2>2. Day(e.at) # Day(clock)  BY <1>2, <1>6, <2>1 DEF ToldToday
  <2>3. Day(a.at) <= Day(e.at) /\ Day(e.at) <= Day(clock)  BY <1>2, <1>3, <1>4, DaysPass
  <2>4. Day(a.at) \in Nat /\ Day(e.at) \in Nat /\ Day(clock) \in Nat  BY <1>4, DaysPass
  <2> QED  BY <2>2, <2>3, <2>4
<1> QED  BY <1>5, <1>6

\* What was long ago, or yesterday, stays so.
LEMMA TimeGoesOn ==
  ASSUME TypeOK, clock' \in Nat, clock' >= clock, NEW x \in Run, run'[x].every = run[x].every,
         NEW a, a.at \in Nat
  PROVE  (LongAgo(a, x) => LongAgo(a, x)') /\ (Yesterday(a) => Yesterday(a)')
<1>1. clock \in Nat  BY TimeAssumption DEF TypeOK, Clock
<1>2. LongAgo(a, x) => LongAgo(a, x)'
  <2>0. PICK days \in Nat : days = run[x].every
    <3>1. run[x] \in [kind : Kinds \union {None}, at : Going \union {"idle", "drafted", "over"},
                      todo : SUBSET Request, now : Request \union {None},
                      outcome : [Request -> Outcome \union {None}],
                      seen : SUBSET Letters, every : Cadences]
      BY DEF TypeOK
    <3>2. run[x].every \in Cadences  BY <3>1
    <3>3. Cadences \subseteq Nat  BY CadenceAssumption
    <3>4. run[x].every \in Nat  BY <3>2, <3>3
    <3> QED  BY <3>4
  <2>1. PICK span \in Nat : span = run[x].every * PartsOfDay
    <3>1. days * PartsOfDay \in Nat  BY TimeAssumption
    <3> QED  BY <2>0, <3>1
  <2>2. span = run'[x].every * PartsOfDay  BY <2>1
  <2> QED  BY <1>1, <2>1, <2>2 DEF LongAgo
<1>3. Yesterday(a) => Yesterday(a)'
  <2>1. /\ Day(clock) <= Day(clock') /\ Day(clock) \in Nat /\ Day(clock') \in Nat
        /\ Day(a.at) \in Nat
    BY <1>1, DaysPass
  <2>2. Day(clock)' = Day(clock') /\ Day(a.at)' = Day(a.at)  BY DEF Day
  <2> QED  BY <2>1, <2>2 DEF Yesterday
<1> QED  BY <1>2, <1>3

\* Whoever has not moved keeps its books while others write.
LEMMA OthersKeepBooks ==
  ASSUME TypeOK, \A x \in Run : RunKeepsBooks(x), Framed, NEW y \in Run,
         run'[y] = run[y], clock' \in Nat, clock' >= clock,
         \A r \in Request : Wrote(y, r)' <=> Wrote(y, r),
         Known \subseteq Known'
  PROVE  RunKeepsBooks(y)'
<1>1. RunKeepsBooks(y)  OBVIOUS
<1>2. Ahead(y)' = Ahead(y)  BY DEF Ahead
<1>3. run[y].seen \subseteq Known /\ Known \subseteq letters /\ Ahead(y) \subseteq Request
  BY <1>1 DEF RunKeepsBooks, Known, Ahead, TypeOK
<1>4. \A a \in run[y].seen : /\ Counts(a)' <=> Counts(a)
                             /\ By(a, "notice")' <=> By(a, "notice")
                             /\ a.at \in Nat
  BY <1>3, KindsStay, WhoWrote DEF Kinds
<1>5. clock \in Nat  BY TimeAssumption DEF TypeOK, Clock
<1>6. run'[y].seen \subseteq Known'  BY <1>3
<1>7. \A a \in run[y].seen : (LongAgo(a, y) => LongAgo(a, y)') /\ (Yesterday(a) => Yesterday(a)')
  BY <1>4, TimeGoesOn
<1> QED
  <2>1. /\ run'[y].at = "idle" => \A r \in Request : ~Wrote(y, r)'
        /\ run'[y].at \in {"drafted", "sending", "mailing", "taken"} => run'[y].kind \in Kinds
        /\ run'[y].at \in {"mailing", "taken"} => run'[y].now \in Request
        /\ run'[y].at = "mailing" => run'[y].now \notin run'[y].todo
        /\ run'[y].at = "taken" => Wrote(y, run[y].now)'
        /\ \A r \in Ahead(y)' : ~Wrote(y, r)'
        /\ \A r \in Request :
             /\ run'[y].outcome[r] = "sent" => Wrote(y, r)'
             /\ run'[y].outcome[r] \in {"not-attempted", "held", "no-address"} =>
                  ~Wrote(y, r)' /\ r \notin Ahead(y)'
    BY <1>1, <1>2, <1>3 DEF RunKeepsBooks
  <2>2. run'[y].kind = "chase" =>
          \A a \in run'[y].seen : a.request \in Ahead(y)' /\ Counts(a)' => LongAgo(a, y)'
    BY <1>1, <1>2, <1>4, <1>7 DEF RunKeepsBooks
  <2>3. run'[y].kind = "notice" =>
          \A a \in run'[y].seen : a.request \in Ahead(y)' /\ By(a, "notice")' => Yesterday(a)'
    BY <1>1, <1>2, <1>4, <1>7 DEF RunKeepsBooks
  <2>4. run'[y].seen \subseteq Known'  BY <1>6
  <2> QED  BY <2>1, <2>2, <2>3, <2>4 DEF RunKeepsBooks

LEMMA GoingOnKeepsBooks ==
  ASSUME TypeOK, TypeOK', \A x \in Run : RunKeepsBooks(x), Framed, NEW x \in Run,
         GoesOn(x), clock' >= clock,
         \A r \in Request : Wrote(x, r)' <=> Wrote(x, r),
         Known \subseteq Known'
  PROVE  RunKeepsBooks(x)'
<1>1. RunKeepsBooks(x)  OBVIOUS
<1>2. /\ Ahead(x)' \subseteq Ahead(x) /\ Ahead(x) \subseteq Request
      /\ run[x].seen \subseteq Known /\ Known \subseteq letters
      /\ run'[x].kind = run[x].kind /\ run'[x].seen = run[x].seen /\ run'[x].every = run[x].every
  BY <1>1 DEF GoesOn, RunKeepsBooks, Known, Ahead, TypeOK
<1>3. \A a \in run[x].seen : /\ Counts(a)' <=> Counts(a)
                             /\ By(a, "notice")' <=> By(a, "notice")
                             /\ a.at \in Nat
  BY <1>2, KindsStay, WhoWrote DEF Kinds
<1>4. clock' \in Nat  BY TimeAssumption DEF TypeOK, Clock
<1>5. \A a \in run[x].seen : (LongAgo(a, x) => LongAgo(a, x)') /\ (Yesterday(a) => Yesterday(a)')
  BY <1>2, <1>3, <1>4, TimeGoesOn
<1>6. /\ run'[x].at # "idle" /\ run'[x].at # "taken"
      /\ run'[x].at \in {"drafted", "sending", "mailing"} => run'[x].kind \in Kinds
      /\ run'[x].at = "mailing" => run'[x].now \in Request /\ run'[x].now \notin run'[x].todo
  BY <1>2 DEF GoesOn
<1>7. \A r \in Ahead(x)' : ~Wrote(x, r)'  BY <1>1, <1>2 DEF RunKeepsBooks
<1>8. ASSUME NEW r \in Request
      PROVE  /\ run'[x].outcome[r] = "sent" => Wrote(x, r)'
             /\ run'[x].outcome[r] \in {"not-attempted", "held", "no-address"} =>
                  ~Wrote(x, r)' /\ r \notin Ahead(x)'
  BY <1>1, <1>2, NoneAssumption DEF RunKeepsBooks, GoesOn, Outcome
<1>9. run'[x].seen \subseteq Known'  BY <1>2
<1>10. run'[x].kind = "chase" =>
         \A a \in run'[x].seen : a.request \in Ahead(x)' /\ Counts(a)' => LongAgo(a, x)'
  BY <1>1, <1>2, <1>3, <1>5 DEF RunKeepsBooks
<1>11. run'[x].kind = "notice" =>
         \A a \in run'[x].seen : a.request \in Ahead(x)' /\ By(a, "notice")' => Yesterday(a)'
  BY <1>1, <1>2, <1>3, <1>5 DEF RunKeepsBooks
<1> QED  BY <1>6, <1>7, <1>8, <1>9, <1>10, <1>11 DEF RunKeepsBooks

LEMMA BeginningKeepsBooks ==
  ASSUME TypeOK, TypeOK', \A x \in Run : RunKeepsBooks(x), LettersAreRecorded, Framed, NEW x \in Run,
         Begins(x), UNCHANGED letters
  PROVE  RunKeepsBooks(x)'
<1>1. RunKeepsBooks(x)  OBVIOUS
<1>2. \A r \in Request : ~Wrote(x, r)'  BY <1>1 DEF RunKeepsBooks, Begins, Wrote
<1>3. Known' = Known /\ Known \subseteq letters  BY DEF Known
<1>4. Ahead(x)' = run'[x].todo /\ run'[x].todo \subseteq Request  BY DEF Begins, Ahead, TypeOK
<1>5. \A a \in run'[x].seen : /\ a \in Known
                              /\ Counts(a)' <=> Counts(a)
                              /\ By(a, "notice")' <=> By(a, "notice")
  BY <1>3, KindsStay DEF Kinds, Begins
<1>6. run'[x].kind = "chase" =>
        \A a \in run'[x].seen : a.request \in Ahead(x)' /\ Counts(a)' => LongAgo(a, x)'
  <2> SUFFICES ASSUME run'[x].kind = "chase", NEW a \in run'[x].seen, a.request \in Ahead(x)', Counts(a)'
               PROVE  LongAgo(a, x)'
    OBVIOUS
  <2>1. clock' = clock /\ run'[x].every = cadence /\ ~HeldBackBy(a.request)  BY <1>4 DEF Begins
  <2>2. clock - a.at >= cadence * PartsOfDay  BY <1>5, <2>1, KnownAreHeld
  <2> QED  BY <2>1, <2>2 DEF LongAgo
<1>7. run'[x].kind = "notice" =>
        \A a \in run'[x].seen : a.request \in Ahead(x)' /\ By(a, "notice")' => Yesterday(a)'
  <2> SUFFICES ASSUME run'[x].kind = "notice", NEW a \in run'[x].seen, a.request \in Ahead(x)', By(a, "notice")'
               PROVE  Yesterday(a)'
    OBVIOUS
  <2>1. clock' = clock /\ ~ToldToday(a.request)  BY <1>4 DEF Begins
  <2>2. Day(a.at) < Day(clock)  BY <1>5, <2>1, KnownAreHeld
  <2>3. Day(clock)' = Day(clock) /\ Day(a.at)' = Day(a.at)  BY <2>1 DEF Day
  <2> QED  BY <2>2, <2>3 DEF Yesterday
<1>8. /\ run'[x].at \in {"drafted", "sending", "over"}
      /\ run'[x].at # "over" => run'[x].kind \in Kinds
      /\ run'[x].seen \subseteq Known'
      /\ \A r \in Request :
           /\ run'[x].outcome[r] \notin {"sent", "not-attempted"}
           /\ run'[x].outcome[r] \in {"held", "no-address"} => r \notin Ahead(x)'
  BY <1>3, <1>4 DEF Begins
<1> QED  BY <1>2, <1>4, <1>6, <1>7, <1>8 DEF RunKeepsBooks

\* What was written before keeps its distance from what was seen before it.
LEMMA OldLettersKeepDistance ==
  ASSUME TypeOK, \A x \in Run : RunKeepsBooks(x), Framed,
         TooSoonOnlyUnknowing, OneNoticeADay, NEW b \in letters
  PROVE  /\ By(b, "chase")' =>
              \A a \in run'[b.by].seen :
                a.request = b.request /\ Counts(a)' => b.at - a.at >= run'[b.by].every * PartsOfDay
         /\ By(b, "notice")' =>
              \A a \in run'[b.by].seen :
                a.request = b.request /\ By(a, "notice")' => Day(a.at) # Day(b.at)
<1>1. /\ By(b, "chase")' <=> By(b, "chase")
      /\ By(b, "notice")' <=> By(b, "notice")
      /\ b.by # None => run'[b.by].seen = run[b.by].seen /\ run'[b.by].every = run[b.by].every
  BY KindsStay DEF Kinds
<1>2. b.by # None => b.by \in Run /\ run[b.by].seen \subseteq letters
  BY WhoWrote DEF RunKeepsBooks, Known
<1>3. b.by # None =>
        \A a \in run[b.by].seen : (Counts(a)' <=> Counts(a)) /\ (By(a, "notice")' <=> By(a, "notice"))
  BY <1>2, KindsStay DEF Kinds
<1>4. By(b, "chase") =>
        /\ b.by # None
        /\ \A a \in run[b.by].seen :
             a.request = b.request /\ Counts(a) => b.at - a.at >= run[b.by].every * PartsOfDay
  BY DEF TooSoonOnlyUnknowing, Counts, By
<1>5. By(b, "notice") =>
        /\ b.by # None
        /\ \A a \in run[b.by].seen :
             a.request = b.request /\ By(a, "notice") => Day(a.at) # Day(b.at)
  BY DEF OneNoticeADay, By
<1> QED  BY <1>1, <1>3, <1>4, <1>5

-----------------------------------------------------------------------------
(* The rows of the handlers.                                                   *)

RunRow == [kind : Kinds \union {None}, at : Going \union {"idle", "drafted", "over"},
           todo : SUBSET Request, now : Request \union {None},
           outcome : [Request -> Outcome \union {None}],
           seen : SUBSET Letters, every : Cadences]

\* A handler whose row is replaced; the others stay.
LEMMA OneRowChanges ==
  ASSUME TypeOK, NEW x \in Run, NEW row \in RunRow, run' = [run EXCEPT ![x] = row]
  PROVE  /\ run' \in [Run -> RunRow] /\ run'[x] = row
         /\ \A y \in Run : y # x => run'[y] = run[y]
BY DEF TypeOK, RunRow

LEMMA RowFields ==
  ASSUME NEW q \in RunRow
  PROVE  /\ q = [kind |-> q.kind, at |-> q.at, todo |-> q.todo, now |-> q.now,
                 outcome |-> q.outcome, seen |-> q.seen, every |-> q.every]
         /\ q.kind \in Kinds \union {None} /\ q.at \in Going \union {"idle", "drafted", "over"}
         /\ q.todo \subseteq Request /\ q.now \in Request \union {None}
         /\ q.outcome \in [Request -> Outcome \union {None}]
         /\ q.seen \subseteq Letters /\ q.every \in Cadences
BY DEF RunRow

LEMMA NewRow ==
  ASSUME NEW q \in RunRow, NEW at \in Going \union {"idle", "drafted", "over"},
         NEW todo \in SUBSET Request, NEW now \in Request \union {None},
         NEW outcome \in [Request -> Outcome \union {None}]
  PROVE  /\ [q EXCEPT !.at = at] =
                [kind |-> q.kind, at |-> at, todo |-> q.todo, now |-> q.now,
                 outcome |-> q.outcome, seen |-> q.seen, every |-> q.every]
         /\ [kind |-> q.kind, at |-> at, todo |-> todo, now |-> now,
                 outcome |-> outcome, seen |-> q.seen, every |-> q.every] \in RunRow
BY RowFields DEF RunRow

LEMMA RunHasRows ==
  TypeOK => run \in [Run -> RunRow] /\ \A x \in Run : run[x] \in RunRow
BY DEF TypeOK, RunRow

-----------------------------------------------------------------------------
(* Steps that write nothing down.                                              *)

LEMMA UnwrittenKeeps ==
  ASSUME ChasingInv, TypeOK', UNCHANGED <<letters, history>>, clock' >= clock,
         \A x \in Run : run'[x] = run[x] \/ GoesOn(x) \/ Begins(x)
  PROVE  ChasingInv'
<1> USE DEF ChasingInv
<1>1. Framed  BY DEF Framed, GoesOn, Begins
<1>2. clock \in Nat /\ clock' \in Nat  BY TimeAssumption DEF TypeOK, Clock
<1>3. Known' = Known /\ \A x \in Run, r \in Request : Wrote(x, r)' <=> Wrote(x, r)
  BY DEF Known, Wrote
<1>4. \A x \in Run : RunKeepsBooks(x)'
  BY <1>1, <1>2, <1>3, OthersKeepBooks, GoingOnKeepsBooks, BeginningKeepsBooks
<1>5. LettersAreRecorded'
  <2>1. ASSUME NEW l \in letters PROVE l.at <= clock' /\ (l.known => Recorded(l)')
    <3>1. l.at \in Nat /\ l.at <= clock /\ (l.known => Recorded(l))
      BY WhoWrote DEF LettersAreRecorded
    <3>2. l.by # None => run'[l.by].kind = run[l.by].kind  BY <1>1, KindsStay
    <3> QED  BY <1>2, <3>1, <3>2 DEF Recorded
  <2>2. ASSUME NEW e \in history PROVE e.at <= clock' /\ Wrote(e.by, e.request)'
    <3>1. e \in Events  BY DEF TypeOK
    <3>2. e.at \in Nat  BY <3>1, TimeAssumption DEF Events, Clock
    <3>3. e.at <= clock /\ Wrote(e.by, e.request)  BY DEF LettersAreRecorded
    <3> QED  BY <1>2, <3>2, <3>3 DEF Wrote
  <2> QED  BY <2>1, <2>2 DEF LettersAreRecorded
<1>6. TooSoonOnlyUnknowing'  BY <1>1, OldLettersKeepDistance DEF TooSoonOnlyUnknowing, Counts
<1>7. OneNoticeADay'  BY <1>1, OldLettersKeepDistance DEF OneNoticeADay, Day
<1> QED  BY <1>4, <1>5, <1>6, <1>7

\* What a handler that goes on makes of its row.
Row(x, at, todo, now, outcome) ==
  [kind |-> run[x].kind, at |-> at, todo |-> todo, now |-> now,
   outcome |-> outcome, seen |-> run[x].seen, every |-> run[x].every]

MovesTo(x, at, todo, now, outcome) ==
  \/ /\ run' = [run EXCEPT ![x].at = at]
     /\ todo = run[x].todo /\ now = run[x].now /\ outcome = run[x].outcome
  \/ /\ run' = [run EXCEPT ![x].at = at, ![x].now = now, ![x].todo = todo]
     /\ outcome = run[x].outcome
  \/ /\ run' = [run EXCEPT ![x].at = at, ![x].todo = todo, ![x].outcome = outcome]
     /\ now = run[x].now
  \/ /\ run' = [run EXCEPT ![x].at = at, ![x].now = now, ![x].outcome = outcome]
     /\ todo = run[x].todo

LEMMA HandlerMoves ==
  ASSUME TypeOK, NEW x \in Run, NEW at \in Going \union {"idle", "drafted", "over"},
         NEW todo \in SUBSET Request, NEW now \in Request \union {None},
         NEW outcome \in [Request -> Outcome \union {None}],
         MovesTo(x, at, todo, now, outcome)
  PROVE  /\ run' \in [Run -> RunRow]
         /\ run'[x] = Row(x, at, todo, now, outcome)
         /\ \A y \in Run : y # x => run'[y] = run[y]
<1>1. PICK q \in RunRow : q = run[x]  BY RunHasRows
<1>2. PICK row : row = [kind |-> q.kind, at |-> at, todo |-> todo, now |-> now,
                        outcome |-> outcome, seen |-> q.seen, every |-> q.every]
  OBVIOUS
<1>3. row \in RunRow /\ row = Row(x, at, todo, now, outcome)
  BY <1>1, <1>2, NewRow, RowFields DEF RunRow, Row
<1>4. run \in [Run -> RunRow]  BY RunHasRows
<1>6. DOMAIN q = {"kind", "at", "todo", "now", "outcome", "seen", "every"}  BY DEF RunRow
<1>5. run' = [run EXCEPT ![x] = row]
  <2>1. CASE /\ run' = [run EXCEPT ![x].at = at]
             /\ todo = run[x].todo /\ now = run[x].now /\ outcome = run[x].outcome
    <3>1. [q EXCEPT !.at = at] = row  BY <1>1, <1>2, <2>1, NewRow
    <3> QED  BY <1>1, <1>4, <2>1, <3>1
  <2>2. CASE /\ run' = [run EXCEPT ![x].at = at, ![x].now = now, ![x].todo = todo]
             /\ outcome = run[x].outcome
    <3>0. outcome = q.outcome  BY <1>1, <2>2
    <3>1. [q EXCEPT !.at = at, !.now = now, !.todo = todo] = row
      <4>1. [q EXCEPT !.at = at, !.now = now, !.todo = todo] =
           [field \in {"kind", "at", "todo", "now", "outcome", "seen", "every"} |->
             IF field = "todo" THEN todo ELSE IF field = "now" THEN now
             ELSE IF field = "at" THEN at ELSE q[field]]
        BY <1>6, Zenon
      <4> QED  BY <1>2, <1>6, <3>0, <4>1
    <3>2. run' = [y \in Run |-> IF y = x THEN [run[x] EXCEPT !.at = at, !.now = now, !.todo = todo] ELSE run[y]]
      BY <1>4, <2>2, Zenon
    <3>3. run' = [y \in Run |-> IF y = x THEN row ELSE run[y]]
      BY <1>1, <3>1, <3>2
    <3> QED  BY <1>4, <3>3
  <2>3. CASE /\ run' = [run EXCEPT ![x].at = at, ![x].todo = todo, ![x].outcome = outcome]
             /\ now = run[x].now
    <3>0. now = q.now  BY <1>1, <2>3
    <3>1. [q EXCEPT !.at = at, !.todo = todo, !.outcome = outcome] = row
      <4>1. [q EXCEPT !.at = at, !.todo = todo, !.outcome = outcome] =
           [field \in {"kind", "at", "todo", "now", "outcome", "seen", "every"} |->
             IF field = "outcome" THEN outcome ELSE IF field = "todo" THEN todo
             ELSE IF field = "at" THEN at ELSE q[field]]
        BY <1>6, Zenon
      <4> QED  BY <1>2, <1>6, <3>0, <4>1
    <3>2. run' = [y \in Run |-> IF y = x THEN [run[x] EXCEPT !.at = at, !.todo = todo, !.outcome = outcome] ELSE run[y]]
      BY <1>4, <2>3, Zenon
    <3>3. run' = [y \in Run |-> IF y = x THEN row ELSE run[y]]
      BY <1>1, <3>1, <3>2
    <3> QED  BY <1>4, <3>3
  <2>4. CASE /\ run' = [run EXCEPT ![x].at = at, ![x].now = now, ![x].outcome = outcome]
             /\ todo = run[x].todo
    <3>0. todo = q.todo  BY <1>1, <2>4
    <3>1. [q EXCEPT !.at = at, !.now = now, !.outcome = outcome] = row
      <4>1. [q EXCEPT !.at = at, !.now = now, !.outcome = outcome] =
           [field \in {"kind", "at", "todo", "now", "outcome", "seen", "every"} |->
             IF field = "outcome" THEN outcome ELSE IF field = "now" THEN now
             ELSE IF field = "at" THEN at ELSE q[field]]
        BY <1>6, Zenon
      <4> QED  BY <1>2, <1>6, <3>0, <4>1
    <3>2. run' = [y \in Run |-> IF y = x THEN [run[x] EXCEPT !.at = at, !.now = now, !.outcome = outcome] ELSE run[y]]
      BY <1>4, <2>4, Zenon
    <3>3. run' = [y \in Run |-> IF y = x THEN row ELSE run[y]]
      BY <1>1, <3>1, <3>2
    <3> QED  BY <1>4, <3>3
  <2> QED  BY <2>1, <2>2, <2>3, <2>4 DEF MovesTo
<1> HIDE DEF Row
<1> QED  BY <1>3, <1>5, OneRowChanges

\* A handler that goes on with its own letters, and writes nothing down.
LEMMA HandlerGoesOn ==
  ASSUME ChasingInv, NEW x \in Run, NEW at \in {"sending", "mailing", "over"},
         NEW todo \in SUBSET Request, NEW now \in Request \union {None},
         NEW outcome \in [Request -> Outcome \union {None}],
         run[x].at \in {"drafted", "sending", "mailing", "taken"},
         run' \in [Run -> RunRow],
         run'[x] = Row(x, at, todo, now, outcome),
         \A y \in Run : y # x => run'[y] = run[y],
         todo \subseteq run[x].todo,
         at = "mailing" => now \in run[x].todo \ todo,
         \A r \in Request :
            \/ outcome[r] \in {run[x].outcome[r], "failed", None}
            \/ outcome[r] = "not-attempted" /\ r \in run[x].todo /\ at # "mailing" /\ r \notin todo,
         UNCHANGED <<clock, clientOf, practiceVars, history, letters, acts>>,
         links' \in [Request -> SUBSET Run]
  PROVE  ChasingInv'
<1> USE DEF ChasingInv
<1>1. /\ run'[x].kind = run[x].kind /\ run'[x].at = at /\ run'[x].todo = todo /\ run'[x].now = now
      /\ run'[x].outcome = outcome /\ run'[x].seen = run[x].seen /\ run'[x].every = run[x].every
  BY DEF Row
<1>2. run[x].kind \in Kinds  BY DEF RunKeepsBooks
<1>3. Ahead(x)' \subseteq Ahead(x) /\ (at # "mailing" => Ahead(x)' = todo) /\ run[x].todo \subseteq Ahead(x)
  BY <1>1 DEF Ahead
<1>4. run[x].todo \subseteq Request  BY DEF TypeOK
<1>5. GoesOn(x)  BY <1>1, <1>2, <1>3, <1>4 DEF GoesOn
<1>6. TypeOK'
  BY DEF TypeOK, RunRow, practiceVars, Made
<1>7. clock \in Nat  BY TimeAssumption DEF TypeOK, Clock
<1> QED  BY <1>5, <1>6, <1>7, UnwrittenKeeps

LEMMA RunFields ==
  ASSUME TypeOK, NEW x \in Run
  PROVE  /\ run[x].kind \in Kinds \union {None} /\ run[x].at \in Going \union {"idle", "drafted", "over"}
         /\ run[x].todo \subseteq Request /\ run[x].now \in Request \union {None}
         /\ run[x].outcome \in [Request -> Outcome \union {None}]
         /\ run[x].seen \subseteq Letters /\ run[x].every \in Cadences
BY RunHasRows, RowFields

\* The next of those still to be written to.
LEMMA SendsNext ==
  ASSUME ChasingInv, NEW x \in Run, NEW r \in run[x].todo, NEW todo \in SUBSET run[x].todo,
         run[x].at \in {"drafted", "sending"}, r \notin todo,
         MovesTo(x, "mailing", todo, r, run[x].outcome),
         UNCHANGED <<clock, clientOf, practiceVars, history, letters, acts>>,
         links' \in [Request -> SUBSET Run]
  PROVE  ChasingInv'
<1>1. /\ TypeOK /\ "mailing" \in Going \union {"idle", "drafted", "over"}
      /\ todo \in SUBSET Request /\ r \in Request \union {None}
      /\ run[x].outcome \in [Request -> Outcome \union {None}]
  BY RunFields DEF ChasingInv, Going
<1>2. /\ run' \in [Run -> RunRow]
      /\ run'[x] = Row(x, "mailing", todo, r, run[x].outcome)
      /\ \A y \in Run : y # x => run'[y] = run[y]
  BY <1>1, HandlerMoves
<1> QED  BY <1>1, <1>2, HandlerGoesOn

LEMMA SendOneReminderKeeps ==
  ASSUME ChasingInv, NEW x \in Run, SendOneReminder(x) PROVE ChasingInv'
<1>1. PICK r \in run[x].todo :
        /\ IssueToken(x, r)
        /\ run' = [run EXCEPT ![x].at = "mailing", ![x].now = r, ![x].todo = @ \ {r}]
  BY DEF SendOneReminder
<1>2. PICK todo \in SUBSET run[x].todo : todo = run[x].todo \ {r}  OBVIOUS
<1>3. run' = [run EXCEPT ![x].at = "mailing", ![x].now = r, ![x].todo = todo]
  BY <1>1, <1>2
<1>4. links' \in [Request -> SUBSET Run]
  BY <1>1, RunFields DEF IssueToken, ChasingInv, TypeOK
<1>5. MovesTo(x, "mailing", todo, r, run[x].outcome)  BY <1>3 DEF MovesTo
<1>6. /\ run[x].at \in {"drafted", "sending"} /\ r \notin todo /\ todo \in SUBSET run[x].todo
      /\ UNCHANGED <<clock, clientOf, practiceVars, history, letters, acts>>
      /\ links' \in [Request -> SUBSET Run]
  BY <1>2, <1>4 DEF SendOneReminder, ChasingInv, TypeOK, practiceVars
<1> QED  BY <1>5, <1>6, SendsNext

LEMMA SendOneOpeningKeeps ==
  ASSUME ChasingInv, NEW x \in Run, SendOneOpening(x) PROVE ChasingInv'
<1>1. PICK r \in run[x].todo :
        run' = [run EXCEPT ![x].at = "mailing", ![x].now = r, ![x].todo = @ \ {r}]
  BY DEF SendOneOpening
<1>2. PICK todo \in SUBSET run[x].todo : todo = run[x].todo \ {r}  OBVIOUS
<1>3. run' = [run EXCEPT ![x].at = "mailing", ![x].now = r, ![x].todo = todo]
  BY <1>1, <1>2
<1>4. MovesTo(x, "mailing", todo, r, run[x].outcome)  BY <1>3 DEF MovesTo
<1>5. /\ run[x].at \in {"drafted", "sending"} /\ r \notin todo /\ todo \in SUBSET run[x].todo
      /\ UNCHANGED <<clock, clientOf, practiceVars, history, letters, acts>>
      /\ links' \in [Request -> SUBSET Run]
  BY <1>2 DEF SendOneOpening, ChasingInv, TypeOK, practiceVars
<1> QED  BY <1>4, <1>5, SendsNext

LEMMA SendDraftKeeps ==
  ASSUME ChasingInv, NEW x \in Run, SendDraft(x) PROVE ChasingInv'
<1>1. PICK r \in run[x].todo :
        run' = [run EXCEPT ![x].at = "mailing", ![x].now = r, ![x].todo = {}]
  BY DEF SendDraft
<1>2. MovesTo(x, "mailing", {}, r, run[x].outcome)  BY <1>1 DEF MovesTo
<1>3. /\ run[x].at \in {"drafted", "sending"} /\ r \notin {} /\ {} \in SUBSET run[x].todo
      /\ UNCHANGED <<clock, clientOf, practiceVars, history, letters, acts>>
      /\ links' \in [Request -> SUBSET Run]
  BY <1>1 DEF SendDraft, ChasingInv, TypeOK, practiceVars
<1> QED  BY <1>2, <1>3, SendsNext

LEMMA NotifyPracticeKeeps ==
  ASSUME ChasingInv, NEW x \in Run, NotifyPractice(x) PROVE ChasingInv'
<1>1. PICK r \in run[x].todo :
        run' = [run EXCEPT ![x].at = "mailing", ![x].now = r, ![x].todo = {}]
  BY DEF NotifyPractice
<1>2. MovesTo(x, "mailing", {}, r, run[x].outcome)  BY <1>1 DEF MovesTo
<1>3. /\ run[x].at \in {"drafted", "sending"} /\ r \notin {} /\ {} \in SUBSET run[x].todo
      /\ UNCHANGED <<clock, clientOf, practiceVars, history, letters, acts>>
      /\ links' \in [Request -> SUBSET Run]
  BY <1>1 DEF NotifyPractice, ChasingInv, TypeOK, practiceVars
<1> QED  BY <1>2, <1>3, SendsNext

\* A loop that stops, or a letter that failed: nobody is said to have been sent anything.
LEMMA Stops ==
  ASSUME ChasingInv, NEW x \in Run, NEW at \in {"sending", "over"}, NEW todo \in SUBSET run[x].todo,
         NEW now \in Request \union {None}, NEW outcome \in [Request -> Outcome \union {None}],
         run[x].at \in {"drafted", "sending", "mailing", "taken"},
         MovesTo(x, at, todo, now, outcome),
         \A r \in Request :
            \/ outcome[r] \in {run[x].outcome[r], "failed", None}
            \/ outcome[r] = "not-attempted" /\ r \in run[x].todo /\ r \notin todo,
         UNCHANGED <<clock, clientOf, practiceVars, history, letters, acts, links>>
  PROVE  ChasingInv'
<1>1. /\ TypeOK /\ at \in Going \union {"idle", "drafted", "over"}
      /\ todo \in SUBSET Request
      /\ links' \in [Request -> SUBSET Run]
  BY RunFields DEF ChasingInv, Going, TypeOK
<1>2. /\ run' \in [Run -> RunRow]
      /\ run'[x] = Row(x, at, todo, now, outcome)
      /\ \A y \in Run : y # x => run'[y] = run[y]
  BY <1>1, HandlerMoves
<1> QED  BY <1>1, <1>2, HandlerGoesOn

LEMMA OverBudgetKeeps ==
  ASSUME ChasingInv, NEW x \in Run, OverBudget(x) PROVE ChasingInv'
<1>1. PICK outcome :
        outcome = [r \in Request |-> IF r \in run[x].todo THEN "not-attempted" ELSE run[x].outcome[r]]
  OBVIOUS
<1>2. run' = [run EXCEPT ![x].at = "over", ![x].todo = {}, ![x].outcome = outcome]
  BY <1>1 DEF OverBudget
<1>3. TypeOK /\ outcome \in [Request -> Outcome \union {None}]  BY <1>1, RunFields DEF Outcome, ChasingInv
<1>4. run[x].now \in Request \union {None}  BY <1>3, RunFields
<1>5. MovesTo(x, "over", {}, run[x].now, outcome)  BY <1>2 DEF MovesTo
<1> QED  BY <1>1, <1>3, <1>4, <1>5, Stops DEF OverBudget

LEMMA ReportKeeps ==
  ASSUME ChasingInv, NEW x \in Run, Report(x) PROVE ChasingInv'
<1>1. MovesTo(x, "over", run[x].todo, run[x].now, run[x].outcome)  BY DEF MovesTo, Report
<1> QED  BY <1>1, RunFields, Stops DEF Report, ChasingInv

LEMMA Telling ==
  ASSUME TypeOK, NEW x \in Run, run[x].now \in Request, NEW what \in {"sent", "failed"}
  PROVE  /\ Tells(x, what) \in [Request -> Outcome \union {None}]
         /\ \A r \in Request :
              \/ Tells(x, what)[r] \in {run[x].outcome[r], None}
              \/ Tells(x, what)[r] = what /\ r = run[x].now
BY RunFields DEF Tells, Unsaid, Outcome

LEMMA FailsKeeps ==
  ASSUME ChasingInv, NEW x \in Run, Fails(x) PROVE ChasingInv'
<1>1. PICK outcome : outcome = Tells(x, "failed")  OBVIOUS
<1>2. MovesTo(x, After(x), run[x].todo, None, outcome)  BY <1>1 DEF MovesTo, Fails
<1>3. run[x].now \in Request  BY DEF ChasingInv, RunKeepsBooks, Fails
<1>4. /\ outcome \in [Request -> Outcome \union {None}]
      /\ \A r \in Request : outcome[r] \in {run[x].outcome[r], "failed", None}
  BY <1>1, <1>3, Telling DEF ChasingInv
<1>5. After(x) \in {"sending", "over"}  BY DEF After
<1> QED  BY <1>2, <1>4, <1>5, Stops DEF Fails

-----------------------------------------------------------------------------
(* Handlers that begin, and all that end.                                      *)

\* The type of what the practice and its clients decide.
PracticeOK ==
  /\ clock \in Clock /\ acts \in 0 .. MaxActs
  /\ status \in [Request -> {"none", "open", "closed"}]
  /\ clientOf \in [Request -> Client]
  /\ owed \subseteq Made /\ mailable \subseteq Client
  /\ cadence \in Cadences
  /\ links \in [Request -> SUBSET Run]

LEMMA Starting ==
  ASSUME ChasingInv, NEW x \in Run, NEW kind \in Kinds, NEW at \in {"drafted", "sending"},
         NEW todo \in SUBSET Request, NEW outcome \in [Request -> Outcome \union {None}],
         Starts(x, kind, at, todo, outcome),
         \A r \in Request : /\ outcome[r] \notin {"sent", "not-attempted"}
                            /\ outcome[r] \in {"held", "no-address"} => r \notin todo,
         kind = "chase" => \A r \in todo : ~HeldBackBy(r),
         kind = "notice" => \A r \in todo : ~ToldToday(r),
         PracticeOK', UNCHANGED <<clock, letters, history>>
  PROVE  ChasingInv'
<1> USE DEF ChasingInv
<1>1. PICK row :
        row = [kind |-> kind, at |-> at, todo |-> todo, now |-> None, outcome |-> outcome,
               seen |-> {l \in letters : l.known}, every |-> cadence]
  OBVIOUS
<1>2. row \in RunRow
  BY <1>1 DEF RunRow, Going, TypeOK
<1>3. run' = [run EXCEPT ![x] = row] /\ run[x].at = "idle"
  BY <1>1 DEF Starts, Idle
<1>4. /\ run' \in [Run -> RunRow] /\ run'[x] = row
      /\ \A y \in Run : y # x => run'[y] = run[y]
  BY <1>2, <1>3, OneRowChanges
<1>5. /\ row.kind = kind /\ row.at = at /\ row.todo = todo /\ row.outcome = outcome
      /\ row.seen = Known /\ row.every = cadence
  BY <1>1 DEF Known
<1>6. Begins(x)  BY <1>3, <1>4, <1>5 DEF Begins
<1>7. TypeOK'  BY <1>4 DEF TypeOK, RunRow, PracticeOK, Made, Clock
<1>8. clock \in Nat  BY TimeAssumption DEF TypeOK, Clock
<1> QED  BY <1>4, <1>6, <1>7, <1>8, UnwrittenKeeps

LEMMA SendAllRemindersKeeps ==
  ASSUME ChasingInv, NEW x \in Run, SendAllReminders(x) PROVE ChasingInv'
<1>1. PICK todo, outcome :
        /\ todo = {r \in ChaseList : ChaseSplits(r) = None}
        /\ outcome = [r \in Request |-> ChaseSplits(r)]
  OBVIOUS
<1>2. ChaseList \subseteq Request  BY DEF ChaseList, Open
<1>3. \A r \in Request : /\ ChaseSplits(r) \in {"held", "no-address", None}
                         /\ r \in ChaseList /\ ChaseSplits(r) = None => ~HeldBackBy(r)
  BY NoneAssumption DEF ChaseSplits, Outcome
<1>4. /\ todo \in SUBSET Request /\ outcome \in [Request -> Outcome \union {None}]
      /\ \A r \in Request : /\ outcome[r] \notin {"sent", "not-attempted"}
                            /\ outcome[r] \in {"held", "no-address"} => r \notin todo
      /\ \A r \in todo : ~HeldBackBy(r)
  BY <1>1, <1>2, <1>3, NoneAssumption DEF Outcome
<1>5. Starts(x, "chase", "sending", todo, outcome)  BY <1>1 DEF SendAllReminders
<1>6. PracticeOK' /\ UNCHANGED <<clock, letters, history>> /\ "chase" \in Kinds
  BY DEF SendAllReminders, ChasingInv, TypeOK, PracticeOK, practiceVars, Made, Kinds
<1> QED  BY <1>4, <1>5, <1>6, Starting

LEMMA NothingSaid ==
  /\ Unsaid \in [Request -> Outcome \union {None}]
  /\ \A r \in Request : Unsaid[r] \notin {"sent", "not-attempted", "held", "no-address"}
BY NoneAssumption DEF Unsaid, Outcome

LEMMA AskEveryoneKeeps ==
  ASSUME ChasingInv, NEW x \in Run, AskEveryone(x) PROVE ChasingInv'
<1>1. PICK asked \in Ticked :
        /\ Starts(x, "ask", "sending", asked, Unsaid)
        /\ status' = [r \in Request |-> IF r \in asked THEN "open" ELSE status[r]]
        /\ owed' = owed \union asked
        /\ links' = [r \in Request |-> IF r \in asked THEN links[r] \union {x} ELSE links[r]]
        /\ UNCHANGED <<clock, clientOf, mailable, cadence, history, letters, acts>>
  BY DEF AskEveryone
<1>2. asked \in SUBSET Request  BY DEF Ticked, Reachable
<1>3. PracticeOK'
  <2>1. status' \in [Request -> {"none", "open", "closed"}] /\ links' \in [Request -> SUBSET Run]
    BY <1>1 DEF ChasingInv, TypeOK
  <2>2. owed' \subseteq Made'  BY <1>1, <1>2 DEF ChasingInv, TypeOK, Made
  <2> QED  BY <1>1, <2>1, <2>2 DEF ChasingInv, TypeOK, PracticeOK
<1>4. "ask" \in Kinds /\ "ask" # "chase" /\ "ask" # "notice"  BY DEF Kinds
<1> QED  BY <1>1, <1>2, <1>3, <1>4, NothingSaid, Starting

LEMMA DraftKeeps ==
  ASSUME ChasingInv, NEW x \in Run, NEW r \in Request, NEW kind \in ByHand, Draft(x, r, kind)
  PROVE  ChasingInv'
<1>1. kind \in Kinds /\ kind # "chase" /\ kind # "notice" /\ {r} \in SUBSET Request
  BY DEF Kinds, ByHand
<1>2. PracticeOK' /\ UNCHANGED <<clock, letters, history>>
  BY DEF Draft, IssueToken, ChasingInv, TypeOK, PracticeOK, practiceVars, Made
<1>3. Starts(x, kind, "drafted", {r}, Unsaid)  BY DEF Draft
<1> QED  BY <1>1, <1>2, <1>3, NothingSaid, Starting

\* Nobody's row changes.
LEMMA PracticeActs ==
  ASSUME ChasingInv, PracticeOK', UNCHANGED <<run, letters, history>>, clock' >= clock
  PROVE  ChasingInv'
<1>1. TypeOK'  BY DEF ChasingInv, TypeOK, PracticeOK
<1> QED  BY <1>1, UnwrittenKeeps

LEMMA ActsStayTyped ==
  ASSUME ChasingInv, Acts PROVE acts' \in 0 .. MaxActs
BY TimeAssumption DEF ChasingInv, TypeOK, Acts

LEMMA ClientChangesKeeps ==
  ASSUME ChasingInv, NEW r \in Request, ClientChanges(r) PROVE ChasingInv'
<1>1. /\ acts' \in 0 .. MaxActs
      /\ UNCHANGED <<clock, clientOf, status, mailable, cadence, links, history, letters>>
      /\ owed' \in {owed, owed \ {r}}
  BY ActsStayTyped DEF ClientChanges, ChasingInv, TypeOK
<1>2. PracticeOK'  BY <1>1 DEF ChasingInv, TypeOK, PracticeOK, Made
<1>3. CASE ~ToldToday(r) /\ \E x \in Run : Starts(x, "notice", "sending", {r}, Unsaid)
  <2>1. PICK x \in Run : Starts(x, "notice", "sending", {r}, Unsaid)  BY <1>3
  <2>2. "notice" \in Kinds /\ "notice" # "chase" /\ {r} \in SUBSET Request  BY DEF Kinds
  <2> QED  BY <1>1, <1>2, <1>3, <2>1, <2>2, NothingSaid, Starting
<1>4. CASE UNCHANGED run
  <2>1. clock' >= clock  BY <1>1, TimeAssumption DEF ChasingInv, TypeOK, Clock
  <2> QED  BY <1>1, <1>2, <1>4, <2>1, PracticeActs
<1> QED  BY <1>3, <1>4 DEF ClientChanges

LEMMA PracticeKeeps ==
  ASSUME ChasingInv,
         \/ \E c \in Client : SaveAddress(c)
         \/ \E r \in Request : CloseOrReopen(r) \/ AskAgain(r)
         \/ \E days \in Cadences : SetCadence(days)
         \/ Tick
  PROVE  ChasingInv'
<1>0. clock \in Nat /\ MaxClock \in Nat  BY TimeAssumption DEF ChasingInv, TypeOK, Clock
<1>1. CASE \E c \in Client : SaveAddress(c)
  <2>1. PracticeOK'
    BY <1>1, ActsStayTyped DEF SaveAddress, ChasingInv, TypeOK, PracticeOK, Made
  <2> QED  BY <1>0, <1>1, <2>1, PracticeActs DEF SaveAddress
<1>2. CASE \E r \in Request : CloseOrReopen(r)
  <2>0. PICK r \in Request : CloseOrReopen(r)  BY <1>2
  <2>1. status' \in [Request -> {"none", "open", "closed"}] /\ Made' = Made
    BY <2>0 DEF CloseOrReopen, ChasingInv, TypeOK, Made
  <2>2. PracticeOK'
    BY <2>0, <2>1, ActsStayTyped DEF CloseOrReopen, ChasingInv, TypeOK, PracticeOK
  <2> QED  BY <1>0, <2>0, <2>2, PracticeActs DEF CloseOrReopen
<1>3. CASE \E r \in Request : AskAgain(r)
  <2>1. PracticeOK'
    BY <1>3, ActsStayTyped DEF AskAgain, ChasingInv, TypeOK, PracticeOK, Made
  <2> QED  BY <1>0, <1>3, <2>1, PracticeActs DEF AskAgain
<1>4. CASE \E days \in Cadences : SetCadence(days)
  <2>1. PracticeOK'
    BY <1>4, ActsStayTyped DEF SetCadence, ChasingInv, TypeOK, PracticeOK, Made
  <2> QED  BY <1>0, <1>4, <2>1, PracticeActs DEF SetCadence
<1>5. CASE Tick
  <2>1. clock' \in Clock /\ clock' >= clock  BY <1>0, <1>5 DEF Tick, Clock
  <2>2. PracticeOK'  BY <1>5, <2>1 DEF Tick, ChasingInv, TypeOK, PracticeOK, practiceVars, Made
  <2> QED  BY <1>5, <2>1, <2>2, PracticeActs DEF Tick
<1> QED  BY <1>1, <1>2, <1>3, <1>4, <1>5

\* Whom the process leaves with nothing to do.
EndedRow(q) == IF q.at \in Going THEN [q EXCEPT !.at = "over", !.todo = {}, !.now = None] ELSE q

LEMMA EndedRows ==
  ASSUME NEW q \in RunRow, NEW w, w = EndedRow(q)
  PROVE  /\ w \in RunRow
         /\ w = q \/ /\ q.at \in Going /\ w.at = "over" /\ w.todo = {}
                     /\ w.kind = q.kind /\ w.outcome = q.outcome
                     /\ w.seen = q.seen /\ w.every = q.every
<1>1. CASE q.at \in Going
  <2>1. DOMAIN q = {"kind", "at", "todo", "now", "outcome", "seen", "every"}  BY DEF RunRow
  <2>2. w = [q EXCEPT !.at = "over", !.todo = {}, !.now = None]  BY <1>1 DEF EndedRow
  <2>3. w = [field \in {"kind", "at", "todo", "now", "outcome", "seen", "every"} |->
               IF field = "now" THEN None ELSE IF field = "todo" THEN {}
               ELSE IF field = "at" THEN "over" ELSE q[field]]
    BY <2>1, <2>2, Zenon
  <2>4. w = [kind |-> q.kind, at |-> "over", todo |-> {}, now |-> None,
             outcome |-> q.outcome, seen |-> q.seen, every |-> q.every]
    BY <2>3
  <2>5. w \in RunRow  BY <2>4, RowFields DEF RunRow
  <2> QED  BY <1>1, <2>4, <2>5
<1>2. CASE q.at \notin Going  BY <1>2 DEF EndedRow
<1> QED  BY <1>1, <1>2

LEMMA Ending ==
  ASSUME ChasingInv
  PROVE  /\ Ended \in [Run -> RunRow]
         /\ \A y \in Run : Ended[y] = run[y] \/
              /\ run[y].at \in Going /\ Ended[y].at = "over" /\ Ended[y].todo = {}
              /\ Ended[y].kind = run[y].kind /\ Ended[y].outcome = run[y].outcome
              /\ Ended[y].seen = run[y].seen /\ Ended[y].every = run[y].every
<1>1. Ended = [y \in Run |-> EndedRow(run[y])]  BY DEF Ended, EndedRow
<1>2. \A y \in Run : run[y] \in RunRow  BY RunHasRows DEF ChasingInv
<1>3. \A y \in Run : Ended[y] = EndedRow(run[y])  BY <1>1
<1> QED  BY <1>1, <1>2, <1>3, EndedRows

LEMMA EndedGoOn ==
  ASSUME ChasingInv, NEW y \in Run, run'[y] = Ended[y]
  PROVE  run'[y] = run[y] \/ GoesOn(y)
<1>1. CASE run'[y] # run[y]
  <2>1. /\ run[y].at \in Going /\ run'[y].at = "over" /\ run'[y].todo = {}
        /\ run'[y].kind = run[y].kind /\ run'[y].outcome = run[y].outcome
        /\ run'[y].seen = run[y].seen /\ run'[y].every = run[y].every
    BY <1>1, Ending
  <2> QED  BY <2>1 DEF GoesOn, Ahead, Going
<1> QED  BY <1>1

LEMMA CrashKeeps ==
  ASSUME ChasingInv, Crash PROVE ChasingInv'
<1>1. run' \in [Run -> RunRow]  BY Ending DEF Crash
<1>2. TypeOK'  BY <1>1 DEF ChasingInv, TypeOK, RunRow, practiceVars, Made, Crash
<1>3. \A y \in Run : run'[y] = run[y] \/ GoesOn(y)  BY EndedGoOn DEF Crash
<1>4. clock' >= clock  BY TimeAssumption DEF ChasingInv, TypeOK, Clock, Crash
<1> QED  BY <1>2, <1>3, <1>4, UnwrittenKeeps DEF Crash

LEMMA AskCutShortKeeps ==
  ASSUME ChasingInv, NEW x \in Run, AskCutShort(x) PROVE ChasingInv'
<1>0. PICK asked \in Ticked : \E linked \in SUBSET asked :
        /\ run[x] = Idle
        /\ run' = [Ended EXCEPT ![x].at = "over"]
        /\ status' = [r \in Request |-> IF r \in asked THEN "open" ELSE status[r]]
        /\ owed' = owed \union asked
        /\ links' = [r \in Request |-> IF r \in linked THEN links[r] \union {x} ELSE links[r]]
        /\ UNCHANGED <<clock, clientOf, mailable, cadence, history, letters, acts>>
  BY DEF AskCutShort
<1>1. PICK linked \in SUBSET asked :
        /\ run[x] = Idle
        /\ run' = [Ended EXCEPT ![x].at = "over"]
        /\ status' = [r \in Request |-> IF r \in asked THEN "open" ELSE status[r]]
        /\ owed' = owed \union asked
        /\ links' = [r \in Request |-> IF r \in linked THEN links[r] \union {x} ELSE links[r]]
        /\ UNCHANGED <<clock, clientOf, mailable, cadence, history, letters, acts>>
  BY <1>0
<1>2. asked \in SUBSET Request  BY DEF Ticked, Reachable
<1>3. /\ status' \in [Request -> {"none", "open", "closed"}] /\ links' \in [Request -> SUBSET Run]
      /\ owed' \subseteq Made'
  BY <1>1, <1>2 DEF ChasingInv, TypeOK, Made
<1>4. PICK e \in [Run -> RunRow] : e = Ended  BY Ending
<1>5. e[x] = Idle  BY <1>1, <1>4, Ending DEF Idle, Going
<1>6. PICK row \in RunRow :
        /\ row = [e[x] EXCEPT !.at = "over"]
        /\ row.at = "over" /\ row.kind = None /\ row.outcome = Unsaid /\ row.seen = {} /\ row.todo = {}
  <2>1. PICK q \in RunRow : q = e[x]  OBVIOUS
  <2>2. "over" \in Going \union {"idle", "drafted", "over"}  OBVIOUS
  <2>3. /\ [q EXCEPT !.at = "over"] =
              [kind |-> q.kind, at |-> "over", todo |-> q.todo, now |-> q.now,
               outcome |-> q.outcome, seen |-> q.seen, every |-> q.every]
        /\ [kind |-> q.kind, at |-> "over", todo |-> q.todo, now |-> q.now,
               outcome |-> q.outcome, seen |-> q.seen, every |-> q.every] \in RunRow
    BY <2>2, RowFields DEF RunRow
  <2> QED  BY <1>5, <2>1, <2>3 DEF Idle
<1>7. run' = [e EXCEPT ![x] = row]  BY <1>1, <1>4, <1>6
<1>8. /\ run' \in [Run -> RunRow] /\ run'[x] = row
      /\ \A y \in Run : y # x => run'[y] = Ended[y]
  BY <1>4, <1>7
<1>9. TypeOK'  BY <1>1, <1>3, <1>8 DEF ChasingInv, TypeOK, RunRow
<1>10. Begins(x)
  <2>1. run[x].at = "idle"  BY <1>1 DEF Idle
  <2>2. run'[x].at = "over" /\ run'[x].seen = {} /\ run'[x].outcome = Unsaid /\ run'[x].kind = None
    BY <1>6, <1>8
  <2>3. None # "chase" /\ None # "notice"  BY NoneAssumption DEF Kinds
  <2> QED  BY <2>1, <2>2, <2>3, NothingSaid DEF Begins
<1>11. \A y \in Run : run'[y] = run[y] \/ GoesOn(y) \/ Begins(y)
  BY <1>8, <1>10, EndedGoOn
<1>12. clock' >= clock  BY <1>1, TimeAssumption DEF ChasingInv, TypeOK, Clock
<1> QED  BY <1>1, <1>9, <1>11, <1>12, UnwrittenKeeps

-----------------------------------------------------------------------------
(* Steps that send a letter, or write one down.                                *)

LEMMA RelayTakesKeeps ==
  ASSUME ChasingInv, NEW x \in Run, RelayTakes(x) PROVE ChasingInv'
<1> USE DEF ChasingInv
<1>1. /\ run[x].at = "mailing" /\ run[x].kind \in Kinds /\ run[x].now \in Request
      /\ run[x].now \notin run[x].todo /\ run[x].todo \subseteq Request
      /\ UNCHANGED <<clock, clientOf, practiceVars, links, history, acts>>
  BY DEF RelayTakes, RunKeepsBooks, TypeOK
<1>2. PICK new : new = [by |-> x, request |-> run[x].now, at |-> clock, known |-> FALSE]
  OBVIOUS
<1>3. letters' = letters \union {new}  BY <1>2 DEF RelayTakes
<1>4. /\ run' \in [Run -> RunRow]
      /\ run'[x] = Row(x, "taken", run[x].todo, run[x].now, run[x].outcome)
      /\ \A y \in Run : y # x => run'[y] = run[y]
  <2>1. MovesTo(x, "taken", run[x].todo, run[x].now, run[x].outcome)
    BY DEF RelayTakes, MovesTo
  <2>2. "taken" \in Going \union {"idle", "drafted", "over"}  BY DEF Going
  <2> QED  BY <2>1, <2>2, RunFields, HandlerMoves
<1>5. /\ run'[x].kind = run[x].kind /\ run'[x].at = "taken" /\ run'[x].todo = run[x].todo
      /\ run'[x].now = run[x].now /\ run'[x].outcome = run[x].outcome
      /\ run'[x].seen = run[x].seen /\ run'[x].every = run[x].every
  BY <1>4 DEF Row
<1>6. clock \in Clock /\ clock \in Nat /\ clock' = clock
  BY <1>1, TimeAssumption DEF TypeOK, Clock
<1>7. /\ new \in Letters /\ new.by = x /\ new.request = run[x].now /\ new.at = clock
      /\ ~new.known
  BY <1>1, <1>2, <1>6 DEF Letters
<1>8. TypeOK'
  <2>1. letters' \subseteq Letters  BY <1>3, <1>7 DEF TypeOK
  <2> QED  BY <1>1, <1>4, <2>1 DEF TypeOK, RunRow, practiceVars, Made
<1>9. Framed  BY <1>4, <1>5 DEF Framed
<1>10. Known' = Known  BY <1>3, <1>7 DEF Known
<1>11. /\ \A y \in Run, r \in Request : y # x => (Wrote(y, r)' <=> Wrote(y, r))
       /\ \A r \in Request : Wrote(x, r)' <=> Wrote(x, r) \/ r = run[x].now
       /\ \A y, r : Wrote(y, r) => Wrote(y, r)'
  BY <1>3, <1>7 DEF Wrote
<1>12. Ahead(x)' = run[x].todo /\ Ahead(x) = run[x].todo \union {run[x].now}
  BY <1>1, <1>5 DEF Ahead
<1>13. RunKeepsBooks(x)  OBVIOUS
<1>14. \A a \in run[x].seen : /\ a \in letters /\ a.at \in Nat
                              /\ Counts(a)' <=> Counts(a)
                              /\ By(a, "notice")' <=> By(a, "notice")
  <2>1. run[x].seen \subseteq letters  BY DEF RunKeepsBooks, Known
  <2> QED  BY <1>9, <2>1, KindsStay, WhoWrote DEF Kinds
<1>15. \A a \in run[x].seen : (LongAgo(a, x) => LongAgo(a, x)') /\ (Yesterday(a) => Yesterday(a)')
  BY <1>5, <1>6, <1>14, TimeGoesOn
<1>16. RunKeepsBooks(x)'
  <2>1. /\ run'[x].at = "taken" /\ run'[x].kind \in Kinds /\ run'[x].now \in Request
        /\ Wrote(x, run[x].now)'
    BY <1>1, <1>5, <1>11
  <2>2. \A r \in Ahead(x)' : ~Wrote(x, r)'
    BY <1>1, <1>11, <1>12, <1>13 DEF RunKeepsBooks
  <2>3. \A r \in Request :
          /\ run'[x].outcome[r] = "sent" => Wrote(x, r)'
          /\ run'[x].outcome[r] \in {"not-attempted", "held", "no-address"} =>
               ~Wrote(x, r)' /\ r \notin Ahead(x)'
    BY <1>5, <1>11, <1>12, <1>13 DEF RunKeepsBooks
  <2>4. run'[x].seen \subseteq Known'  BY <1>5, <1>10, <1>13 DEF RunKeepsBooks
  <2>5. run'[x].kind = "chase" =>
          \A a \in run'[x].seen : a.request \in Ahead(x)' /\ Counts(a)' => LongAgo(a, x)'
    BY <1>5, <1>12, <1>13, <1>14, <1>15 DEF RunKeepsBooks
  <2>6. run'[x].kind = "notice" =>
          \A a \in run'[x].seen : a.request \in Ahead(x)' /\ By(a, "notice")' => Yesterday(a)'
    BY <1>5, <1>12, <1>13, <1>14, <1>15 DEF RunKeepsBooks
  <2> QED  BY <1>5, <2>1, <2>2, <2>3, <2>4, <2>5, <2>6 DEF RunKeepsBooks
<1>17. \A y \in Run : RunKeepsBooks(y)'
  BY <1>4, <1>6, <1>9, <1>10, <1>11, <1>16, OthersKeepBooks
<1>18. LettersAreRecorded'
  <2>1. ASSUME NEW l \in letters PROVE l.at <= clock' /\ (l.known => Recorded(l)')
    <3>1. l.at <= clock /\ (l.known => Recorded(l))  BY DEF LettersAreRecorded
    <3>2. l.by # None => run'[l.by].kind = run[l.by].kind  BY <1>9, KindsStay
    <3> QED  BY <1>1, <3>1, <3>2 DEF Recorded
  <2>2. new.at <= clock' /\ ~new.known  BY <1>6, <1>7
  <2>3. \A e \in history' : e.at <= clock' /\ Wrote(e.by, e.request)'
    BY <1>1, <1>11 DEF LettersAreRecorded
  <2> QED  BY <1>3, <2>1, <2>2, <2>3 DEF LettersAreRecorded
<1>19. TooSoonOnlyUnknowing'
  <2>1. ASSUME By(new, "chase")', NEW a \in run[x].seen, a.request = run[x].now, Counts(a)'
        PROVE  clock - a.at >= run[x].every * PartsOfDay
    <3>1. run[x].kind = "chase"  BY <1>5, <1>7, <2>1 DEF By
    <3>2. a.request \in Ahead(x)  BY <1>12, <2>1
    <3> QED  BY <1>13, <1>14, <2>1, <3>1, <3>2 DEF RunKeepsBooks, LongAgo
  <2>2. By(new, "chase")' =>
          \A a \in run'[new.by].seen :
            a.request = new.request /\ Counts(a)' => new.at - a.at >= run'[new.by].every * PartsOfDay
    BY <1>5, <1>7, <2>1
  <2> QED  BY <1>3, <1>9, <2>2, OldLettersKeepDistance DEF TooSoonOnlyUnknowing, Counts
<1>20. OneNoticeADay'
  <2>1. ASSUME By(new, "notice")', NEW a \in run[x].seen, a.request = run[x].now, By(a, "notice")'
        PROVE  Day(a.at) # Day(clock)
    <3>1. run[x].kind = "notice"  BY <1>5, <1>7, <2>1 DEF By
    <3>2. a.request \in Ahead(x)  BY <1>12, <2>1
    <3>3. Day(a.at) < Day(clock)
      BY <1>13, <1>14, <2>1, <3>1, <3>2 DEF RunKeepsBooks, Yesterday
    <3>4. Day(a.at) \in Nat /\ Day(clock) \in Nat  BY <1>6, <1>14, DaysPass
    <3> QED  BY <3>3, <3>4
  <2>2. By(new, "notice")' =>
          \A a \in run'[new.by].seen :
            a.request = new.request /\ By(a, "notice")' => Day(a.at) # Day(new.at)
    BY <1>5, <1>7, <2>1
  <2> QED  BY <1>3, <1>9, <2>2, OldLettersKeepDistance DEF OneNoticeADay, Day
<1> QED  BY <1>8, <1>17, <1>18, <1>19, <1>20

LEMMA Marked ==
  ASSUME NEW l \in Letters, NEW c \in BOOLEAN, NEW b, b = [l EXCEPT !.known = @ \/ c]
  PROVE  /\ b \in Letters /\ b.by = l.by /\ b.request = l.request /\ b.at = l.at
         /\ b.known => l.known \/ c
         /\ l.known => b = l
<1>1. PICK k \in BOOLEAN : k <=> l.known \/ c  OBVIOUS
<1>2. l.known \in BOOLEAN /\ l.by \in Run \union {None} /\ l.request \in Request /\ l.at \in Clock
  BY DEF Letters
<1>3. b = [l EXCEPT !.known = k]
  <2>1. k = (l.known \/ c)  BY <1>1, <1>2, Zenon
  <2> QED  BY <2>1
<1>4. b = [by |-> l.by, request |-> l.request, at |-> l.at, known |-> k]
  BY <1>3 DEF Letters
<1>5. l = [by |-> l.by, request |-> l.request, at |-> l.at, known |-> l.known]
  BY DEF Letters
<1>6. l.known => b = l
  <2>1. l.known => k = l.known  BY <1>1, <1>2, Zenon
  <2> QED  BY <1>4, <1>5, <2>1
<1>7. b \in Letters /\ b.by = l.by /\ b.request = l.request /\ b.at = l.at /\ b.known = k
  BY <1>2, <1>4 DEF Letters
<1>8. b.known => l.known \/ c  BY <1>1, <1>7, Zenon
<1> QED  BY <1>6, <1>7, <1>8

\* The answer to a letter, and the letters after it.
LEMMA AnsweredLetters ==
  ASSUME TypeOK, NEW x \in Run, Answered(x)
  PROVE  /\ \A b \in letters' : \E l \in letters :
              /\ b \in Letters /\ b.by = l.by /\ b.request = l.request /\ b.at = l.at
              /\ b.known => l.known \/ (l.by = x /\ l.request = run[x].now)
         /\ \A l \in letters : \E b \in letters' : b.by = l.by /\ b.request = l.request
         /\ Known \subseteq Known'
<1>1. letters \subseteq Letters  BY DEF TypeOK
<1>2. letters' = {[l EXCEPT !.known = @ \/ (l.by = x /\ l.request = run[x].now)] : l \in letters}
  BY DEF Answered
<1>3. ASSUME NEW l \in letters,
             NEW b, b = [l EXCEPT !.known = @ \/ (l.by = x /\ l.request = run[x].now)]
      PROVE  /\ b \in Letters /\ b.by = l.by /\ b.request = l.request /\ b.at = l.at
             /\ b.known => l.known \/ (l.by = x /\ l.request = run[x].now)
             /\ l.known => b = l
  <2>1. PICK c \in BOOLEAN : c = (l.by = x /\ l.request = run[x].now)  OBVIOUS
  <2>2. b = [l EXCEPT !.known = @ \/ c]  BY <1>3, <2>1
  <2>3. c => l.by = x /\ l.request = run[x].now  BY <2>1, Zenon
  <2>4. /\ b \in Letters /\ b.by = l.by /\ b.request = l.request /\ b.at = l.at
        /\ b.known => l.known \/ c
        /\ l.known => b = l
    BY <1>1, <2>2, Marked
  <2> QED  BY <2>3, <2>4
<1>4. \A b \in letters' : \E l \in letters :
        /\ b \in Letters /\ b.by = l.by /\ b.request = l.request /\ b.at = l.at
        /\ b.known => l.known \/ (l.by = x /\ l.request = run[x].now)
  <2> SUFFICES ASSUME NEW b \in letters'
               PROVE  \E l \in letters :
                        /\ b \in Letters /\ b.by = l.by /\ b.request = l.request /\ b.at = l.at
                        /\ b.known => l.known \/ (l.by = x /\ l.request = run[x].now)
    OBVIOUS
  <2>1. PICK l \in letters : b = [l EXCEPT !.known = @ \/ (l.by = x /\ l.request = run[x].now)]
    BY <1>2, Zenon
  <2> QED  BY <1>3, <2>1
<1>5. ASSUME NEW l \in letters
      PROVE  /\ \E b \in letters' : b.by = l.by /\ b.request = l.request
             /\ l.known => l \in letters'
  <2>1. PICK b : b = [l EXCEPT !.known = @ \/ (l.by = x /\ l.request = run[x].now)]  OBVIOUS
  <2>2. b \in letters'  BY <1>2, <2>1, Zenon
  <2> QED  BY <1>3, <2>1, <2>2
<1>6. Known \subseteq Known'  BY <1>5 DEF Known
<1> QED  BY <1>4, <1>5, <1>6

\* An event of the moment, with a letter behind it.
LEMMA NewEvent ==
  ASSUME NEW kind \in {"reminder.sent", "request.sent", "notice.sent", "request.contacted"},
         NEW r \in Request, NEW by \in Run \union {None}, TypeOK, RecordEvent(kind, r, by)
  PROVE  \E e \in Events :
           /\ e.kind = kind /\ e.request = r /\ e.at = clock /\ e.by = by
           /\ history' = history \union {e}
<1>1. PICK e : e = [kind |-> kind, request |-> r, at |-> clock, by |-> by]  OBVIOUS
<1>2. e \in Events  BY <1>1 DEF Events, Contact, TypeOK
<1>3. history' = history \union {e}  BY <1>1 DEF RecordEvent
<1> QED  BY <1>1, <1>2, <1>3

LEMMA RecordSentKeeps ==
  ASSUME ChasingInv, NEW x \in Run, RecordSent(x) PROVE ChasingInv'
<1> USE DEF ChasingInv
<1>1. /\ run[x].at = "taken" /\ run[x].kind \in Kinds /\ run[x].now \in Request
      /\ Wrote(x, run[x].now) /\ run[x].todo \subseteq Request
      /\ UNCHANGED <<clock, clientOf, practiceVars, links, acts>>
  BY DEF RecordSent, RunKeepsBooks, TypeOK
<1>2. PICK e \in Events :
        /\ e.kind = Sent[run[x].kind] /\ e.request = run[x].now /\ e.at = clock /\ e.by = x
        /\ history' = history \union {e}
  <2>1. Sent[run[x].kind] \in {"reminder.sent", "request.sent", "notice.sent", "request.contacted"}
    BY <1>1 DEF Sent, Kinds, ByHand
  <2>2. RecordEvent(Sent[run[x].kind], run[x].now, x)  BY DEF RecordSent
  <2>3. PICK kind \in {"reminder.sent", "request.sent", "notice.sent", "request.contacted"} :
          kind = Sent[run[x].kind]
    BY <2>1
  <2>4. RecordEvent(kind, run[x].now, x)  BY <2>2, <2>3
  <2> QED  BY <1>1, <2>3, <2>4, NewEvent
<1>3. PICK outcome \in [Request -> Outcome \union {None}] :
        /\ outcome = Tells(x, "sent")
        /\ \A r \in Request : \/ outcome[r] \in {run[x].outcome[r], None}
                              \/ outcome[r] = "sent" /\ r = run[x].now
  BY <1>1, Telling
<1>4. After(x) \in {"sending", "over"}  BY DEF After
<1>5. /\ run' \in [Run -> RunRow]
      /\ run'[x] = Row(x, After(x), run[x].todo, None, outcome)
      /\ \A y \in Run : y # x => run'[y] = run[y]
  <2>1. MovesTo(x, After(x), run[x].todo, None, outcome)  BY <1>3 DEF RecordSent, MovesTo
  <2>2. After(x) \in Going \union {"idle", "drafted", "over"}  BY <1>4 DEF Going
  <2> QED  BY <1>1, <2>1, <2>2, HandlerMoves
<1>6. /\ run'[x].kind = run[x].kind /\ run'[x].at = After(x) /\ run'[x].todo = run[x].todo
      /\ run'[x].outcome = outcome /\ run'[x].seen = run[x].seen /\ run'[x].every = run[x].every
  BY <1>5 DEF Row
<1>7. clock \in Clock /\ clock \in Nat /\ clock' = clock
  BY <1>1, TimeAssumption DEF TypeOK, Clock
<1>8. /\ \A b \in letters' : \E l \in letters :
           /\ b \in Letters /\ b.by = l.by /\ b.request = l.request /\ b.at = l.at
           /\ b.known => l.known \/ (l.by = x /\ l.request = run[x].now)
      /\ \A l \in letters : \E b \in letters' : b.by = l.by /\ b.request = l.request
      /\ Known \subseteq Known'
  BY AnsweredLetters DEF RecordSent
<1>9. \A y, r : Wrote(y, r)' <=> Wrote(y, r)  BY <1>8 DEF Wrote
<1>10. TypeOK'
  <2>1. letters' \subseteq Letters /\ history' \subseteq Events  BY <1>2, <1>8 DEF TypeOK
  <2> QED  BY <1>1, <1>5, <2>1 DEF TypeOK, RunRow, practiceVars, Made
<1>11. Ahead(x)' = run[x].todo /\ Ahead(x) = run[x].todo
  BY <1>1, <1>4, <1>6 DEF Ahead
<1>12. GoesOn(x)
  BY <1>1, <1>3, <1>4, <1>6, <1>11 DEF GoesOn
<1>13. Framed  BY <1>5, <1>6 DEF Framed
<1>14. \A y \in Run : RunKeepsBooks(y)'
  BY <1>5, <1>7, <1>8, <1>9, <1>10, <1>12, <1>13, OthersKeepBooks, GoingOnKeepsBooks
<1>15. LettersAreRecorded'
  <2>1. ASSUME NEW b \in letters' PROVE b.at <= clock' /\ (b.known => Recorded(b)')
    <3>1. PICK l \in letters :
            /\ b.by = l.by /\ b.request = l.request /\ b.at = l.at
            /\ b.known => l.known \/ (l.by = x /\ l.request = run[x].now)
      BY <1>8
    <3>2. l.at <= clock /\ (l.known => Recorded(l)) /\ l.at \in Nat
      BY WhoWrote DEF LettersAreRecorded
    <3>3. l.by # None => run'[l.by].kind = run[l.by].kind  BY <1>13, KindsStay
    <3>4. l.known => Recorded(b)'
      BY <1>2, <3>1, <3>2, <3>3 DEF Recorded
    <3>5. l.by = x /\ l.request = run[x].now => Recorded(b)'
      BY <1>2, <1>6, <1>7, <3>1, <3>2, NoneAssumption DEF Recorded
    <3> QED  BY <1>7, <3>1, <3>2, <3>4, <3>5
  <2>2. \A c \in history' : c.at <= clock' /\ Wrote(c.by, c.request)'
    BY <1>1, <1>2, <1>7, <1>9 DEF LettersAreRecorded
  <2> QED  BY <2>1, <2>2 DEF LettersAreRecorded
<1>16. TooSoonOnlyUnknowing'
  <2>1. ASSUME NEW b \in letters'
        PROVE  By(b, "chase")' =>
                 \A a \in run'[b.by].seen :
                   a.request = b.request /\ Counts(a)' => b.at - a.at >= run'[b.by].every * PartsOfDay
    <3>1. PICK l \in letters : b.by = l.by /\ b.request = l.request /\ b.at = l.at  BY <1>8
    <3>2. By(b, "chase")' <=> By(l, "chase")'  BY <3>1 DEF By
    <3> QED  BY <1>13, <3>1, <3>2, OldLettersKeepDistance
  <2> QED  BY <2>1 DEF TooSoonOnlyUnknowing, Counts
<1>17. OneNoticeADay'
  <2>1. ASSUME NEW b \in letters'
        PROVE  By(b, "notice")' =>
                 \A a \in run'[b.by].seen :
                   a.request = b.request /\ By(a, "notice")' => Day(a.at) # Day(b.at)
    <3>1. PICK l \in letters : b.by = l.by /\ b.request = l.request /\ b.at = l.at  BY <1>8
    <3>2. By(b, "notice")' <=> By(l, "notice")'  BY <3>1 DEF By
    <3> QED  BY <1>13, <3>1, <3>2, OldLettersKeepDistance
  <2> QED  BY <2>1 DEF OneNoticeADay, Day
<1> QED  BY <1>10, <1>14, <1>15, <1>16, <1>17

LEMMA LogContactKeeps ==
  ASSUME ChasingInv, NEW r \in Request, LogContact(r) PROVE ChasingInv'
<1> USE DEF ChasingInv
<1>1. UNCHANGED <<clock, clientOf, practiceVars, links, run>>  BY DEF LogContact
<1>2. PICK e \in Events :
        /\ e.kind = "request.contacted" /\ e.request = r /\ e.at = clock /\ e.by = None
        /\ history' = history \union {e}
  BY NewEvent DEF LogContact
<1>3. clock \in Clock /\ clock \in Nat /\ clock' = clock
  BY <1>1, TimeAssumption DEF TypeOK, Clock
<1>4. PICK new \in Letters :
        /\ new = [by |-> None, request |-> r, at |-> clock, known |-> TRUE]
        /\ new.by = None /\ new.request = r /\ new.at = clock
  <2>1. PICK new : new = [by |-> None, request |-> r, at |-> clock, known |-> TRUE]  OBVIOUS
  <2>2. new \in Letters  BY <1>3, <2>1 DEF Letters
  <2> QED  BY <2>1, <2>2
<1>5. letters' = letters \union {new}  BY <1>4 DEF LogContact
<1>6. TypeOK'
  <2>1. letters' \subseteq Letters /\ history' \subseteq Events  BY <1>2, <1>4, <1>5 DEF TypeOK
  <2> QED  BY <1>1, <2>1, ActsStayTyped DEF TypeOK, practiceVars, Made, LogContact
<1>7. Framed /\ Known \subseteq Known'  BY <1>1, <1>5 DEF Framed, Known
<1>8. /\ \A y, q : Wrote(y, q) => Wrote(y, q)'
      /\ \A y \in Run, q \in Request : Wrote(y, q)' <=> Wrote(y, q)
      /\ Wrote(None, r)'
  BY <1>4, <1>5, NoneAssumption DEF Wrote
<1>9. \A y \in Run : RunKeepsBooks(y)'
  BY <1>1, <1>3, <1>7, <1>8, OthersKeepBooks
<1>10. LettersAreRecorded'
  <2>1. ASSUME NEW l \in letters PROVE l.at <= clock' /\ (l.known => Recorded(l)')
    <3>1. l.at <= clock /\ (l.known => Recorded(l))  BY DEF LettersAreRecorded
    <3>2. l.by # None => run'[l.by].kind = run[l.by].kind  BY <1>7, KindsStay
    <3> QED  BY <1>2, <1>3, <3>1, <3>2 DEF Recorded
  <2>2. new.at <= clock' /\ Recorded(new)'  BY <1>2, <1>3, <1>4 DEF Recorded
  <2>3. \A c \in history' : c.at <= clock' /\ Wrote(c.by, c.request)'
    BY <1>2, <1>3, <1>8 DEF LettersAreRecorded
  <2> QED  BY <1>5, <2>1, <2>2, <2>3 DEF LettersAreRecorded
<1>11. ~By(new, "chase")' /\ ~By(new, "notice")'  BY <1>4 DEF By
<1>12. TooSoonOnlyUnknowing'
  BY <1>5, <1>7, <1>11, OldLettersKeepDistance DEF TooSoonOnlyUnknowing, Counts
<1>13. OneNoticeADay'
  BY <1>5, <1>7, <1>11, OldLettersKeepDistance DEF OneNoticeADay, Day
<1> QED  BY <1>6, <1>9, <1>10, <1>12, <1>13

-----------------------------------------------------------------------------
\* Every step keeps the books.
LEMMA StepKeeps ==
  ChasingInv /\ [Next]_vars => ChasingInv'
<1> SUFFICES ASSUME ChasingInv, [Next]_vars PROVE ChasingInv'
  OBVIOUS
<1>1. ASSUME NEW x \in Run, Continue(x) PROVE ChasingInv'
  BY <1>1, SendOneReminderKeeps, SendOneOpeningKeeps, NotifyPracticeKeeps, OverBudgetKeeps,
     ReportKeeps, RelayTakesKeeps, RecordSentKeeps, FailsKeeps DEF Continue
<1>2. CASE \E x \in Run : \/ SendAllReminders(x) \/ AskEveryone(x) \/ AskCutShort(x)
                          \/ SendDraft(x) \/ Continue(x)
                          \/ \E r \in Request, kind \in ByHand : Draft(x, r, kind)
  BY <1>1, <1>2, SendAllRemindersKeeps, AskEveryoneKeeps, AskCutShortKeeps, SendDraftKeeps, DraftKeeps
<1>3. CASE \E r \in Request : LogContact(r) \/ ClientChanges(r)
  BY <1>3, LogContactKeeps, ClientChangesKeeps
<1>4. CASE \/ \E c \in Client : SaveAddress(c)
           \/ \E r \in Request : CloseOrReopen(r) \/ AskAgain(r)
           \/ \E days \in Cadences : SetCadence(days)
           \/ Tick
  BY <1>4, PracticeKeeps
<1>5. CASE Crash  BY <1>5, CrashKeeps
<1>6. CASE UNCHANGED vars
  <2>1. UNCHANGED <<clock, clientOf, status, owed, mailable, cadence, links, history, run, letters, acts>>
    BY <1>6 DEF vars, practiceVars
  <2>2. PracticeOK'  BY <2>1 DEF ChasingInv, TypeOK, PracticeOK, Made
  <2>3. clock' >= clock  BY <2>1, TimeAssumption DEF ChasingInv, TypeOK, Clock
  <2> QED  BY <2>1, <2>2, <2>3, PracticeActs
<1> QED  BY <1>2, <1>3, <1>4, <1>5, <1>6 DEF Next

LEMMA InitKeeps ==
  Init => ChasingInv
<1> SUFFICES ASSUME Init PROVE ChasingInv
  OBVIOUS
<1>1. Cadences # {} /\ Idle.every \in Cadences
  <2>1. cadence \in Cadences  BY DEF Init
  <2>2. (CHOOSE d \in Cadences : TRUE) \in Cadences  BY <2>1
  <2> QED  BY <2>1, <2>2 DEF Idle
<1>2. Idle \in RunRow /\ Idle.at = "idle" /\ Idle.seen = {} /\ Idle.outcome = Unsaid /\ Idle.todo = {}
      /\ Idle.kind = None
  BY <1>1, NothingSaid DEF Idle, RunRow
<1>3. \A x \in Run : run[x] = Idle  BY DEF Init
<1>4. 0 \in Clock /\ 0 \in 0 .. MaxActs  BY TimeAssumption DEF Clock
<1>5. TypeOK
  <2>1. run \in [Run -> RunRow]  BY <1>2 DEF Init
  <2>2. status \in [Request -> {"none", "open", "closed"}] /\ links \in [Request -> SUBSET Run]
    BY DEF Init
  <2>3. owed \subseteq Made  BY DEF Init, Made
  <2> QED  BY <1>4, <2>1, <2>2, <2>3 DEF Init, TypeOK, RunRow
<1>6. letters = {} /\ history = {} /\ \A x, r : ~Wrote(x, r)  BY DEF Init, Wrote
<1>7. \A x \in Run : RunKeepsBooks(x)
  BY <1>2, <1>3, <1>6, NothingSaid, NoneAssumption DEF RunKeepsBooks, Ahead, Known, Kinds
<1> QED
  BY <1>5, <1>6, <1>7 DEF ChasingInv, LettersAreRecorded, TooSoonOnlyUnknowing, OneNoticeADay

\* The invariant holds for any number of requests and handlers, any cadences and any
\* length of a day: what chase-views.js, bulk-ask-views.js, request-actions.js and
\* notices.js keep between the event table and the letters the relay took.
THEOREM ChasingInvariant == Spec => []ChasingInv
<1>1. Init => ChasingInv  BY InitKeeps
<1>2. ChasingInv /\ [Next]_vars => ChasingInv'  BY StepKeeps
<1> QED  BY <1>1, <1>2, PTL DEF Spec

\* An event or a report that says "sent" has a letter the relay took, and one that says
\* held back, not reached or without an address has none: sendAllReminders and the
\* handlers beside it, whatever the relay does and wherever the process ends.
THEOREM SaidWasSent == Spec => []SaidIsSent
<1>1. ChasingInv => SaidIsSent
  BY DEF ChasingInv, LettersAreRecorded, RunKeepsBooks, SaidIsSent
<1> QED  BY <1>1, ChasingInvariant, PTL

\* About one request, a letter of the chase is nearer than the cadence to an earlier
\* reminder or call only when that one was not yet written down as the chase was listed:
\* chaseSplits. Another request of the same client is no part of it, nor are asks,
\* openings and texts: the code does not count them.
THEOREM NeverTooSoonKnowingly == Spec => []TooSoonOnlyUnknowing
<1>1. ChasingInv => TooSoonOnlyUnknowing  BY DEF ChasingInv
<1> QED  BY <1>1, ChasingInvariant, PTL

\* Two notices of a request fall on one day only when the second was decided before the
\* first was written down: notifyPracticeOfChange.
THEOREM OncePerDay == Spec => []OneNoticeADay
<1>1. ChasingInv => OneNoticeADay  BY DEF ChasingInv
<1> QED  BY <1>1, ChasingInvariant, PTL

=============================================================================
