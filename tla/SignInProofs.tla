----------------------------- MODULE SignInProofs -----------------------------
(* For any number of sessions, challenges and requests in flight, and any     *)
(* limits: what a change of password or a removal shuts out, how many guesses *)
(* are let through, and that a second factor is not gone round.  And of the   *)
(* letters that carry its links, for any relay: what is called sent was       *)
(* taken.  The two parts share nothing.                                       *)
EXTENDS SignIn, MailSession, FiniteSetTheorems, SequenceTheorems, TLAPS

SessionRow   == [live: BOOLEAN, made: Nat, late: BOOLEAN]
ChallengeRow == [open: BOOLEAN, attempts: Nat, from: Nat, guesses: Nat]
Request      == [op: Setters \cup {"none", "password", "removed", "code", "account"},
                 tok: Session \cup Challenge \cup (1..MaxResets) \cup {None},
                 from: Nat, ok: BOOLEAN]

\* The types, without the bound on era, and what each request shows.
SignInTypes ==
    /\ standing \in {"none", "member", "removed"}
    /\ era \in Nat
    /\ session \in [Session -> SessionRow]
    /\ challenge \in [Challenge -> ChallengeRow]
    /\ resets \in Seq(BOOLEAN) /\ Len(resets) =< MaxResets
    /\ failures \in [Buckets -> Nat]
    /\ flight \in [Flight -> Request]
    /\ \A f \in Flight :
          /\ flight[f].op = "code" => flight[f].tok \in Challenge
          /\ flight[f].op \in {"check", "change", "account"} => flight[f].tok \in Session

\* The requests that bring a code for c.
Coming(c) == {f \in Flight : flight[f].op = "code" /\ flight[f].tok = c}

\* What was proved, was proved of a password there was.
ProofsAreOfThePast ==
    /\ \A f \in Flight : flight[f].from =< era
    /\ \A c \in Challenge : challenge[c].from =< era

\* Without an account nothing is let in or waits to be.
NobodyBefore ==
    standing = "none" =>
        /\ \A s \in Session : ~session[s].live
        /\ \A c \in Challenge : ~challenge[c].open
        /\ \A f \in Flight : flight[f].op \in {"none", "password"} /\ ~flight[f].ok

\* Whatever lets a removed person in was proved before the removal, and a change of
\* password that is still on its way has lost its session.
RemovedAreLate ==
    standing = "removed" =>
        /\ \A s \in Session : session[s].live => session[s].late
        /\ \A f \in Flight : flight[f].op = "password" /\ flight[f].ok => flight[f].from < era
        /\ \A c \in Challenge : challenge[c].open \/ Coming(c) # {} => challenge[c].from < era
        /\ \A f \in Flight : flight[f].op \in {"check", "change"} => ~session[flight[f].tok].live

ShutOut == ChangesShutOut /\ ProofsAreOfThePast /\ NobodyBefore /\ RemovedAreLate

\* The guesses made and those on their way.
GuessesAreCounted ==
    \A c \in Challenge :
        /\ challenge[c].open => challenge[c].guesses = challenge[c].attempts /\ challenge[c].attempts < MaxAttempts
        /\ challenge[c].guesses + Cardinality(Coming(c)) =< MaxAttempts - 1 + Cardinality(Flight)

\* The requests a limiter let through that may fail yet.
Counted(b) == CASE b = "password"   -> {"password", "removed"}
                [] b = "code"       -> {"code"}
                [] b = "credential" -> {"check"}
                [] OTHER            -> {}
Pending(b) == {f \in Flight : flight[f].op \in Counted(b)}

FailuresAreCounted ==
    \A b \in Buckets :
        /\ b \notin Bucket => failures[b] = 0
        /\ failures[b] + Cardinality(Pending(b)) =< Limit - 1 + Cardinality(Flight)

\* The inductive invariant.
SignInInv == SignInTypes /\ ShutOut /\ GuessesAreCounted /\ FailuresAreCounted

-----------------------------------------------------------------------------
(* How one step may move what the invariant relates.                          *)

\* A request f comes, goes, or goes on to its next hash.
LetIn(f) ==
    LET q == flight[f]
        r == flight'[f]
    IN  \/ r = q
        \/ r = NoFlight
        \/ r.op = "password" /\ r.from = era /\ standing # "removed" /\ (r.ok => standing # "none")
        \/ r.op = "removed" /\ r.from = era /\ standing = "removed"
        \/ r.op \in {"reset", "operator", "account"} /\ r.from = 0 /\ standing # "none"
        \/ r.op = "code" /\ r.from = 0 /\ challenge[r.tok].open
        \/ r.op = "check" /\ r.from = 0 /\ standing = "member"
        \/ q.op = "check" /\ r = [q EXCEPT !.op = "change"]

\* A session stays, ends, or is made now by one who was let in.
SessionMoves(s) ==
    \/ session'[s] = session[s]
    \/ ~session'[s].live
    \/ /\ session'[s].made = era
       /\ standing # "none"
       /\ standing = "removed" => session'[s].late
       /\ s \notin Referred

\* A challenge stays, is forgotten, or is asked of one who was let in.
ChallengeMoves(c) ==
    \/ challenge'[c].from = challenge[c].from /\ (challenge'[c].open => challenge[c].open)
    \/ challenge'[c].from = 0 /\ ~challenge'[c].open /\ Coming(c)' = {}
    \/ /\ challenge'[c].from =< era
       /\ standing # "none"
       /\ standing = "removed" => challenge'[c].from < era

\* No password is set and nobody comes or goes.
Quiet ==
    /\ UNCHANGED account
    /\ \A f \in Flight : LetIn(f)
    /\ \A s \in Session : SessionMoves(s)
    /\ \A c \in Challenge : ChallengeMoves(c)

\* A password is set, or somebody comes or goes.
NewEraStep ==
    /\ era' = era + 1
    /\ standing' # "none"
    /\ UNCHANGED challenge
    /\ \A f \in Flight : flight'[f] \in {flight[f], NoFlight}
    /\ \A s \in Session : session'[s].live /\ ~session'[s].late => session'[s].made = era'
    /\ standing' = "removed" => \A s \in Session : ~session'[s].live

\* What a step does to the count of one challenge, ...
GuessMoves(c) ==
    \/ /\ Coming(c)' \subseteq Coming(c)
       /\ challenge'[c].guesses =< challenge[c].guesses
       /\ challenge'[c].open => challenge[c].open /\ challenge'[c] = challenge[c]
    \/ challenge'[c].guesses = 0 /\ challenge'[c].attempts = 0
    \/ challenge'[c] = challenge[c] /\ challenge[c].open
    \/ /\ challenge'[c].guesses = challenge[c].guesses + 1
       /\ \E f \in Coming(c) : Coming(c)' = Coming(c) \ {f}
       /\ challenge'[c].open =>
             /\ challenge[c].open
             /\ challenge'[c].attempts = challenge[c].attempts + 1
             /\ challenge'[c].attempts < MaxAttempts

\* ... and to the count of one limiter's key.
FailureMoves(b) ==
    /\ b \notin Bucket => failures'[b] = 0
    /\ \/ Pending(b)' \subseteq Pending(b) /\ failures'[b] =< failures[b]
       \/ failures[b] < Limit /\ failures'[b] =< failures[b]
       \/ failures'[b] =< failures[b] + 1 /\ \E f \in Pending(b) : Pending(b)' = Pending(b) \ {f}
       \/ failures[b] < Limit /\ failures'[b] =< failures[b] + 1 /\ Pending(b)' = {}

-----------------------------------------------------------------------------
(* Such steps keep the invariant.                                              *)

LEMMA QuietKeeps ==
  ASSUME SignInTypes, SignInTypes', ShutOut, Quiet
  PROVE  ShutOut'
<1>1. standing' = standing /\ era' = era  BY DEF Quiet, account
<1>2. era \in Nat /\ \A f \in Flight : flight[f] \in Request /\ flight'[f] \in Request
  BY DEF SignInTypes
<1>3. \A c \in Challenge : challenge[c] \in ChallengeRow /\ challenge'[c] \in ChallengeRow
  BY DEF SignInTypes
<1>4. \A f \in Flight : flight[f].from \in Nat /\ flight'[f].from \in Nat  BY <1>2 DEF Request
<1>5. NoFlight.op = "none" /\ NoFlight.from = 0 /\ ~NoFlight.ok  BY DEF NoFlight
<1>6. ChangesShutOut'
  BY <1>1 DEF Quiet, SessionMoves, ShutOut, ChangesShutOut
<1>7. ProofsAreOfThePast'
  <2>1. ASSUME NEW f \in Flight PROVE flight'[f].from =< era
    <3>1. flight'[f] = [flight[f] EXCEPT !.op = "change"] => flight'[f].from = flight[f].from
      BY <1>2 DEF Request
    <3> QED  BY <1>2, <1>4, <1>5, <3>1 DEF Quiet, LetIn, ShutOut, ProofsAreOfThePast
  <2>2. ASSUME NEW c \in Challenge PROVE challenge'[c].from =< era
    BY <1>2, <1>3 DEF Quiet, ChallengeMoves, ShutOut, ProofsAreOfThePast
  <2> QED  BY <1>1, <2>1, <2>2 DEF ProofsAreOfThePast
<1>8. NobodyBefore'
  <2> SUFFICES ASSUME standing = "none"
               PROVE  /\ \A s \in Session : ~session'[s].live
                      /\ \A c \in Challenge : ~challenge'[c].open
                      /\ \A f \in Flight : flight'[f].op \in {"none", "password"} /\ ~flight'[f].ok
    BY <1>1 DEF NobodyBefore
  <2>1. \A s \in Session : ~session[s].live  BY DEF ShutOut, NobodyBefore
  <2>2. \A c \in Challenge : ~challenge[c].open  BY DEF ShutOut, NobodyBefore
  <2>3. \A f \in Flight : flight[f].op \in {"none", "password"} /\ ~flight[f].ok
    BY DEF ShutOut, NobodyBefore
  <2>4. \A f \in Flight : flight'[f].op = "code" => flight'[f].tok \in Challenge  BY DEF SignInTypes
  <2>5. \A s \in Session : ~session'[s].live  BY <2>1 DEF Quiet, SessionMoves
  <2>6. \A c \in Challenge : ~challenge'[c].open  BY <2>2 DEF Quiet, ChallengeMoves
  <2>7. ASSUME NEW f \in Flight PROVE flight'[f].op \in {"none", "password"} /\ ~flight'[f].ok
    <3>1. flight[f].op # "check" /\ LetIn(f)  BY <2>3 DEF Quiet
    <3> QED  BY <1>5, <2>2, <2>3, <2>4, <3>1 DEF LetIn
  <2> QED  BY <2>5, <2>6, <2>7
<1>9. RemovedAreLate'
  <2> SUFFICES ASSUME standing = "removed"
               PROVE  /\ \A s \in Session : session'[s].live => session'[s].late
                      /\ \A f \in Flight : flight'[f].op = "password" /\ flight'[f].ok => flight'[f].from < era
                      /\ \A c \in Challenge : challenge'[c].open \/ Coming(c)' # {} => challenge'[c].from < era
                      /\ \A f \in Flight : flight'[f].op \in {"check", "change"} => ~session'[flight'[f].tok].live
    BY <1>1 DEF RemovedAreLate
  <2>1. \A s \in Session : session'[s].live => session'[s].late
    BY DEF Quiet, SessionMoves, ShutOut, RemovedAreLate
  <2>2. ASSUME NEW f \in Flight, flight'[f].op = "password", flight'[f].ok PROVE flight'[f].from < era
    <3>1. LetIn(f)  BY DEF Quiet
    <3>2. flight'[f] = flight[f]
      <4>1. ASSUME flight'[f] = [flight[f] EXCEPT !.op = "change"] PROVE FALSE
        BY <1>2, <2>2, <4>1 DEF Request
      <4> QED  BY <1>5, <2>2, <3>1, <4>1 DEF LetIn
    <3> QED  BY <2>2, <3>2 DEF ShutOut, RemovedAreLate
  <2>3. ASSUME NEW c \in Challenge, challenge'[c].open \/ Coming(c)' # {} PROVE challenge'[c].from < era
    <3>1. ChallengeMoves(c)  BY DEF Quiet
    <3>2. CASE challenge'[c].from = challenge[c].from /\ (challenge'[c].open => challenge[c].open)
      <4>1. challenge[c].open \/ Coming(c) # {}
        <5>1. CASE challenge'[c].open  BY <3>2, <5>1
        <5>2. CASE Coming(c)' # {}
          <6>1. PICK f \in Flight : flight'[f].op = "code" /\ flight'[f].tok = c  BY <5>2 DEF Coming
          <6>2. LetIn(f)  BY DEF Quiet
          <6>3. flight'[f] # [flight[f] EXCEPT !.op = "change"]  BY <1>2, <6>1 DEF Request
          <6>4. flight'[f] = flight[f] \/ challenge[c].open  BY <1>5, <6>1, <6>2, <6>3 DEF LetIn
          <6> QED  BY <6>1, <6>4 DEF Coming
        <5> QED  BY <2>3, <5>1, <5>2
      <4> QED  BY <3>2, <4>1 DEF ShutOut, RemovedAreLate
    <3> QED  BY <2>3, <3>1, <3>2 DEF ChallengeMoves
  <2>4. ASSUME NEW f \in Flight, flight'[f].op \in {"check", "change"} PROVE ~session'[flight'[f].tok].live
    <3>1. LetIn(f)  BY DEF Quiet
    <3>2. flight[f].op \in {"check", "change"} /\ flight'[f].tok = flight[f].tok
      <4>1. flight'[f] = [flight[f] EXCEPT !.op = "change"] => flight'[f].tok = flight[f].tok
        BY <1>2 DEF Request
      <4> QED  BY <1>5, <2>4, <3>1, <4>1 DEF LetIn
    <3>3. flight[f].tok \in Session /\ ~session[flight[f].tok].live
      BY <3>2 DEF SignInTypes, ShutOut, RemovedAreLate
    <3>4. flight[f].tok \in Referred  BY DEF Referred
    <3> QED  BY <3>2, <3>3, <3>4 DEF Quiet, SessionMoves
  <2> QED  BY <2>1, <2>2, <2>3, <2>4
<1> QED  BY <1>6, <1>7, <1>8, <1>9 DEF ShutOut

LEMMA NewEraKeeps ==
  ASSUME SignInTypes, SignInTypes', ShutOut, NewEraStep
  PROVE  ShutOut'
<1>1. era \in Nat /\ era' = era + 1  BY DEF NewEraStep, SignInTypes
<1>2. NoFlight.op = "none" /\ NoFlight.from = 0  BY DEF NoFlight
<1>3. \A f \in Flight : flight[f].from \in Nat /\ flight[f].from =< era
  BY DEF SignInTypes, Request, ShutOut, ProofsAreOfThePast
<1>4. \A c \in Challenge : challenge[c].from \in Nat /\ challenge[c].from =< era
  BY DEF SignInTypes, ChallengeRow, ShutOut, ProofsAreOfThePast
<1>5. ChangesShutOut'  BY DEF NewEraStep, ChangesShutOut
<1>6. \A f \in Flight : flight'[f].from \in Nat /\ flight'[f].from < era'
  BY <1>1, <1>2, <1>3 DEF NewEraStep
<1>7. \A c \in Challenge : challenge'[c].from \in Nat /\ challenge'[c].from < era'
  BY <1>1, <1>4 DEF NewEraStep
<1>8. ProofsAreOfThePast'  BY <1>1, <1>6, <1>7 DEF ProofsAreOfThePast
<1>9. NobodyBefore'  BY DEF NewEraStep, NobodyBefore
<1>10. RemovedAreLate'
  <2> SUFFICES ASSUME standing' = "removed" PROVE RemovedAreLate'  BY DEF RemovedAreLate
  <2>1. \A s \in Session : ~session'[s].live  BY DEF NewEraStep
  <2>2. \A f \in Flight : flight'[f].op \in {"check", "change"} => flight'[f].tok \in Session
    BY DEF SignInTypes
  <2> QED  BY <1>6, <1>7, <2>1, <2>2 DEF RemovedAreLate
<1> QED  BY <1>5, <1>8, <1>9, <1>10 DEF ShutOut

LEMMA FlightsAreCounted ==
  /\ \A S \in SUBSET Flight : IsFiniteSet(S) /\ Cardinality(S) \in Nat /\ Cardinality(S) =< Cardinality(Flight)
  /\ Cardinality({}) = 0
  /\ Cardinality(Flight) \in Nat \ {0}
<1>1. IsFiniteSet(Flight) /\ Flight # {}  BY FlightAssumption
<1>2. \A S \in SUBSET Flight : IsFiniteSet(S) /\ Cardinality(S) =< Cardinality(Flight)
  BY <1>1, FS_Subset
<1>3. \A S \in SUBSET Flight : Cardinality(S) \in Nat  BY <1>2, FS_CardinalityType
<1>4. Cardinality({}) = 0 /\ Cardinality(Flight) # 0  BY <1>1, FS_EmptySet
<1>5. Cardinality(Flight) \in Nat  BY <1>3
<1> QED  BY <1>2, <1>3, <1>4, <1>5

LEMMA GuessesKeep ==
  ASSUME SignInTypes, SignInTypes', GuessesAreCounted, \A c \in Challenge : GuessMoves(c)
  PROVE  GuessesAreCounted'
<1> DEFINE N == Cardinality(Flight)
<1>0. N \in Nat \ {0} /\ MaxAttempts \in Nat \ {0}  BY FlightsAreCounted, LimitAssumption
<1> HIDE DEF N
<1> SUFFICES ASSUME NEW c \in Challenge
             PROVE  /\ challenge'[c].open => challenge'[c].guesses = challenge'[c].attempts /\ challenge'[c].attempts < MaxAttempts
                    /\ challenge'[c].guesses + Cardinality(Coming(c)') =< MaxAttempts - 1 + N
  BY DEF GuessesAreCounted, Coming, N
<1>1. Coming(c) \subseteq Flight /\ Coming(c)' \subseteq Flight  BY DEF Coming
<1>2. PICK before, after : before = Cardinality(Coming(c)) /\ after = Cardinality(Coming(c)')  OBVIOUS
<1>3. before \in 0..N /\ after \in 0..N  BY <1>0, <1>1, <1>2, FlightsAreCounted DEF N
<1>4. challenge[c] \in ChallengeRow /\ challenge'[c] \in ChallengeRow  BY DEF SignInTypes
<1>5. /\ challenge[c].guesses \in Nat /\ challenge'[c].guesses \in Nat
      /\ challenge[c].attempts \in Nat /\ challenge'[c].attempts \in Nat
  BY <1>4 DEF ChallengeRow
<1>6. /\ challenge[c].open => challenge[c].guesses = challenge[c].attempts /\ challenge[c].attempts < MaxAttempts
      /\ challenge[c].guesses + before =< MaxAttempts - 1 + N
  BY <1>2 DEF GuessesAreCounted, N
<1>7. CASE /\ Coming(c)' \subseteq Coming(c)
           /\ challenge'[c].guesses =< challenge[c].guesses
           /\ challenge'[c].open => challenge[c].open /\ challenge'[c] = challenge[c]
  <2>1. after =< before  BY <1>1, <1>2, <1>7, FlightsAreCounted, FS_Subset
  <2> QED  BY <1>0, <1>2, <1>3, <1>5, <1>6, <1>7, <2>1
<1>8. CASE challenge'[c].guesses = 0 /\ challenge'[c].attempts = 0
  BY <1>0, <1>2, <1>3, <1>8
<1>9. CASE challenge'[c] = challenge[c] /\ challenge[c].open
  BY <1>0, <1>2, <1>3, <1>5, <1>6, <1>9
<1>10. CASE /\ challenge'[c].guesses = challenge[c].guesses + 1
            /\ \E f \in Coming(c) : Coming(c)' = Coming(c) \ {f}
            /\ challenge'[c].open =>
                  /\ challenge[c].open
                  /\ challenge'[c].attempts = challenge[c].attempts + 1
                  /\ challenge'[c].attempts < MaxAttempts
  <2>1. after = before - 1
    BY <1>1, <1>2, <1>10, FlightsAreCounted, FS_RemoveElement
  <2> QED  BY <1>0, <1>2, <1>3, <1>5, <1>6, <1>10, <2>1
<1> QED  BY <1>7, <1>8, <1>9, <1>10 DEF GuessMoves

LEMMA FailuresKeep ==
  ASSUME SignInTypes, SignInTypes', FailuresAreCounted, \A b \in Buckets : FailureMoves(b)
  PROVE  FailuresAreCounted'
<1> DEFINE N == Cardinality(Flight)
<1>0. N \in Nat \ {0} /\ Limit \in Nat \ {0}  BY FlightsAreCounted, LimitAssumption
<1> HIDE DEF N
<1> SUFFICES ASSUME NEW b \in Buckets
             PROVE  failures'[b] + Cardinality(Pending(b)') =< Limit - 1 + N
  BY DEF FailuresAreCounted, FailureMoves, N
<1>1. Pending(b) \subseteq Flight /\ Pending(b)' \subseteq Flight  BY DEF Pending
<1>2. PICK before, after : before = Cardinality(Pending(b)) /\ after = Cardinality(Pending(b)')  OBVIOUS
<1>3. before \in 0..N /\ after \in 0..N  BY <1>0, <1>1, <1>2, FlightsAreCounted DEF N
<1>4. failures[b] \in Nat /\ failures'[b] \in Nat  BY DEF SignInTypes
<1>5. failures[b] + before =< Limit - 1 + N  BY <1>2 DEF FailuresAreCounted, N
<1>6. CASE Pending(b)' \subseteq Pending(b) /\ failures'[b] =< failures[b]
  <2>1. after =< before  BY <1>1, <1>2, <1>6, FlightsAreCounted, FS_Subset
  <2> QED  BY <1>0, <1>2, <1>3, <1>4, <1>5, <1>6, <2>1
<1>7. CASE failures[b] < Limit /\ failures'[b] =< failures[b]
  BY <1>0, <1>2, <1>3, <1>4, <1>7
<1>8. CASE failures'[b] =< failures[b] + 1 /\ \E f \in Pending(b) : Pending(b)' = Pending(b) \ {f}
  <2>1. after = before - 1
    BY <1>1, <1>2, <1>8, FlightsAreCounted, FS_RemoveElement
  <2> QED  BY <1>0, <1>2, <1>3, <1>4, <1>5, <1>8, <2>1
<1>9. CASE failures[b] < Limit /\ failures'[b] =< failures[b] + 1 /\ Pending(b)' = {}
  <2>1. after = 0  BY <1>2, <1>9, FlightsAreCounted
  <2> QED  BY <1>0, <1>2, <1>4, <1>9, <2>1
<1> QED  BY <1>6, <1>7, <1>8, <1>9 DEF FailureMoves

LEMMA StepKeeps ==
  ASSUME SignInInv, SignInTypes', Quiet \/ NewEraStep,
         \A c \in Challenge : GuessMoves(c), \A b \in Buckets : FailureMoves(b)
  PROVE  SignInInv'
BY QuietKeeps, NewEraKeeps, GuessesKeep, FailuresKeep DEF SignInInv

-----------------------------------------------------------------------------
(* Requests that come and go, and the limiters.                                *)

\* A request that ends leaves the counts it was in.
LEMMA RequestEnds ==
  ASSUME SignInTypes, NEW f \in Flight, NEW op, Ends(f, op)
  PROVE  /\ flight[f].op = op
         /\ \A g \in Flight : LetIn(g)
         /\ \A g \in Flight : flight'[g] \in {flight[g], NoFlight}
         /\ \A c \in Challenge : Coming(c)' = Coming(c) \ {f}
         /\ \A b \in Buckets : Pending(b)' = Pending(b) \ {f}
         /\ flight' \in [Flight -> Request]
         /\ \A g \in Flight :
               /\ flight'[g].op = "code" => flight'[g].tok \in Challenge
               /\ flight'[g].op \in {"check", "change", "account"} => flight'[g].tok \in Session
<1>1. flight \in [Flight -> Request]  BY DEF SignInTypes
<1>2. flight[f].op = op /\ flight' = [flight EXCEPT ![f] = NoFlight]  BY DEF Ends
<1>3. NoFlight \in Request /\ NoFlight.op = "none"  BY DEF NoFlight, Request
<1>4. \A g \in Flight : flight'[g] = IF g = f THEN NoFlight ELSE flight[g]  BY <1>1, <1>2
<1>5. flight' \in [Flight -> Request]  BY <1>1, <1>2, <1>3
<1>6. \A c \in Challenge : Coming(c)' = Coming(c) \ {f}  BY <1>3, <1>4 DEF Coming
<1>7. \A b \in Buckets : "none" \notin Counted(b)  BY DEF Counted, Buckets
<1>8. \A b \in Buckets : Pending(b)' = Pending(b) \ {f}  BY <1>3, <1>4, <1>7 DEF Pending
<1>9. \A g \in Flight : LetIn(g)  BY <1>4 DEF LetIn
<1> QED  BY <1>2, <1>3, <1>4, <1>5, <1>6, <1>8, <1>9 DEF SignInTypes

\* A request that starts is counted in the limiter it passed.
LEMMA RequestStarts ==
  ASSUME SignInTypes, NEW f \in Flight, NEW r \in Request,
         flight[f] = NoFlight, flight' = [flight EXCEPT ![f] = r],
         r.op = "code" => r.tok \in Challenge,
         r.op \in {"check", "change", "account"} => r.tok \in Session
  PROVE  /\ flight'[f] = r
         /\ \A g \in Flight : g # f => LetIn(g)
         /\ \A c \in Challenge : ~(r.op = "code" /\ r.tok = c) => Coming(c)' = Coming(c)
         /\ \A b \in Buckets : r.op \notin Counted(b) => Pending(b)' = Pending(b)
         /\ flight' \in [Flight -> Request]
         /\ \A g \in Flight :
               /\ flight'[g].op = "code" => flight'[g].tok \in Challenge
               /\ flight'[g].op \in {"check", "change", "account"} => flight'[g].tok \in Session
<1>1. flight \in [Flight -> Request]  BY DEF SignInTypes
<1>3. NoFlight.op = "none"  BY DEF NoFlight
<1>4. \A g \in Flight : flight'[g] = IF g = f THEN r ELSE flight[g]  BY <1>1
<1>5. flight' \in [Flight -> Request]  BY <1>1
<1>6. \A c \in Challenge : ~(r.op = "code" /\ r.tok = c) => Coming(c)' = Coming(c)
  BY <1>3, <1>4 DEF Coming
<1>7. \A b \in Buckets : "none" \notin Counted(b)  BY DEF Counted, Buckets
<1>8. \A b \in Buckets : r.op \notin Counted(b) => Pending(b)' = Pending(b)
  BY <1>3, <1>4, <1>7 DEF Pending
<1>9. \A g \in Flight : g # f => LetIn(g)  BY <1>4 DEF LetIn
<1> QED  BY <1>4, <1>5, <1>6, <1>8, <1>9 DEF SignInTypes

LEMMA RequestStartsAs ==
  ASSUME SignInTypes, NEW f \in Flight, NEW op \in {"code", "reset", "operator", "check", "account"},
         NEW tok \in Session \cup Challenge \cup (1..MaxResets) \cup {None}, NEW ok \in BOOLEAN,
         Starts(f, op, tok, ok),
         op = "code" => tok \in Challenge, op \in {"check", "account"} => tok \in Session
  PROVE  /\ flight'[f].op = op /\ flight'[f].tok = tok /\ flight'[f].from = 0
         /\ \A g \in Flight : g # f => LetIn(g)
         /\ \A c \in Challenge : ~(op = "code" /\ tok = c) => Coming(c)' = Coming(c)
         /\ \A b \in Buckets : op \notin Counted(b) => Pending(b)' = Pending(b)
         /\ flight' \in [Flight -> Request]
         /\ \A g \in Flight :
               /\ flight'[g].op = "code" => flight'[g].tok \in Challenge
               /\ flight'[g].op \in {"check", "change", "account"} => flight'[g].tok \in Session
<1> DEFINE r == [op |-> op, tok |-> tok, from |-> 0, ok |-> ok]
<1>1. [NoFlight EXCEPT !.op = op, !.tok = tok, !.ok = ok] = r
  <2>1. PICK q \in Request : q = NoFlight  BY DEF NoFlight, Request
  <2>2. [q EXCEPT !.op = op, !.tok = tok, !.ok = ok] = [op |-> op, tok |-> tok, from |-> q.from, ok |-> ok]
    <3> DEFINE e == [q EXCEPT !.op = op, !.tok = tok, !.ok = ok]
    <3>1. q = [op |-> q.op, tok |-> q.tok, from |-> q.from, ok |-> q.ok]  BY DEF Request
    <3>2. DOMAIN q = {"op", "tok", "from", "ok"}  BY <3>1
    <3>3. e = [x \in {"op", "tok", "from", "ok"} |-> IF x = "ok" THEN ok ELSE IF x = "tok" THEN tok ELSE IF x = "op" THEN op ELSE q[x]]
      BY <3>2, Zenon
    <3> QED  BY <3>3
  <2>3. NoFlight.from = 0  BY DEF NoFlight
  <2> QED  BY <2>1, <2>2, <2>3
<1>2. r \in Request /\ r.op = op /\ r.tok = tok /\ r.from = 0  BY DEF Request, Setters
<1>3. flight[f] = NoFlight /\ flight' = [flight EXCEPT ![f] = r]  BY <1>1 DEF Starts
<1> HIDE DEF r
<1>4. /\ r.op = "code" => r.tok \in Challenge
      /\ r.op \in {"check", "change", "account"} => r.tok \in Session
  BY <1>2
<1> QED  BY <1>2, <1>3, <1>4, RequestStarts

\* Nothing is guessed.
LEMMA NothingGuessed ==
  ASSUME UNCHANGED challenge, \A c \in Challenge : Coming(c)' \subseteq Coming(c), SignInTypes
  PROVE  \A c \in Challenge : GuessMoves(c) /\ ChallengeMoves(c)
<1>1. \A c \in Challenge : challenge[c].guesses \in Nat  BY DEF SignInTypes, ChallengeRow
<1> QED  BY <1>1 DEF GuessMoves, ChallengeMoves

LEMMA NobodySignedIn ==
  UNCHANGED session => \A s \in Session : SessionMoves(s)
BY DEF SessionMoves

LEMMA NothingFails ==
  ASSUME SignInTypes, FailuresAreCounted, UNCHANGED failures, \A b \in Buckets : Pending(b)' \subseteq Pending(b)
  PROVE  \A b \in Buckets : FailureMoves(b)
<1>1. \A b \in Buckets : failures[b] \in Nat  BY DEF SignInTypes
<1> QED  BY <1>1 DEF FailureMoves, FailuresAreCounted

LEMMA FailuresForgotten ==
  ASSUME SignInTypes, FailuresAreCounted, NEW a \in Buckets, succeeded(a),
         \A b \in Buckets : Pending(b)' \subseteq Pending(b)
  PROVE  failures' \in [Buckets -> Nat] /\ \A b \in Buckets : FailureMoves(b)
<1>1. \A b \in Buckets : failures[b] \in Nat  BY DEF SignInTypes
<1>2. failures' = [failures EXCEPT ![a] = 0] /\ failures \in [Buckets -> Nat]
  BY DEF succeeded, SignInTypes
<1>3. \A b \in Buckets : failures'[b] = IF b = a THEN 0 ELSE failures[b]  BY <1>2
<1> QED  BY <1>1, <1>2, <1>3 DEF FailureMoves, FailuresAreCounted

\* A failure of a request that was counted, or of one that is not let in
\* before it is counted.
LEMMA FailureIsCounted ==
  ASSUME SignInTypes, FailuresAreCounted, NEW a \in Buckets, failed(a),
         \A b \in Buckets : Pending(b)' \subseteq Pending(b),
         \/ \E f \in Pending(a) : Pending(a)' = Pending(a) \ {f}
         \/ ~blockedFor(a) /\ Pending(a)' = {}
  PROVE  failures' \in [Buckets -> Nat] /\ \A b \in Buckets : FailureMoves(b)
<1>1. \A b \in Buckets : failures[b] \in Nat  BY DEF SignInTypes
<1>2. failures' = [failures EXCEPT ![a] = IF a \in Bucket THEN @ + 1 ELSE @] /\ failures \in [Buckets -> Nat]
  BY DEF failed, SignInTypes
<1>3. \A b \in Buckets : failures'[b] = IF b = a /\ a \in Bucket THEN failures[b] + 1 ELSE failures[b]
  BY <1>2
<1>4. \A b \in Buckets : failures'[b] \in Nat  BY <1>1, <1>3
<1>5. failures' \in [Buckets -> Nat]
  <2>1. failures' = [b \in Buckets |-> failures'[b]]  BY <1>2
  <2> QED  BY <1>4, <2>1
<1>6. ASSUME NEW b \in Buckets PROVE FailureMoves(b)
  <2>1. b \notin Bucket => failures'[b] = 0  BY <1>3 DEF FailuresAreCounted
  <2>2. CASE b # a  BY <1>1, <1>3, <2>1, <2>2 DEF FailureMoves
  <2>3. CASE b = a /\ a \notin Bucket  BY <1>1, <1>3, <2>1, <2>3 DEF FailureMoves
  <2>4. CASE b = a /\ a \in Bucket
    <3>1. failures'[b] =< failures[b] + 1  BY <1>1, <1>3, <2>4
    <3>2. ~blockedFor(a) => failures[b] < Limit
      BY <1>1, <2>4, LimitAssumption DEF blockedFor
    <3> QED  BY <2>1, <2>4, <3>1, <3>2 DEF FailureMoves
  <2> QED  BY <2>2, <2>3, <2>4
<1> QED  BY <1>5, <1>6

\* A request let in by a limiter that does not block it.
LEMMA LetInIsCounted ==
  ASSUME SignInTypes, FailuresAreCounted, NEW a \in Buckets, ~blockedFor(a), UNCHANGED failures,
         \A b \in Buckets : b # a => Pending(b)' \subseteq Pending(b)
  PROVE  \A b \in Buckets : FailureMoves(b)
<1>1. \A b \in Buckets : failures[b] \in Nat  BY DEF SignInTypes
<1>2. failures[a] < Limit
  BY <1>1, LimitAssumption DEF blockedFor, FailuresAreCounted
<1> QED  BY <1>1, <1>2 DEF FailureMoves, FailuresAreCounted

-----------------------------------------------------------------------------
(* At the door: one lemma per step of a request that is not signed in.         *)

LEMMA KnockKeeps ==
  ASSUME SignInInv, NEW f \in Flight, Knock(f)
  PROVE  SignInInv'
<1> USE DEF SignInInv
<1>1. PICK right \in BOOLEAN :
         flight' = [flight EXCEPT ![f] =
             [op   |-> IF standing = "removed" THEN "removed" ELSE "password",
              tok  |-> None,
              from |-> era,
              ok   |-> right /\ standing # "none"]]
  BY DEF Knock
<1> DEFINE r == [op   |-> IF standing = "removed" THEN "removed" ELSE "password",
                 tok  |-> None, from |-> era, ok |-> right /\ standing # "none"]
<1>2. r \in Request /\ r.op \in {"removed", "password"}  BY DEF SignInTypes, Request
<1>3. flight[f] = NoFlight /\ flight' = [flight EXCEPT ![f] = r]  BY <1>1 DEF Knock
<1>4. /\ r.from = era
      /\ r.op = "removed" => standing = "removed"
      /\ r.op = "password" => standing # "removed"
      /\ r.ok => standing # "none"
  OBVIOUS
<1> HIDE DEF r
<1>5. /\ flight'[f] = r
      /\ \A g \in Flight : g # f => LetIn(g)
      /\ \A c \in Challenge : Coming(c)' = Coming(c)
      /\ \A b \in Buckets : r.op \notin Counted(b) => Pending(b)' = Pending(b)
      /\ SignInTypes'
  BY <1>2, <1>3, RequestStarts DEF Knock, account, links, SignInTypes
<1>6. LetIn(f)  BY <1>2, <1>4, <1>5 DEF LetIn
<1>7. Quiet
  BY <1>5, <1>6, NothingGuessed, NobodySignedIn DEF Knock, Quiet, account
<1>8. \A c \in Challenge : GuessMoves(c)  BY <1>5, NothingGuessed DEF Knock
<1>9. \A b \in Buckets : FailureMoves(b)
  <2>1. \A b \in Buckets : b # "password" => r.op \notin Counted(b)  BY <1>2 DEF Buckets, Counted
  <2> QED  BY <1>5, <2>1, LetInIsCounted DEF Knock, Buckets
<1> QED  BY <1>5, <1>7, <1>8, <1>9, StepKeeps

LEMMA TurnAwayKeeps ==
  ASSUME SignInInv, NEW f \in Flight, TurnAway(f)
  PROVE  SignInInv'
<1> USE DEF SignInInv
<1>1. Ends(f, "removed") /\ UNCHANGED <<account, factor, session, challenge, links>>  BY DEF TurnAway
<1>2. failures' \in [Buckets -> Nat] /\ \A b \in Buckets : FailureMoves(b)
  <2>1. f \in Pending("password")  BY <1>1 DEF Pending, Counted, Ends
  <2>2. \A b \in Buckets : Pending(b)' = Pending(b) \ {f}  BY <1>1, RequestEnds
  <2>3. "password" \in Buckets  BY DEF Buckets
  <2> QED  BY <2>1, <2>2, <2>3, FailuresForgotten, FailureIsCounted DEF TurnAway
<1>3. SignInTypes'  BY <1>1, <1>2, RequestEnds DEF SignInTypes, account, links
<1>4. Quiet /\ \A c \in Challenge : GuessMoves(c)
  BY <1>1, RequestEnds, NothingGuessed, NobodySignedIn DEF Quiet, account
<1> QED  BY <1>2, <1>3, <1>4, StepKeeps

\* The session createSession makes is nobody's yet.
LEMMA SessionIsMade ==
  ASSUME SignInTypes, NEW proof \in Nat, NEW made \in Nat, createSession(proof, made)
  PROVE  /\ session' \in [Session -> SessionRow]
         /\ \A s \in Session :
               \/ session'[s] = session[s]
               \/ s \notin Referred /\ session'[s].made = made /\ (session'[s].late <=> proof # made)
<1>1. PICK s \in Session \ Referred :
         session' = [session EXCEPT ![s] = [live |-> TRUE, made |-> made, late |-> proof # made]]
  BY DEF createSession
<1>2. [live |-> TRUE, made |-> made, late |-> proof # made] \in SessionRow  BY DEF SessionRow
<1> QED  BY <1>1, <1>2 DEF SignInTypes

LEMMA CheckPasswordKeeps ==
  ASSUME SignInInv, NEW f \in Flight, CheckPassword(f)
  PROVE  SignInInv'
<1> USE DEF SignInInv
<1>1. Ends(f, "password") /\ UNCHANGED <<account, factor, links>>  BY DEF CheckPassword
<1>2. /\ flight[f].op = "password" /\ \A g \in Flight : LetIn(g)
      /\ \A c \in Challenge : Coming(c)' = Coming(c) \ {f}
      /\ \A b \in Buckets : Pending(b)' = Pending(b) \ {f}
  BY <1>1, RequestEnds
<1>3. "password" \in Buckets /\ f \in Pending("password")  BY <1>2 DEF Pending, Counted, Buckets
<1>4. failures' \in [Buckets -> Nat] /\ \A b \in Buckets : FailureMoves(b)
  BY <1>2, <1>3, FailuresForgotten, FailureIsCounted DEF CheckPassword
<1>5. /\ era \in Nat /\ flight[f].from \in Nat /\ flight[f].from =< era
      /\ flight[f].ok => standing # "none"
      /\ flight[f].ok /\ standing = "removed" => flight[f].from < era
  BY <1>2 DEF SignInTypes, Request, ShutOut, ProofsAreOfThePast, NobodyBefore, RemovedAreLate
<1>6. CASE UNCHANGED <<session, challenge>>
  <2>1. SignInTypes'  BY <1>1, <1>4, <1>6, RequestEnds DEF SignInTypes, account, links
  <2>2. Quiet /\ \A c \in Challenge : GuessMoves(c)
    BY <1>1, <1>2, <1>6, NothingGuessed, NobodySignedIn DEF Quiet, account
  <2> QED  BY <1>4, <2>1, <2>2, StepKeeps
<1>7. CASE flight[f].ok /\ createSession(flight[f].from, era) /\ UNCHANGED challenge
  <2>1. session' \in [Session -> SessionRow] /\ \A s \in Session : SessionMoves(s)
    <3>1. createSession(flight[f].from, era)  BY <1>7
    <3>2. PICK p \in Nat : p = flight[f].from /\ createSession(p, era)  BY <1>5, <3>1
    <3>3. standing = "removed" => p # era  BY <1>5, <1>7, <3>2
    <3> QED  BY <1>5, <1>7, <3>2, <3>3, SessionIsMade DEF SessionMoves
  <2>2. SignInTypes'  BY <1>1, <1>4, <1>7, <2>1, RequestEnds DEF SignInTypes, account, links
  <2>3. Quiet /\ \A c \in Challenge : GuessMoves(c)
    BY <1>1, <1>2, <1>7, <2>1, NothingGuessed DEF Quiet, account
  <2> QED  BY <1>4, <2>2, <2>3, StepKeeps
<1>8. ASSUME flight[f].ok, UNCHANGED session, NEW c \in Challenge \ Referred, ~challenge[c].open,
             challenge' = [challenge EXCEPT
                 ![c] = [NoChallenge EXCEPT !.open = TRUE, !.from = flight[f].from]]
      PROVE  SignInInv'
  <2>1. PICK r : r = [open |-> TRUE, attempts |-> 0, from |-> flight[f].from, guesses |-> 0]  OBVIOUS
  <2>2. [NoChallenge EXCEPT !.open = TRUE, !.from = flight[f].from] = r
    <3>1. PICK q : q = NoChallenge  OBVIOUS
    <3>2. DOMAIN q = {"open", "attempts", "from", "guesses"} /\ q.attempts = 0 /\ q.guesses = 0
      BY <3>1 DEF NoChallenge
    <3>3. ASSUME NEW t, NEW u
          PROVE  [q EXCEPT !.open = t, !.from = u] =
                     [open |-> t, attempts |-> q.attempts, from |-> u, guesses |-> q.guesses]
      <4>1. [q EXCEPT !.open = t, !.from = u] =
                [x \in {"open", "attempts", "from", "guesses"} |->
                    IF x = "from" THEN u ELSE IF x = "open" THEN t ELSE q[x]]
        BY <3>2, Zenon
      <4> QED  BY <4>1
    <3>4. [q EXCEPT !.open = TRUE, !.from = flight[f].from] =
              [open |-> TRUE, attempts |-> q.attempts, from |-> flight[f].from, guesses |-> q.guesses]
      BY <3>3
    <3> QED  BY <2>1, <3>1, <3>2, <3>4
  <2>3. r \in ChallengeRow  BY <1>5, <2>1 DEF ChallengeRow
  <2>4. challenge \in [Challenge -> ChallengeRow] /\ challenge' = [challenge EXCEPT ![c] = r]
    BY <1>8, <2>2 DEF SignInTypes
  <2>5. challenge' \in [Challenge -> ChallengeRow]  BY <2>3, <2>4
  <2>6. \A d \in Challenge : challenge'[d] = IF d = c THEN r ELSE challenge[d]  BY <2>4
  <2>7. r.from = flight[f].from /\ r.guesses = 0 /\ r.attempts = 0  BY <2>1
  <2>8. \A d \in Challenge : ChallengeMoves(d)  BY <1>5, <1>8, <2>6, <2>7 DEF ChallengeMoves
  <2>9. ASSUME NEW d \in Challenge PROVE GuessMoves(d)
    <3>1. challenge[d].guesses \in Nat  BY DEF SignInTypes, ChallengeRow
    <3> QED  BY <1>2, <2>6, <2>7, <3>1 DEF GuessMoves
  <2>10. SignInTypes'  BY <1>1, <1>4, <1>8, <2>5, RequestEnds DEF SignInTypes, account, links
  <2>11. Quiet  BY <1>1, <1>2, <1>8, <2>8, NobodySignedIn DEF Quiet, account
  <2> QED  BY <1>4, <2>9, <2>10, <2>11, StepKeeps
<1> QED  BY <1>6, <1>7, <1>8 DEF CheckPassword

LEMMA SendCodeKeeps ==
  ASSUME SignInInv, NEW f \in Flight, NEW c \in Challenge, SendCode(f, c)
  PROVE  SignInInv'
<1> USE DEF SignInInv
<1>3. flight'[f].op = "code" /\ flight'[f].tok = c /\ flight'[f].from = 0
  BY RequestStartsAs DEF SendCode
<1>4. /\ \A g \in Flight : g # f => LetIn(g)
      /\ \A d \in Challenge : d # c => Coming(d)' = Coming(d)
      /\ \A b \in Buckets : b # "code" => Pending(b)' = Pending(b)
      /\ flight' \in [Flight -> Request]
      /\ \A g \in Flight :
            /\ flight'[g].op = "code" => flight'[g].tok \in Challenge
            /\ flight'[g].op \in {"check", "change", "account"} => flight'[g].tok \in Session
  <2>1. \A b \in Buckets : b # "code" => "code" \notin Counted(b)  BY DEF Counted, Buckets
  <2> QED  BY <2>1, RequestStartsAs DEF SendCode
<1>9. SignInTypes'  BY <1>4 DEF SendCode, account, links, SignInTypes
<1>5. challenge[c].open /\ ~blockedFor("code") /\ UNCHANGED <<account, session, challenge, failures>>
  BY DEF SendCode
<1>6. Quiet
  <2>1. LetIn(f)  BY <1>3, <1>4, <1>5 DEF LetIn
  <2>2. \A d \in Challenge : ChallengeMoves(d)  BY <1>5 DEF ChallengeMoves
  <2> QED  BY <1>4, <1>5, <2>1, <2>2, NobodySignedIn DEF Quiet
<1>7. ASSUME NEW d \in Challenge PROVE GuessMoves(d)
  <2>1. challenge[d].guesses \in Nat  BY DEF SignInTypes, ChallengeRow
  <2> QED  BY <1>4, <1>5, <2>1 DEF GuessMoves
<1>8. \A b \in Buckets : FailureMoves(b)  BY <1>4, <1>5, LetInIsCounted DEF Buckets
<1> QED  BY <1>9, <1>6, <1>7, <1>8, StepKeeps

\* A challenge is gone; what was proved for it stays with its last requests.
LEMMA ChallengeEnds ==
  ASSUME SignInTypes, NEW c \in Challenge, EndChallenge(c),
         \A d \in Challenge : Coming(d)' \subseteq Coming(d)
  PROVE  /\ challenge' \in [Challenge -> ChallengeRow]
         /\ \A d \in Challenge : ChallengeMoves(d) /\ GuessMoves(d)
<1>1. PICK row : row = IF \E f \in Flight : flight'[f].tok = c
                       THEN [challenge[c] EXCEPT !.open = FALSE] ELSE NoChallenge
  OBVIOUS
<1>2. challenge \in [Challenge -> ChallengeRow]  BY DEF SignInTypes
<1>3. challenge' = [challenge EXCEPT ![c] = row]  BY <1>1 DEF EndChallenge
<1>4. /\ NoChallenge \in ChallengeRow
      /\ ~NoChallenge.open /\ NoChallenge.from = 0 /\ NoChallenge.guesses = 0
  BY DEF NoChallenge, ChallengeRow
<1>5. PICK q \in ChallengeRow : q = challenge[c]  BY <1>2
<1>6. /\ [q EXCEPT !.open = FALSE] \in ChallengeRow
      /\ ~[q EXCEPT !.open = FALSE].open
      /\ [q EXCEPT !.open = FALSE].from = q.from
      /\ [q EXCEPT !.open = FALSE].guesses = q.guesses
  BY DEF ChallengeRow
<1>7. /\ row \in ChallengeRow /\ ~row.open
      /\ \/ row.from = challenge[c].from /\ row.guesses = challenge[c].guesses
         \/ row.from = 0 /\ row.guesses = 0 /\ Coming(c)' = {}
  BY <1>1, <1>4, <1>5, <1>6 DEF Coming
<1>8. challenge' \in [Challenge -> ChallengeRow]  BY <1>2, <1>3, <1>7
<1>9. \A d \in Challenge : challenge'[d] = IF d = c THEN row ELSE challenge[d]  BY <1>2, <1>3
<1>10. \A d \in Challenge : challenge[d].guesses \in Nat  BY <1>2 DEF ChallengeRow
<1>11. \A d \in Challenge : ChallengeMoves(d)  BY <1>7, <1>9 DEF ChallengeMoves
<1>12. \A d \in Challenge : GuessMoves(d)  BY <1>7, <1>9, <1>10 DEF GuessMoves
<1> QED  BY <1>8, <1>11, <1>12

\* A session made at the end of a challenge.
LEMMA SignedInByCode ==
  ASSUME SignInInv, NEW f \in Flight, Ends(f, "code"), EndChallenge(flight[f].tok),
         createSession(challenge[flight[f].tok].from, era),
         UNCHANGED <<account, factor, links>>,
         failures' \in [Buckets -> Nat], \A b \in Buckets : FailureMoves(b)
  PROVE  SignInInv'
<1> USE DEF SignInInv
<1>1. /\ flight[f].op = "code" /\ \A g \in Flight : LetIn(g)
      /\ \A c \in Challenge : Coming(c)' \subseteq Coming(c)
  BY RequestEnds
<1>2. PICK c \in Challenge : c = flight[f].tok  BY <1>1 DEF SignInTypes
<1>3. PICK p \in Nat : p = challenge[c].from  BY DEF SignInTypes, ChallengeRow
<1>4. createSession(p, era) /\ EndChallenge(c)  BY <1>2, <1>3
<1>5. /\ era \in Nat
      /\ standing # "none"
      /\ standing = "removed" => p # era
  <2>1. era \in Nat  BY DEF SignInTypes
  <2>2. Coming(c) # {}  BY <1>1, <1>2 DEF Coming
  <2> QED  BY <1>1, <1>3, <2>1, <2>2 DEF ShutOut, NobodyBefore, RemovedAreLate
<1>6. session' \in [Session -> SessionRow] /\ \A s \in Session : SessionMoves(s)
  BY <1>4, <1>5, SessionIsMade DEF SessionMoves
<1>7. /\ challenge' \in [Challenge -> ChallengeRow]
      /\ \A d \in Challenge : ChallengeMoves(d) /\ GuessMoves(d)
  BY <1>1, <1>4, ChallengeEnds
<1>8. SignInTypes'  BY <1>6, <1>7, RequestEnds DEF SignInTypes, account, links
<1>9. Quiet  BY <1>1, <1>6, <1>7 DEF Quiet
<1> QED  BY <1>7, <1>8, <1>9, StepKeeps

LEMMA CodeNotNeededKeeps ==
  ASSUME SignInInv, NEW f \in Flight, CodeNotNeeded(f)
  PROVE  SignInInv'
<1>1. \A b \in Buckets : Pending(b)' \subseteq Pending(b)
  BY RequestEnds DEF SignInInv, CodeNotNeeded
<1>2. UNCHANGED <<account, factor, links, failures>>  BY DEF CodeNotNeeded
<1>3. failures' \in [Buckets -> Nat] /\ \A b \in Buckets : FailureMoves(b)
  BY <1>1, <1>2, NothingFails DEF SignInInv, SignInTypes
<1> QED  BY <1>2, <1>3, SignedInByCode DEF CodeNotNeeded

LEMMA CodeRightKeeps ==
  ASSUME SignInInv, NEW f \in Flight, CodeRight(f)
  PROVE  SignInInv'
<1>1. \A b \in Buckets : Pending(b)' \subseteq Pending(b)
  BY RequestEnds DEF SignInInv, CodeRight
<1>2. UNCHANGED <<account, factor, links>>  BY DEF CodeRight
<1>3. failures' \in [Buckets -> Nat] /\ \A b \in Buckets : FailureMoves(b)
  BY <1>1, FailuresForgotten DEF SignInInv, CodeRight, Buckets
<1> QED  BY <1>2, <1>3, SignedInByCode DEF CodeRight

LEMMA CodeWrongKeeps ==
  ASSUME SignInInv, NEW f \in Flight, CodeWrong(f)
  PROVE  SignInInv'
<1> USE DEF SignInInv
<1>1. Ends(f, "code") /\ UNCHANGED <<account, factor, session, links>>  BY DEF CodeWrong
<1>2. /\ flight[f].op = "code" /\ \A g \in Flight : LetIn(g)
      /\ \A c \in Challenge : Coming(c)' = Coming(c) \ {f}
      /\ \A b \in Buckets : Pending(b)' = Pending(b) \ {f}
  BY <1>1, RequestEnds
<1>3. failures' \in [Buckets -> Nat] /\ \A b \in Buckets : FailureMoves(b)
  <2>1. "code" \in Buckets /\ f \in Pending("code")  BY <1>2 DEF Pending, Counted, Buckets
  <2> QED  BY <1>2, <2>1, FailureIsCounted DEF CodeWrong
<1>4. PICK c \in Challenge : c = flight[f].tok  BY <1>2 DEF SignInTypes
<1>5. PICK q \in ChallengeRow : q = challenge[c]  BY DEF SignInTypes
<1>6. PICK row : row = [open     |-> q.open /\ ~spendAttemptOn(c),
                        attempts |-> IF q.open THEN q.attempts + 1 ELSE q.attempts,
                        from     |-> q.from,
                        guesses  |-> q.guesses + 1]
  OBVIOUS
<1>7. challenge' = [challenge EXCEPT ![c] = row]  BY <1>4, <1>5, <1>6 DEF CodeWrong
<1>8. row \in ChallengeRow
  <2>1. /\ q.attempts \in Nat /\ q.attempts + 1 \in Nat /\ q.guesses + 1 \in Nat /\ q.from \in Nat
        /\ (q.open /\ ~spendAttemptOn(c)) \in BOOLEAN
    BY <1>5 DEF ChallengeRow
  <2> QED  BY <1>6, <2>1 DEF ChallengeRow
<1>9. /\ row.from = q.from /\ row.guesses = q.guesses + 1
      /\ row.open <=> q.open /\ ~spendAttemptOn(c)
      /\ q.open => row.attempts = q.attempts + 1
  BY <1>6
<1>10. challenge \in [Challenge -> ChallengeRow]  BY DEF SignInTypes
<1>11. challenge' \in [Challenge -> ChallengeRow]  BY <1>7, <1>8, <1>10
<1>12. \A d \in Challenge : challenge'[d] = IF d = c THEN row ELSE challenge[d]  BY <1>7, <1>10
<1>13. \A d \in Challenge : ChallengeMoves(d)  BY <1>5, <1>9, <1>12 DEF ChallengeMoves
<1>14. ASSUME NEW d \in Challenge PROVE GuessMoves(d)
  <2>1. CASE d = c
    <3>1. f \in Coming(c)  BY <1>2, <1>4 DEF Coming
    <3>2. row.open => q.open /\ row.attempts = q.attempts + 1 /\ row.attempts < MaxAttempts
      <4>1. q.attempts \in Nat /\ MaxAttempts \in Nat  BY <1>5, LimitAssumption DEF ChallengeRow
      <4> QED  BY <1>5, <1>9, <4>1 DEF spendAttemptOn
    <3> QED  BY <1>2, <1>5, <1>9, <1>12, <2>1, <3>1, <3>2 DEF GuessMoves
  <2>2. CASE d # c
    <3>1. challenge[d].guesses \in Nat  BY <1>10 DEF ChallengeRow
    <3> QED  BY <1>2, <1>12, <2>2, <3>1 DEF GuessMoves
  <2> QED  BY <2>1, <2>2
<1>15. SignInTypes'  BY <1>1, <1>3, <1>11, RequestEnds DEF SignInTypes, account, links
<1>16. Quiet  BY <1>1, <1>2, <1>13, NobodySignedIn DEF Quiet, account
<1> QED  BY <1>3, <1>14, <1>15, <1>16, StepKeeps

-----------------------------------------------------------------------------
(* Steps that guess nothing.                                                   *)

LEMMA RequestsStay ==
  ASSUME UNCHANGED flight
  PROVE  /\ \A g \in Flight : LetIn(g)
         /\ \A c \in Challenge : Coming(c)' \subseteq Coming(c)
         /\ \A b \in Buckets : Pending(b)' \subseteq Pending(b)
BY DEF LetIn, Coming, Pending

LEMMA UnguessedKeeps ==
  ASSUME SignInInv, SignInTypes', UNCHANGED <<account, challenge>>,
         \A g \in Flight : LetIn(g), \A s \in Session : SessionMoves(s),
         \A c \in Challenge : Coming(c)' \subseteq Coming(c),
         \A b \in Buckets : FailureMoves(b)
  PROVE  SignInInv'
<1>1. \A c \in Challenge : GuessMoves(c) /\ ChallengeMoves(c)  BY NothingGuessed DEF SignInInv
<1>2. Quiet  BY <1>1 DEF Quiet
<1> QED  BY <1>1, <1>2, StepKeeps

\* The forms that read their body: a request starts that no limiter counts.
LEMMA FormStarts ==
  ASSUME SignInInv, NEW f \in Flight, NEW op \in {"reset", "operator", "account"},
         NEW tok \in Session \cup Challenge \cup (1..MaxResets) \cup {None}, NEW ok \in BOOLEAN,
         Starts(f, op, tok, ok), op = "account" => tok \in Session, standing # "none",
         UNCHANGED <<account, factor, session, challenge, links, failures>>
  PROVE  SignInInv'
<1>1. /\ flight'[f].op = op /\ flight'[f].from = 0
      /\ \A g \in Flight : g # f => LetIn(g)
      /\ \A c \in Challenge : Coming(c)' = Coming(c)
      /\ \A b \in Buckets : op \notin Counted(b) => Pending(b)' = Pending(b)
      /\ flight' \in [Flight -> Request]
      /\ \A g \in Flight :
            /\ flight'[g].op = "code" => flight'[g].tok \in Challenge
            /\ flight'[g].op \in {"check", "change", "account"} => flight'[g].tok \in Session
  BY RequestStartsAs DEF SignInInv
<1>2. LetIn(f)  BY <1>1 DEF LetIn
<1>3. \A b \in Buckets : FailureMoves(b)
  <2>1. \A b \in Buckets : op \notin Counted(b)  BY DEF Counted, Buckets
  <2> QED  BY <1>1, <2>1, NothingFails DEF SignInInv
<1>4. SignInTypes'  BY <1>1 DEF SignInInv, SignInTypes, account, links
<1> QED  BY <1>1, <1>2, <1>3, <1>4, UnguessedKeeps, NobodySignedIn

LEMMA AskResetKeeps ==
  ASSUME SignInInv, NEW f \in Flight, NEW l \in DOMAIN resets, AskReset(f, l)
  PROVE  SignInInv'
<1>1. l \in 1..MaxResets
  <2>1. DOMAIN resets = 1..Len(resets) /\ Len(resets) \in Nat /\ Len(resets) =< MaxResets
    BY DEF SignInInv, SignInTypes
  <2> QED  BY <2>1, BoundAssumption
<1>2. Starts(f, "reset", l, TRUE) /\ standing # "none"  BY DEF AskReset, ResetOpen
<1> QED  BY <1>1, <1>2, FormStarts DEF AskReset

LEMMA OperatorAsksKeeps ==
  ASSUME SignInInv, NEW f \in Flight, OperatorAsks(f)
  PROVE  SignInInv'
BY FormStarts DEF OperatorAsks

LEMMA AskAccountKeeps ==
  ASSUME SignInInv, NEW f \in Flight, NEW s \in Session, AskAccount(f, s)
  PROVE  SignInInv'
BY FormStarts DEF AskAccount, SignedIn

\* A request that ends and changes no password.
LEMMA FormEnds ==
  ASSUME SignInInv, NEW f \in Flight, Ends(f, "account"),
         UNCHANGED <<account, challenge, links>>,
         session' \in [Session -> SessionRow], \A s \in Session : SessionMoves(s),
         failures' \in [Buckets -> Nat], \A b \in Buckets : FailureMoves(b)
  PROVE  SignInInv'
<1>1. SignInTypes'  BY RequestEnds DEF SignInInv, SignInTypes, account, links
<1>2. /\ \A g \in Flight : LetIn(g)
      /\ \A c \in Challenge : Coming(c)' \subseteq Coming(c)
  BY RequestEnds DEF SignInInv
<1> QED  BY <1>1, <1>2, UnguessedKeeps

LEMMA FormEndsQuietly ==
  ASSUME SignInInv, NEW f \in Flight, Ends(f, "account"),
         UNCHANGED <<account, session, challenge, links>>,
         \/ UNCHANGED failures
         \/ \E b \in Buckets : succeeded(b)
         \/ \E b \in Buckets : ~blockedFor(b) /\ Counted(b) = {} /\ failed(b)
  PROVE  SignInInv'
<1>1. \A b \in Buckets : Pending(b)' \subseteq Pending(b)  BY RequestEnds DEF SignInInv
<1>2. failures' \in [Buckets -> Nat] /\ \A b \in Buckets : FailureMoves(b)
  <2>1. CASE UNCHANGED failures  BY <1>1, <2>1, NothingFails DEF SignInInv, SignInTypes
  <2>2. CASE \E b \in Buckets : succeeded(b)  BY <1>1, <2>2, FailuresForgotten DEF SignInInv
  <2>3. ASSUME NEW b \in Buckets, ~blockedFor(b), Counted(b) = {}, failed(b)
        PROVE  failures' \in [Buckets -> Nat] /\ \A c \in Buckets : FailureMoves(c)
    <3>1. Pending(b)' = {}  BY <2>3 DEF Pending
    <3> QED  BY <1>1, <2>3, <3>1, FailureIsCounted DEF SignInInv
  <2> QED  BY <2>1, <2>2, <2>3
<1> QED  BY <1>2, FormEnds, NobodySignedIn DEF SignInInv, SignInTypes

LEMMA AccountFormsKeep ==
  ASSUME SignInInv, NEW f \in Flight,
         TwoFactorConfirm(f) \/ TwoFactorNewCodes(f) \/ TwoFactorOff(f) \/ AccountRefused(f)
  PROVE  SignInInv'
<1>1. "manage" \in Buckets /\ Counted("manage") = {}  BY DEF Buckets, Counted
<1>2. CASE TwoFactorConfirm(f)  BY <1>2, FormEndsQuietly DEF TwoFactorConfirm
<1>3. CASE TwoFactorNewCodes(f)
  <2>1. Ends(f, "account") /\ UNCHANGED <<account, session, challenge, links>>  BY <1>3 DEF TwoFactorNewCodes
  <2>2. UNCHANGED failures \/ succeeded("manage")  BY <1>3 DEF TwoFactorNewCodes, CodeAuthorises
  <2> QED  BY <1>1, <2>1, <2>2, FormEndsQuietly
<1>4. CASE TwoFactorOff(f)
  <2>1. Ends(f, "account") /\ UNCHANGED <<account, session, challenge, links>>  BY <1>4 DEF TwoFactorOff
  <2>2. UNCHANGED failures \/ succeeded("manage")  BY <1>4 DEF TwoFactorOff, CodeAuthorises
  <2> QED  BY <1>1, <2>1, <2>2, FormEndsQuietly
<1>5. CASE AccountRefused(f)  BY <1>1, <1>5, FormEndsQuietly DEF AccountRefused
<1> QED  BY <1>2, <1>3, <1>4, <1>5

LEMMA OneSessionEnds ==
  ASSUME SignInTypes, NEW s \in Session, session' = [session EXCEPT ![s] = NoSession]
  PROVE  session' \in [Session -> SessionRow] /\ \A t \in Session : SessionMoves(t)
<1>1. NoSession \in SessionRow /\ ~NoSession.live  BY DEF NoSession, SessionRow
<1> QED  BY <1>1 DEF SignInTypes, SessionMoves

LEMMA EndOneKeeps ==
  ASSUME SignInInv, NEW f \in Flight, NEW s \in Session, EndOne(f, s)
  PROVE  SignInInv'
<1>1. Ends(f, "account") /\ UNCHANGED <<account, factor, challenge, links, failures>>  BY DEF EndOne
<1>2. session' \in [Session -> SessionRow] /\ \A t \in Session : SessionMoves(t)
  BY OneSessionEnds DEF EndOne, SignInInv
<1>3. \A b \in Buckets : FailureMoves(b)
  BY <1>1, RequestEnds, NothingFails DEF SignInInv
<1> QED  BY <1>1, <1>2, <1>3, FormEnds DEF SignInInv, SignInTypes

LEMMA AskChangeKeeps ==
  ASSUME SignInInv, NEW f \in Flight, NEW s \in Session, AskChange(f, s)
  PROVE  SignInInv'
<1>1. PICK right \in BOOLEAN : Starts(f, "check", s, right)  BY DEF AskChange
<1>2. /\ flight'[f].op = "check" /\ flight'[f].from = 0
      /\ \A g \in Flight : g # f => LetIn(g)
      /\ \A c \in Challenge : Coming(c)' = Coming(c)
      /\ \A b \in Buckets : "check" \notin Counted(b) => Pending(b)' = Pending(b)
      /\ flight' \in [Flight -> Request]
      /\ \A g \in Flight :
            /\ flight'[g].op = "code" => flight'[g].tok \in Challenge
            /\ flight'[g].op \in {"check", "change", "account"} => flight'[g].tok \in Session
  BY <1>1, RequestStartsAs DEF SignInInv
<1>3. LetIn(f)  BY <1>2 DEF LetIn, AskChange, SignedIn
<1>4. UNCHANGED <<account, factor, session, challenge, links, failures>>  BY DEF AskChange
<1>5. \A b \in Buckets : FailureMoves(b)
  <2>1. \A b \in Buckets : b # "credential" => "check" \notin Counted(b)  BY DEF Counted, Buckets
  <2> QED  BY <1>2, <1>4, <2>1, LetInIsCounted DEF AskChange, Buckets, SignInInv
<1>6. SignInTypes'  BY <1>2, <1>4 DEF SignInInv, SignInTypes, account, links
<1> QED  BY <1>2, <1>3, <1>4, <1>5, <1>6, UnguessedKeeps, NobodySignedIn

LEMMA CheckCurrentKeeps ==
  ASSUME SignInInv, NEW f \in Flight, CheckCurrent(f)
  PROVE  SignInInv'
<1>1. UNCHANGED <<account, factor, session, challenge, links>> /\ flight[f].op = "check"
  BY DEF CheckCurrent
<1>2. "credential" \in Buckets /\ f \in Pending("credential")
  BY <1>1 DEF Buckets, Pending, Counted
<1>3. CASE flight' = [flight EXCEPT ![f] = NoFlight] /\ failed("credential")
  <2>1. Ends(f, "check")  BY <1>1, <1>3 DEF Ends
  <2>2. failures' \in [Buckets -> Nat] /\ \A b \in Buckets : FailureMoves(b)
    BY <1>2, <1>3, <2>1, RequestEnds, FailureIsCounted DEF SignInInv
  <2>3. SignInTypes'  BY <1>1, <2>1, <2>2, RequestEnds DEF SignInInv, SignInTypes, account, links
  <2> QED  BY <1>1, <2>1, <2>2, <2>3, RequestEnds, UnguessedKeeps, NobodySignedIn DEF SignInInv
<1>4. CASE flight' = [flight EXCEPT ![f].op = "change"] /\ succeeded("credential")
  <2>1. PICK q \in Request : q = flight[f]  BY DEF SignInInv, SignInTypes
  <2>2. PICK r : r = [q EXCEPT !.op = "change"]  OBVIOUS
  <2>3. r \in Request /\ r.op = "change" /\ r.tok = q.tok  BY <2>1, <2>2 DEF Request, Setters
  <2>4. \A g \in Flight : flight'[g] = IF g = f THEN r ELSE flight[g]
    BY <1>4, <2>1, <2>2 DEF SignInInv, SignInTypes
  <2>5. flight' \in [Flight -> Request]
    <3>1. flight' = [g \in Flight |-> flight'[g]]  BY <1>4 DEF SignInInv, SignInTypes
    <3>2. \A g \in Flight : flight'[g] \in Request  BY <2>3, <2>4 DEF SignInInv, SignInTypes
    <3> QED  BY <3>1, <3>2
  <2>6. \A g \in Flight :
            /\ flight'[g].op = "code" => flight'[g].tok \in Challenge
            /\ flight'[g].op \in {"check", "change", "account"} => flight'[g].tok \in Session
    BY <1>1, <2>1, <2>3, <2>4 DEF SignInInv, SignInTypes
  <2>7. \A g \in Flight : LetIn(g)  BY <1>1, <2>1, <2>2, <2>4 DEF LetIn
  <2>8. \A c \in Challenge : Coming(c)' \subseteq Coming(c)  BY <2>3, <2>4 DEF Coming
  <2>9. \A b \in Buckets : Pending(b)' \subseteq Pending(b)
    <3>1. \A b \in Buckets : "change" \notin Counted(b)  BY DEF Buckets, Counted
    <3> QED  BY <2>3, <2>4, <3>1 DEF Pending
  <2>10. failures' \in [Buckets -> Nat] /\ \A b \in Buckets : FailureMoves(b)
    BY <1>2, <1>4, <2>9, FailuresForgotten DEF SignInInv
  <2>11. SignInTypes'  BY <1>1, <2>5, <2>6, <2>10 DEF SignInInv, SignInTypes, account, links
  <2> QED  BY <1>1, <2>7, <2>8, <2>10, <2>11, UnguessedKeeps, NobodySignedIn
<1> QED  BY <1>3, <1>4 DEF CheckCurrent

-----------------------------------------------------------------------------
(* Steps that set a password, or let somebody come or go.                      *)

LEMMA NewEraStepKeeps ==
  ASSUME SignInInv, SignInTypes', NewEraStep, UNCHANGED <<challenge, failures>>,
         \A c \in Challenge : Coming(c)' \subseteq Coming(c),
         \A b \in Buckets : Pending(b)' \subseteq Pending(b)
  PROVE  SignInInv'
<1>1. \A c \in Challenge : GuessMoves(c)  BY NothingGuessed DEF SignInInv
<1>2. \A b \in Buckets : FailureMoves(b)  BY NothingFails DEF SignInInv
<1> QED  BY <1>1, <1>2, StepKeeps

LEMMA NewPasswordKeeps ==
  ASSUME SignInInv, NEW f \in Flight, NEW op \in Setters, Ends(f, op),
         era' = era + 1, UNCHANGED <<standing, factor, challenge, signups, failures>>,
         resets' \in Seq(BOOLEAN), Len(resets') =< MaxResets,
         session' \in [Session -> SessionRow],
         \A s \in Session : session'[s].live => session'[s].made = era',
         standing = "removed" => \A s \in Session : ~session'[s].live
  PROVE  SignInInv'
<1>1. /\ flight[f].op = op
      /\ \A g \in Flight : flight'[g] \in {flight[g], NoFlight}
      /\ \A c \in Challenge : Coming(c)' \subseteq Coming(c)
      /\ \A b \in Buckets : Pending(b)' \subseteq Pending(b)
      /\ flight' \in [Flight -> Request]
      /\ \A g \in Flight :
               /\ flight'[g].op = "code" => flight'[g].tok \in Challenge
               /\ flight'[g].op \in {"check", "change", "account"} => flight'[g].tok \in Session
  BY RequestEnds DEF SignInInv
<1>2. standing # "none"
  BY <1>1 DEF SignInInv, ShutOut, NobodyBefore, Setters
<1>3. SignInTypes'  BY <1>1 DEF SignInInv, SignInTypes
<1>4. NewEraStep  BY <1>1, <1>2 DEF NewEraStep
<1> QED  BY <1>1, <1>3, <1>4, NewEraStepKeeps

LEMMA AllSessionsEnd ==
  endAllSessions => /\ session' \in [Session -> SessionRow]
                    /\ \A s \in Session : ~session'[s].live
<1>1. NoSession \in SessionRow /\ ~NoSession.live  BY DEF NoSession, SessionRow
<1> QED  BY <1>1 DEF endAllSessions

\* A reset link that is closed.
LEMMA LinkIsClosed ==
  ASSUME SignInTypes, NEW l, resets' = [resets EXCEPT ![l] = FALSE]
  PROVE  resets' \in Seq(BOOLEAN) /\ Len(resets') =< MaxResets
<1>1. PICK n \in Nat : n = Len(resets)  BY DEF SignInTypes
<1>2. resets \in [1..n -> BOOLEAN]  BY <1>1 DEF SignInTypes
<1>3. resets' \in [1..n -> BOOLEAN]  BY <1>2
<1>4. resets' \in Seq(BOOLEAN)  BY <1>3, SeqDef
<1>5. Len(resets') = n  BY <1>3, <1>4
<1> QED  BY <1>1, <1>4, <1>5 DEF SignInTypes

LEMMA ResetKeeps ==
  ASSUME SignInInv, NEW f \in Flight, Reset(f)
  PROVE  SignInInv'
<1>1. Ends(f, "reset") /\ UNCHANGED <<standing, factor, challenge, signups, failures>>  BY DEF Reset
<1>2. CASE ResetOpen(flight[f].tok)
  <2>1. era' = era + 1 /\ endAllSessions  BY <1>2 DEF Reset, NextEra
  <2>2. resets' \in Seq(BOOLEAN) /\ Len(resets') =< MaxResets
    <3>1. PICK l : l = flight[f].tok  OBVIOUS
    <3>2. resets' = [resets EXCEPT ![l] = FALSE]  BY <1>2, <3>1 DEF Reset
    <3> QED  BY <3>2, LinkIsClosed DEF SignInInv
  <2>3. "reset" \in Setters  BY DEF Setters
  <2> QED  BY <1>1, <2>1, <2>2, <2>3, AllSessionsEnd, NewPasswordKeeps
<1>3. CASE ~ResetOpen(flight[f].tok)
  <2>1. UNCHANGED <<resets, era, session>>  BY <1>3 DEF Reset
  <2>2. /\ \A g \in Flight : LetIn(g)
        /\ \A c \in Challenge : Coming(c)' \subseteq Coming(c)
        /\ \A b \in Buckets : Pending(b)' \subseteq Pending(b)
    BY <1>1, RequestEnds DEF SignInInv
  <2>3. \A b \in Buckets : FailureMoves(b)  BY <1>1, <2>2, NothingFails DEF SignInInv
  <2>4. SignInTypes'  BY <1>1, <2>1, RequestEnds DEF SignInInv, SignInTypes
  <2> QED  BY <1>1, <2>1, <2>2, <2>3, <2>4, UnguessedKeeps, NobodySignedIn DEF account
<1> QED  BY <1>2, <1>3

LEMMA OperatorSetsKeeps ==
  ASSUME SignInInv, NEW f \in Flight, OperatorSets(f)
  PROVE  SignInInv'
<1>1. Ends(f, "operator") /\ era' = era + 1 /\ endAllSessions /\ "operator" \in Setters
  BY DEF OperatorSets, NextEra, Setters
<1>2. UNCHANGED <<standing, factor, challenge, links, failures>>  BY DEF OperatorSets
<1>3. UNCHANGED signups /\ resets' \in Seq(BOOLEAN) /\ Len(resets') =< MaxResets
  BY <1>2 DEF links, SignInInv, SignInTypes
<1> QED  BY <1>1, <1>2, <1>3, AllSessionsEnd, NewPasswordKeeps

LEMMA ChangePasswordKeeps ==
  ASSUME SignInInv, NEW f \in Flight, ChangePassword(f)
  PROVE  SignInInv'
<1>1. Ends(f, "change") /\ era' = era + 1 /\ "change" \in Setters /\ flight[f].op = "change"
  BY DEF ChangePassword, NextEra, Setters, Ends
<1>2. UNCHANGED <<standing, factor, challenge, links, failures>>  BY DEF ChangePassword
<1>3. UNCHANGED signups /\ resets' \in Seq(BOOLEAN) /\ Len(resets') =< MaxResets
  BY <1>2 DEF links, SignInInv, SignInTypes
<1>4. PICK keep \in Session : keep = flight[f].tok  BY <1>1 DEF SignInInv, SignInTypes
<1>5. session' = [s \in Session |->
                    IF s = keep /\ session[s].live
                    THEN [session[s] EXCEPT !.made = era', !.late = FALSE]
                    ELSE NoSession]
  BY <1>4 DEF ChangePassword, endAllSessionsExcept
<1>6. NoSession \in SessionRow /\ ~NoSession.live  BY DEF NoSession, SessionRow
<1>7. era' \in Nat  BY <1>1 DEF SignInInv, SignInTypes
<1>8. PICK q \in SessionRow : q = session[keep]  BY DEF SignInInv, SignInTypes
<1>9. PICK e : e = era'  OBVIOUS
<1>10. [q EXCEPT !.made = e, !.late = FALSE] \in SessionRow /\ [q EXCEPT !.made = e, !.late = FALSE].made = e
  BY <1>7, <1>9 DEF SessionRow
<1>11. \A s \in Session :
          \/ session'[s] = NoSession
          \/ s = keep /\ session[s].live /\ session'[s] = [q EXCEPT !.made = e, !.late = FALSE]
  BY <1>5, <1>8, <1>9
<1>12. session' \in [Session -> SessionRow]
  <2>1. \A s \in Session : session'[s] \in SessionRow  BY <1>6, <1>10, <1>11
  <2>2. session' = [s \in Session |-> session'[s]]  BY <1>5
  <2> QED  BY <2>1, <2>2
<1>13. \A s \in Session : session'[s].live => session'[s].made = era'
  BY <1>6, <1>9, <1>10, <1>11
<1>14. standing = "removed" => \A s \in Session : ~session'[s].live
  <2>1. standing = "removed" => ~session[keep].live
    BY <1>1, <1>4 DEF SignInInv, ShutOut, RemovedAreLate
  <2> QED  BY <1>6, <1>11, <2>1
<1> QED  BY <1>1, <1>2, <1>3, <1>12, <1>13, <1>14, NewPasswordKeeps

\* A session made with a membership that begins.
LEMMA MembershipBegins ==
  ASSUME SignInInv, standing # "member", standing' = "member", era' = era + 1,
         createSession(era', era'),
         UNCHANGED <<challenge, failures, flight>>, resets' = resets
  PROVE  SignInInv'
<1>1. PICK e \in Nat : e = era' /\ createSession(e, e)  BY DEF SignInInv, SignInTypes
<1>2. /\ session' \in [Session -> SessionRow]
      /\ \A s \in Session : session'[s] = session[s] \/ session'[s].made = e
  BY <1>1, SessionIsMade DEF SignInInv
<1>3. \A s \in Session : session[s].live => session[s].late
  BY DEF SignInInv, ShutOut, NobodyBefore, RemovedAreLate, SignInTypes
<1>4. NewEraStep  BY <1>1, <1>2, <1>3 DEF NewEraStep
<1>5. SignInTypes'  BY <1>1, <1>2 DEF SignInInv, SignInTypes
<1> QED  BY <1>4, <1>5, NewEraStepKeeps, RequestsStay

LEMMA VerifyAccountKeeps ==
  ASSUME SignInInv, VerifyAccount
  PROVE  SignInInv'
<1>1. UNCHANGED <<factor, challenge, resets, failures, flight>>  BY DEF VerifyAccount
<1>2. CASE standing = "none"  BY <1>1, <1>2, MembershipBegins DEF VerifyAccount, NextEra
<1>3. CASE standing # "none"
  <2>1. UNCHANGED <<account, session>>  BY <1>3 DEF VerifyAccount
  <2>2. \A b \in Buckets : FailureMoves(b)  BY <1>1, RequestsStay, NothingFails DEF SignInInv
  <2>3. SignInTypes'  BY <1>1, <2>1 DEF SignInInv, SignInTypes, account
  <2> QED  BY <1>1, <2>1, <2>2, <2>3, RequestsStay, UnguessedKeeps, NobodySignedIn
<1> QED  BY <1>2, <1>3

LEMMA RejoinedKeeps ==
  ASSUME SignInInv, Rejoined
  PROVE  SignInInv'
BY MembershipBegins DEF Rejoined, NextEra, links

LEMMA RemovedKeeps ==
  ASSUME SignInInv, Removed
  PROVE  SignInInv'
<1>1. /\ era' = era + 1 /\ endAllSessions /\ standing' = "removed"
      /\ UNCHANGED <<factor, challenge, links, failures, flight>>
  BY DEF Removed, NextEra
<1>2. NewEraStep  BY <1>1, AllSessionsEnd DEF NewEraStep
<1>3. SignInTypes'  BY <1>1, AllSessionsEnd DEF SignInInv, SignInTypes, links
<1> QED  BY <1>1, <1>2, <1>3, NewEraStepKeeps, RequestsStay

-----------------------------------------------------------------------------
(* The rest: no request moves.                                                 *)

LEMMA StillKeeps ==
  ASSUME SignInInv, UNCHANGED <<account, challenge, flight>>,
         resets' \in Seq(BOOLEAN), Len(resets') =< MaxResets,
         session' \in [Session -> SessionRow], \A s \in Session : SessionMoves(s),
         failures' \in [Buckets -> Nat], \A b \in Buckets : FailureMoves(b)
  PROVE  SignInInv'
<1>1. SignInTypes'  BY DEF SignInInv, SignInTypes, account
<1> QED  BY <1>1, RequestsStay, UnguessedKeeps

LEMMA MailingKeeps ==
  ASSUME SignInInv, Forgot \/ \E again \in BOOLEAN : SignUp(again)
  PROVE  SignInInv'
<1>1. PICK b \in {"forgot", "signup"} : ~blockedFor(b) /\ failed(b)  BY DEF Forgot, SignUp
<1>2. UNCHANGED <<account, session, challenge, flight>>  BY DEF Forgot, SignUp
<1>3. b \in Buckets /\ Pending(b)' = {}  BY DEF Buckets, Pending, Counted
<1>4. failures' \in [Buckets -> Nat] /\ \A a \in Buckets : FailureMoves(a)
  BY <1>1, <1>2, <1>3, RequestsStay, FailureIsCounted DEF SignInInv
<1>5. resets' \in Seq(BOOLEAN) /\ Len(resets') =< MaxResets
  <2>1. CASE UNCHANGED resets  BY <2>1 DEF SignInInv, SignInTypes
  <2>2. CASE Len(resets) < MaxResets /\ resets' = Append(resets, TRUE)
    <3>1. resets \in Seq(BOOLEAN) /\ Len(resets) \in Nat /\ MaxResets \in Nat
      BY BoundAssumption DEF SignInInv, SignInTypes
    <3>2. resets' \in Seq(BOOLEAN) /\ Len(resets') = Len(resets) + 1  BY <2>2, <3>1
    <3> QED  BY <2>2, <3>1, <3>2
  <2> QED  BY <2>1, <2>2 DEF Forgot, SignUp
<1> QED  BY <1>2, <1>4, <1>5, StillKeeps, NobodySignedIn DEF SignInInv, SignInTypes

LEMMA SessionPagesKeep ==
  ASSUME SignInInv, NEW s \in Session, TwoFactorStart(s) \/ SignOut(s) \/ EndOthers(s)
  PROVE  SignInInv'
<1>1. UNCHANGED <<account, challenge, links, failures, flight>>
  BY DEF TwoFactorStart, SignOut, EndOthers
<1>2. session' \in [Session -> SessionRow] /\ \A t \in Session : SessionMoves(t)
  <2>1. CASE TwoFactorStart(s)
    BY <2>1, NobodySignedIn DEF TwoFactorStart, SignInInv, SignInTypes
  <2>2. CASE SignOut(s)  BY <2>2, OneSessionEnds DEF SignOut, SignInInv
  <2>3. CASE EndOthers(s)
    <3>1. NoSession \in SessionRow /\ ~NoSession.live  BY DEF NoSession, SessionRow
    <3> QED  BY <2>3, <3>1 DEF EndOthers, SignInInv, SignInTypes, SessionMoves
  <2> QED  BY <2>1, <2>2, <2>3
<1>3. \A b \in Buckets : FailureMoves(b)  BY <1>1, RequestsStay, NothingFails DEF SignInInv
<1> QED  BY <1>1, <1>2, <1>3, StillKeeps DEF links, SignInInv, SignInTypes

LEMMA ChallengeExpiresKeeps ==
  ASSUME SignInInv, NEW c \in Challenge, ChallengeExpires(c)
  PROVE  SignInInv'
<1>1. UNCHANGED <<account, factor, session, links, failures, flight>> /\ EndChallenge(c)
  BY DEF ChallengeExpires
<1>2. /\ challenge' \in [Challenge -> ChallengeRow]
      /\ \A d \in Challenge : ChallengeMoves(d) /\ GuessMoves(d)
  BY <1>1, RequestsStay, ChallengeEnds DEF SignInInv
<1>3. SignInTypes'  BY <1>1, <1>2 DEF SignInInv, SignInTypes, account, links
<1>4. Quiet  BY <1>1, <1>2, RequestsStay, NobodySignedIn DEF Quiet
<1>5. \A b \in Buckets : FailureMoves(b)  BY <1>1, RequestsStay, NothingFails DEF SignInInv
<1> QED  BY <1>2, <1>3, <1>4, <1>5, StepKeeps

LEMMA LinkExpiresKeeps ==
  ASSUME SignInInv, LinkExpires
  PROVE  SignInInv'
<1>1. UNCHANGED <<account, factor, session, challenge, failures, flight>>  BY DEF LinkExpires
<1>2. resets' \in Seq(BOOLEAN) /\ Len(resets') =< MaxResets
  <2>1. CASE UNCHANGED resets  BY <2>1 DEF SignInInv, SignInTypes
  <2>2. CASE \E l \in DOMAIN resets : resets' = [resets EXCEPT ![l] = FALSE]
    BY <2>2, LinkIsClosed DEF SignInInv
  <2> QED  BY <2>1, <2>2 DEF LinkExpires
<1>3. \A b \in Buckets : FailureMoves(b)  BY <1>1, RequestsStay, NothingFails DEF SignInInv
<1> QED  BY <1>1, <1>2, <1>3, StillKeeps, NobodySignedIn DEF SignInInv, SignInTypes

LEMMA FailureExpiresKeeps ==
  ASSUME SignInInv, NEW a \in Buckets, FailureExpires(a)
  PROVE  SignInInv'
<1>1. UNCHANGED <<account, factor, session, challenge, links, flight>>  BY DEF FailureExpires
<1>2. \A b \in Buckets : failures[b] \in Nat  BY DEF SignInInv, SignInTypes
<1>3. failures[a] > 0 /\ failures' = [failures EXCEPT ![a] = failures[a] - 1]  BY DEF FailureExpires
<1>4. \A b \in Buckets : failures'[b] = IF b = a THEN failures[a] - 1 ELSE failures[b]
  BY <1>3 DEF SignInInv, SignInTypes
<1>5. failures[a] - 1 \in Nat  BY <1>2, <1>3
<1>6. failures' \in [Buckets -> Nat]  BY <1>3, <1>5 DEF SignInInv, SignInTypes
<1>7. ASSUME NEW b \in Buckets PROVE FailureMoves(b)
  <2>1. failures'[b] =< failures[b]  BY <1>2, <1>4, <1>5
  <2>2. b \notin Bucket => failures'[b] = 0
    <3>1. b \notin Bucket => failures[b] = 0  BY DEF SignInInv, FailuresAreCounted
    <3> QED  BY <1>3, <1>4, <3>1
  <2> QED  BY <1>1, <2>1, <2>2, RequestsStay DEF FailureMoves
<1> QED  BY <1>1, <1>6, <1>7, StillKeeps, NobodySignedIn DEF links, SignInInv, SignInTypes

-----------------------------------------------------------------------------
(* The theorems.                                                               *)

LEMMA NothingAtFirst ==
  Init => SignInInv
<1> SUFFICES ASSUME Init PROVE SignInInv  OBVIOUS
<1>1. NoSession \in SessionRow /\ ~NoSession.live  BY DEF NoSession, SessionRow
<1>2. /\ NoChallenge \in ChallengeRow /\ ~NoChallenge.open
      /\ NoChallenge.from = 0 /\ NoChallenge.guesses = 0
  BY DEF NoChallenge, ChallengeRow
<1>3. /\ NoFlight \in Request /\ NoFlight.op = "none"
      /\ NoFlight.from = 0 /\ ~NoFlight.ok
  BY DEF NoFlight, Request
<1>4. resets \in Seq(BOOLEAN) /\ Len(resets) =< MaxResets  BY BoundAssumption DEF Init
<1>5. SignInTypes  BY <1>1, <1>2, <1>3, <1>4 DEF Init, SignInTypes
<1>6. ShutOut
  BY <1>1, <1>2, <1>3 DEF Init, ShutOut, ChangesShutOut, ProofsAreOfThePast, NobodyBefore, RemovedAreLate
<1>7. \A c \in Challenge : Coming(c) = {}  BY <1>3 DEF Init, Coming
<1>8. \A b \in Buckets : Pending(b) = {}  BY <1>3 DEF Init, Pending, Counted, Buckets
<1>9. GuessesAreCounted
  BY <1>2, <1>7, FlightsAreCounted, LimitAssumption DEF Init, GuessesAreCounted
<1>10. FailuresAreCounted
  <2>1. \A b \in Buckets : failures[b] = 0  BY DEF Init
  <2> QED  BY <1>8, <2>1, FlightsAreCounted, LimitAssumption DEF FailuresAreCounted
<1> QED  BY <1>5, <1>6, <1>9, <1>10 DEF SignInInv

LEMMA NextKeeps ==
  SignInInv /\ [Next]_vars => SignInInv'
<1> SUFFICES ASSUME SignInInv, [Next]_vars PROVE SignInInv'  OBVIOUS
<1>1. CASE UNCHANGED vars
  BY <1>1 DEF vars, account, links, SignInInv, SignInTypes, ShutOut, ChangesShutOut,
     ProofsAreOfThePast, NobodyBefore, RemovedAreLate, GuessesAreCounted, FailuresAreCounted,
     Coming, Pending
<1>2. ASSUME NEW f \in Flight, AtTheDoor(f) PROVE SignInInv'
  BY <1>2, KnockKeeps, TurnAwayKeeps, CheckPasswordKeeps, SendCodeKeeps, CodeNotNeededKeeps,
     CodeRightKeeps, CodeWrongKeeps, AskResetKeeps, ResetKeeps, OperatorAsksKeeps, OperatorSetsKeeps
     DEF AtTheDoor
<1>3. ASSUME NEW f \in Flight, OwnPages(f) PROVE SignInInv'
  BY <1>3, AskChangeKeeps, AskAccountKeeps, EndOneKeeps, CheckCurrentKeeps, ChangePasswordKeeps,
     AccountFormsKeep
     DEF OwnPages
<1> QED
  BY <1>1, <1>2, <1>3, MailingKeeps, VerifyAccountKeeps, SessionPagesKeep, RemovedKeeps,
     RejoinedKeeps, ChallengeExpiresKeeps, LinkExpiresKeeps, FailureExpiresKeeps
     DEF Next

\* The inductive invariant of signing in: types, whose proofs the sessions,
\* challenges and requests carry, and how many guesses are made or on their way
\* (signin-views.js, account-views.js, auth.js and ratelimit.js).
THEOREM SignInInvariant == Spec => []SignInInv
BY NothingAtFirst, NextKeeps, PTL DEF Spec

\* Setting a password or removing a member ends every session there was
\* (endAllSessions, endAllSessionsExcept): a session that lives was made after
\* the last of them, unless its proof was given before and its making overtaken.
THEOREM ChangesAlwaysShutOut == Spec => []ChangesShutOut
<1>1. SignInInv => ChangesShutOut  BY DEF SignInInv, ShutOut
<1> QED  BY <1>1, SignInInvariant, PTL

\* However requests interleave, the wrong codes one challenge takes and the
\* failures of a limiter's key pass their limit by less than the requests in
\* flight (spendAttemptOn, blockedFor and failed of createAttemptLimiter).
THEOREM GuessesStayBounded == Spec => []GuessesAreBounded
<1>1. SignInInv => GuessesAreBounded
  <2> SUFFICES ASSUME SignInInv PROVE GuessesAreBounded  OBVIOUS
  <2>1. Limit \in Nat /\ MaxAttempts \in Nat /\ Cardinality(Flight) \in Nat
    BY FlightsAreCounted, LimitAssumption
  <2>2. ASSUME NEW c \in Challenge
        PROVE  challenge[c].guesses =< MaxAttempts - 1 + Cardinality(Flight)
    <3>1. Coming(c) \in SUBSET Flight  BY DEF Coming
    <3>2. Cardinality(Coming(c)) \in Nat /\ challenge[c].guesses \in Nat
      BY <3>1, FlightsAreCounted DEF SignInInv, SignInTypes, ChallengeRow
    <3>3. challenge[c].guesses + Cardinality(Coming(c)) =< MaxAttempts - 1 + Cardinality(Flight)
      BY DEF SignInInv, GuessesAreCounted
    <3> QED  BY <2>1, <3>2, <3>3
  <2>3. ASSUME NEW b \in Buckets
        PROVE  failures[b] =< Limit - 1 + Cardinality(Flight)
    <3>1. Pending(b) \in SUBSET Flight  BY DEF Pending
    <3>2. Cardinality(Pending(b)) \in Nat /\ failures[b] \in Nat
      BY <3>1, FlightsAreCounted DEF SignInInv, SignInTypes
    <3>3. failures[b] + Cardinality(Pending(b)) =< Limit - 1 + Cardinality(Flight)
      BY DEF SignInInv, FailuresAreCounted
    <3> QED  BY <2>1, <3>2, <3>3
  <2> QED  BY <2>2, <2>3 DEF GuessesAreBounded
<1> QED  BY <1>1, SignInInvariant, PTL

\* What NoWayRoundTheCode says of one step.
WithACode ==
    (\E s \in Session : session'[s].live /\ ~session[s].live) /\ factor = "on"
        => \/ standing' # standing
           \/ \E f \in Flight : flight[f].op = "code" /\ flight'[f] = NoFlight

LEMMA NewSessionNeedsACode ==
  SignInInv /\ [Next]_vars => WithACode
<1> SUFFICES ASSUME SignInInv, [Next]_vars, factor = "on", standing' = standing,
                    NEW s \in Session, session'[s].live, ~session[s].live
             PROVE  \E f \in Flight : flight[f].op = "code" /\ flight'[f] = NoFlight
  BY DEF WithACode
<1>1. session' # session  OBVIOUS
<1>2. ~NoSession.live  BY DEF NoSession
<1>3. ASSUME NEW f \in Flight, AtTheDoor(f)
      PROVE  \E g \in Flight : flight[g].op = "code" /\ flight'[g] = NoFlight
  <2>1. CASE CodeNotNeeded(f)  BY <2>1 DEF CodeNotNeeded
  <2>2. CASE CodeRight(f)
    <3>1. flight[f].op = "code" /\ flight' = [flight EXCEPT ![f] = NoFlight]
      BY <2>2 DEF CodeRight, Ends
    <3> QED  BY <3>1 DEF SignInInv, SignInTypes
  <2>3. CASE CheckPassword(f)  BY <1>1, <2>3 DEF CheckPassword
  <2>4. CASE Reset(f)  BY <1>1, <2>4, AllSessionsEnd DEF Reset
  <2>5. CASE OperatorSets(f)  BY <2>5, AllSessionsEnd DEF OperatorSets
  <2>6. CASE Knock(f) \/ TurnAway(f) \/ CodeWrong(f) \/ OperatorAsks(f)
    BY <1>1, <2>6 DEF Knock, TurnAway, CodeWrong, OperatorAsks
  <2>7. CASE (\E c \in Challenge : SendCode(f, c)) \/ \E l \in DOMAIN resets : AskReset(f, l)
    BY <1>1, <2>7 DEF SendCode, AskReset
  <2> QED  BY <1>3, <2>1, <2>2, <2>3, <2>4, <2>5, <2>6, <2>7 DEF AtTheDoor
<1>4. ASSUME NEW f \in Flight, OwnPages(f)
      PROVE  FALSE
  <2>1. CASE ChangePassword(f)
    <3>1. session' = [t \in Session |->
                        IF t = flight[f].tok /\ session[t].live
                        THEN [session[t] EXCEPT !.made = era', !.late = FALSE]
                        ELSE NoSession]
      BY <2>1 DEF ChangePassword, endAllSessionsExcept
    <3> QED  BY <1>2, <3>1
  <2>2. CASE \E t \in Session : EndOne(f, t)
    <3>1. PICK t \in Session : session' = [session EXCEPT ![t] = NoSession]  BY <2>2 DEF EndOne
    <3> QED  BY <1>2, <3>1 DEF SignInInv, SignInTypes
  <2>3. CASE \E t \in Session : AskChange(f, t) \/ AskAccount(f, t)
    BY <1>1, <2>3 DEF AskChange, AskAccount
  <2>4. CASE CheckCurrent(f) \/ TwoFactorConfirm(f) \/ TwoFactorNewCodes(f) \/ TwoFactorOff(f) \/ AccountRefused(f)
    BY <1>1, <2>4 DEF CheckCurrent, TwoFactorConfirm, TwoFactorNewCodes, TwoFactorOff, AccountRefused
  <2> QED  BY <1>4, <2>1, <2>2, <2>3, <2>4 DEF OwnPages
<1>5. ASSUME NEW t \in Session, TwoFactorStart(t) \/ SignOut(t) \/ EndOthers(t)
      PROVE  FALSE
  <2>1. CASE TwoFactorStart(t)  BY <1>1, <2>1 DEF TwoFactorStart
  <2>2. CASE SignOut(t)  BY <1>2, <2>2 DEF SignOut, SignInInv, SignInTypes
  <2>3. CASE EndOthers(t)  BY <1>2, <2>3 DEF EndOthers
  <2> QED  BY <1>5, <2>1, <2>2, <2>3
<1>6. ~VerifyAccount  BY <1>1 DEF VerifyAccount, account
<1>7. ~Removed /\ ~Rejoined  BY DEF Removed, Rejoined
<1>8. ~Forgot /\ ~LinkExpires /\ ~UNCHANGED vars  BY <1>1 DEF Forgot, LinkExpires, vars
<1>9. ~\E again \in BOOLEAN : SignUp(again)  BY <1>1 DEF SignUp
<1>10. ~\E c \in Challenge : ChallengeExpires(c)  BY <1>1 DEF ChallengeExpires
<1>11. ~\E b \in Buckets : FailureExpires(b)  BY <1>1 DEF FailureExpires
<1> QED  BY <1>3, <1>4, <1>5, <1>6, <1>7, <1>8, <1>9, <1>10, <1>11 DEF Next

\* While the second factor is on, no step makes a session but the end of a
\* request that brought a code, or a standing that changes (signInCode,
\* verifyAccount, acceptInvite).
THEOREM NobodyGoesRoundTheCode == Spec => NoWayRoundTheCode
<1>1. SignInInv /\ [Next]_vars => [WithACode]_vars  BY NewSessionNeedsACode
<1>2. Spec => [][WithACode]_vars  BY <1>1, SignInInvariant, PTL DEF Spec
<1> QED  BY <1>2 DEF NoWayRoundTheCode, WithACode

-----------------------------------------------------------------------------
(* A letter handed to a relay: MailSession.                                    *)

Codes     == {"220", "250", "235", "334", "354", "221", "none", "refused", "deferred"}
ReplyLine == [of : Steps, code : Codes, last : BOOLEAN]
Words     == {"STARTTLS", "PLAIN", "LOGIN"}
Relays    == [offers : SUBSET Words, heard : Steps \cup {"none"}, took : Nat, gone : BOOLEAN]

MailTypes ==
  /\ step \in Steps /\ asked \in BOOLEAN /\ config \in Configs
  /\ outcome \in {"none", "sent", "failed", "handled"}
  /\ waiting \in Seq(ReplyLine) /\ lines \in Seq(ReplyLine) /\ answers \in Seq(ReplyLine)
  /\ relay \in Relays

\* A line answers what the client awaits; a 250 after the letter means it was taken.
IsOfNow(line) == line.of = step /\ (step = "body" /\ line.code = "250" => relay.took = 1)

\* While it goes on: what was asked and not answered has no lines yet, and the last
\* line of a reply has nothing behind it, wherever the reply is cut.
Talking ==
  /\ step # "over" /\ (step = "called" => ~asked /\ relay.heard = "none")
  /\ relay.heard \in {step, "none"}
  /\ relay.heard # "none" \/ step = "called" => waiting = <<>> /\ lines = <<>> /\ answers = <<>>
  /\ \A i \in 1 .. Len(waiting) : IsOfNow(waiting[i])
  /\ \A i \in 1 .. Len(lines) : IsOfNow(lines[i])
  /\ \A i \in 1 .. Len(answers) : IsOfNow(answers[i])
  /\ \A i \in 1 .. Len(waiting) : waiting[i].last => i = Len(waiting) /\ lines = <<>> /\ answers = <<>>
  /\ \A i \in 1 .. Len(lines) : lines[i].last => i = Len(lines) /\ answers = <<>>
  /\ \A i \in 1 .. Len(answers) : answers[i].last => i = Len(answers)

\* The relay takes the letter when it answers its body, once.
Took ==
  /\ step \notin {"body", "quit", "over"} => relay.took = 0
  /\ step = "body" => relay.took \in {0, 1} /\ (relay.heard = "body" => relay.took = 0)
  /\ step = "quit" => relay.took = 1 /\ relay.heard # "body"
  /\ outcome = "sent" => relay.took = 1 /\ relay.heard # "body"

MailInv ==
  /\ MailTypes
  /\ ~Over => Talking
  /\ Over => waiting = <<>> /\ ~asked /\ step = "over"
  /\ Took

LEMMA RelayFields == ASSUME MailInv
  PROVE  /\ relay.took \in Nat /\ relay.heard \in Steps \cup {"none"}
         /\ relay.gone \in BOOLEAN /\ relay.offers \subseteq Words
BY DEF MailInv, MailTypes, Relays

\* A complete reply has nothing behind it.
LEMMA NothingBehind ==
  ASSUME MailInv, ~Over, Complete
  PROVE  /\ asked /\ lines = <<>> /\ answers = <<>> /\ relay.heard = "none"
         /\ step \notin {"called", "over"}
         /\ Reply \in ReplyLine /\ IsOfNow(Reply)
<1>1. PICK n \in Nat : n = Len(waiting) /\ waiting \in Seq(ReplyLine) /\ waiting # <<>> /\ n \in 1 .. n
  BY DEF MailInv, MailTypes, Complete
<1>2. waiting[n].last /\ Reply = waiting[n]  BY <1>1 DEF Complete, EndsReply, Reply
<1>3. Talking  BY DEF MailInv
<1>4. lines = <<>> /\ answers = <<>>  BY <1>1, <1>2, <1>3 DEF Talking
<1>5. relay.heard = "none" /\ step \notin {"called", "over"}  BY <1>1, <1>3, RelayFields DEF Talking
<1>6. Reply \in ReplyLine /\ IsOfNow(Reply)  BY <1>1, <1>2, <1>3 DEF Talking
<1> QED  BY <1>4, <1>5, <1>6 DEF Complete

\* The next line is written.
LEMMA AsksKeeps ==
  ASSUME MailInv, ~Over, NEW s \in Steps \ {"called", "over"}, Asks(s),
         waiting' = <<>>, lines = <<>>, answers = <<>>,
         UNCHANGED <<config, lines, answers, outcome>>,
         s = "quit" => relay.took = 1 /\ relay.heard # "body",
         s # "quit" => relay.took = 0
  PROVE  MailInv'
<1>1. /\ step' = s /\ asked' = TRUE /\ relay' \in Relays
      /\ relay'.heard = s /\ relay'.took = relay.took
  BY DEF Asks, MailInv, MailTypes, Relays
<1>2. MailTypes'  BY <1>1 DEF MailInv, MailTypes
<1>3. Talking'  BY <1>1 DEF Talking
<1>4. Took'  BY <1>1 DEF Took, Over
<1>5. ~Over'  BY DEF Over
<1> QED  BY <1>2, <1>3, <1>4, <1>5 DEF MailInv

\* The sending is over.
LEMMA OverKeeps ==
  ASSUME MailInv, ~Over, outcome' \in {"sent", "failed", "handled"}, step' = "over",
         ~asked', asked' \in BOOLEAN, waiting' = <<>>,
         UNCHANGED <<config, lines, answers, relay>>,
         outcome' = "sent" => step = "quit"
  PROVE  MailInv'
<1>1. MailTypes'
  <2>1. <<>> \in Seq(ReplyLine) /\ "over" \in Steps  BY DEF Steps
  <2> QED  BY <2>1 DEF MailInv, MailTypes
<1>2. Took'  BY DEF MailInv, Took
<1>3. Over'  BY DEF Over
<1> QED  BY <1>1, <1>2, <1>3 DEF MailInv

LEMMA OpenSocketKeeps == ASSUME MailInv, OpenSocket PROVE MailInv'
<1>1. /\ ~Over /\ step = "called" /\ step' = "greeting" /\ asked' = TRUE
      /\ UNCHANGED <<config, waiting, lines, answers, outcome>>
      /\ relay' = [relay EXCEPT !.heard = "greeting"]
  BY DEF OpenSocket
<1>2. Asks("greeting")  BY <1>1 DEF Asks
<1>3. waiting = <<>> /\ lines = <<>> /\ answers = <<>> /\ relay.took = 0
  BY <1>1 DEF MailInv, Talking, Took
<1>4. "greeting" \in Steps \ {"called", "over"}  BY DEF Steps
<1> QED  BY <1>1, <1>2, <1>3, <1>4, AsksKeeps

LEMMA EndsKeep ==
  ASSUME MailInv, Handled \/ CannotConnect \/ UpgradeFails \/ Fail PROVE MailInv'
<1>1. CASE Handled
  <2>1. ~Over /\ step = "called"  BY <1>1 DEF Handled
  <2>2. ~asked /\ asked \in BOOLEAN /\ waiting = <<>>  BY <2>1 DEF MailInv, MailTypes, Talking
  <2> QED  BY <1>1, <2>1, <2>2, OverKeeps DEF Handled
<1>2. CASE CannotConnect  BY <1>2, OverKeeps DEF CannotConnect, GivesUp, Closes
<1>3. CASE UpgradeFails  BY <1>3, OverKeeps DEF UpgradeFails, GivesUp, Closes
<1>4. CASE Fail  BY <1>4, OverKeeps DEF Fail, GivesUp, Closes
<1> QED  BY <1>1, <1>2, <1>3, <1>4

\* Lines move up: each is still of now, and only the last of a reply is last.
LEMMA DataArrivesKeeps == ASSUME MailInv, DataArrives, ~Over PROVE MailInv'
<1>1. /\ answers # <<>> /\ lines' = Append(lines, Head(answers)) /\ answers' = Tail(answers)
      /\ UNCHANGED <<config, step, waiting, asked, outcome, relay>>
  BY DEF DataArrives
<1>2. waiting \in Seq(ReplyLine) /\ lines \in Seq(ReplyLine) /\ answers \in Seq(ReplyLine)
  BY DEF MailInv, MailTypes
<1>3. PICK n \in Nat, k \in Nat : n = Len(lines) /\ k = Len(answers) /\ k > 0  BY <1>1, <1>2
<1>4. /\ lines' \in Seq(ReplyLine) /\ answers' \in Seq(ReplyLine)
      /\ Len(lines') = n + 1 /\ Len(answers') = k - 1
      /\ \A i \in 1 .. n : lines'[i] = lines[i]
      /\ lines'[n + 1] = answers[1]
      /\ \A i \in 1 .. k - 1 : answers'[i] = answers[i + 1]
  BY <1>1, <1>2, <1>3
<1>5. Talking  BY DEF MailInv
<1>6. \A i \in 1 .. k : answers[i].last => i = k  BY <1>3, <1>5 DEF Talking
<1>7. \A i \in 1 .. n : ~lines[i].last  BY <1>1, <1>3, <1>5 DEF Talking
<1>8. Talking'
  <2>1. \A line : IsOfNow(line)' <=> IsOfNow(line)  BY <1>1 DEF IsOfNow
  <2>2. \A i \in 1 .. n + 1 : IsOfNow(lines'[i])
    BY <1>3, <1>4, <1>5 DEF Talking
  <2>3. \A i \in 1 .. k - 1 : IsOfNow(answers'[i])
    BY <1>3, <1>4, <1>5 DEF Talking
  <2>4. \A i \in 1 .. n + 1 : lines'[i].last => i = n + 1 /\ answers' = <<>>
    <3>1. answers'= <<>> <=> k = 1  BY <1>2, <1>3, <1>4
    <3> QED  BY <1>3, <1>4, <1>6, <1>7, <3>1
  <2>5. \A i \in 1 .. k - 1 : answers'[i].last => i = k - 1
    BY <1>3, <1>4, <1>6
  <2>6. \A i \in 1 .. Len(waiting) : ~waiting[i].last  BY <1>1, <1>5 DEF Talking
  <2> QED  BY <1>1, <1>4, <1>5, <2>1, <2>2, <2>3, <2>4, <2>5, <2>6 DEF Talking
<1>9. MailTypes' /\ Took'  BY <1>1, <1>4 DEF MailInv, MailTypes, Took
<1> QED  BY <1>1, <1>8, <1>9 DEF MailInv, Over

LEMMA SettleKeeps == ASSUME MailInv, Settle, ~Over PROVE MailInv'
<1>1. /\ lines # <<>> /\ ~Complete /\ asked
      /\ waiting' = Append(waiting, Head(lines)) /\ lines' = Tail(lines)
      /\ UNCHANGED <<config, step, asked, outcome, relay, answers>>
  BY DEF Settle
<1>2. waiting \in Seq(ReplyLine) /\ lines \in Seq(ReplyLine) /\ answers \in Seq(ReplyLine)
  BY DEF MailInv, MailTypes
<1>3. PICK n \in Nat, k \in Nat : n = Len(waiting) /\ k = Len(lines) /\ k > 0  BY <1>1, <1>2
<1>4. /\ waiting' \in Seq(ReplyLine) /\ lines' \in Seq(ReplyLine)
      /\ Len(waiting') = n + 1 /\ Len(lines') = k - 1
      /\ \A i \in 1 .. n : waiting'[i] = waiting[i]
      /\ waiting'[n + 1] = lines[1]
      /\ \A i \in 1 .. k - 1 : lines'[i] = lines[i + 1]
  BY <1>1, <1>2, <1>3
<1>5. Talking  BY DEF MailInv
<1>6. \A i \in 1 .. k : lines[i].last => i = k /\ answers = <<>>  BY <1>3, <1>5 DEF Talking
<1>7. \A i \in 1 .. n : ~waiting[i].last  BY <1>1, <1>3, <1>5 DEF Talking
<1>8. Talking'
  <2>1. \A line : IsOfNow(line)' <=> IsOfNow(line)  BY <1>1 DEF IsOfNow
  <2>2. \A i \in 1 .. n + 1 : IsOfNow(waiting'[i])
    BY <1>3, <1>4, <1>5 DEF Talking
  <2>3. \A i \in 1 .. k - 1 : IsOfNow(lines'[i])
    BY <1>3, <1>4, <1>5 DEF Talking
  <2>4. \A i \in 1 .. n + 1 : waiting'[i].last => i = n + 1 /\ lines' = <<>> /\ answers' = <<>>
    <3>1. k = 1 => lines' = <<>>  BY <1>4
    <3> QED  BY <1>1, <1>3, <1>4, <1>6, <1>7, <3>1
  <2>5. \A i \in 1 .. k - 1 : lines'[i].last => i = k - 1 /\ answers' = <<>>
    BY <1>1, <1>3, <1>4, <1>6
  <2>6. relay.heard = "none" /\ step # "called"  BY <1>1, <1>5 DEF Talking
  <2> QED  BY <1>1, <1>4, <1>5, <2>1, <2>2, <2>3, <2>4, <2>5, <2>6 DEF Talking
<1>9. MailTypes' /\ Took'  BY <1>1, <1>4 DEF MailInv, MailTypes, Took
<1> QED  BY <1>1, <1>8, <1>9 DEF MailInv, Over

\* Which step may follow which.
NextStep ==
  LET hello == step \in {"ehlo", "ehlo again"} IN
  IF hello THEN AfterHello(relay.offers) ELSE IF step = "quit" THEN "over" ELSE After[step]

LEMMA StepsFollow ==
  ASSUME step \in Steps \ {"called", "over", "starttls"}
  PROVE  /\ NextStep \in (Steps \ {"called", "over"}) \cup {"refuse", "over"}
         /\ NextStep = "over" <=> step = "quit"
         /\ NextStep = "quit" <=> step = "body"
<1>1. CASE step \in {"ehlo", "ehlo again"}
  BY <1>1 DEF NextStep, AfterHello, Steps
<1>2. CASE step \notin {"ehlo", "ehlo again"}
  <2>1. step \in DOMAIN After \cup {"quit"}  BY <1>2 DEF After, Steps
  <2>2. /\ After["greeting"] = "ehlo" /\ After["auth"] = "mail" /\ After["login"] = "user"
        /\ After["user"] = "password" /\ After["password"] = "mail" /\ After["mail"] = "rcpt"
        /\ After["rcpt"] = "data" /\ After["data"] = "body" /\ After["body"] = "quit"
    BY DEF After
  <2>3. DOMAIN After = {"greeting", "auth", "login", "user", "password", "mail", "rcpt", "data", "body"}
    BY DEF After
  <2>4. NextStep = IF step = "quit" THEN "over" ELSE After[step]  BY <1>2 DEF NextStep
  <2> QED  BY <2>1, <2>2, <2>3, <2>4 DEF Steps
<1> QED  BY <1>1, <1>2

LEMMA ProceedKeeps == ASSUME MailInv, Proceed PROVE MailInv'
<1>1. /\ ~Over /\ Complete /\ Reply.code = Wanted(step) /\ step # "starttls"
      /\ UNCHANGED <<config, lines, answers>>
  BY DEF Proceed, Expected
<1>2. PICK next : next = NextStep  OBVIOUS
<1>3. /\ next = "refuse" => GivesUp /\ UNCHANGED relay
      /\ next = "over" => /\ outcome' = "sent" /\ step' = "over" /\ Closes
                          /\ UNCHANGED relay
      /\ next \notin {"refuse", "over"} => Asks(next) /\ waiting' = <<>> /\ outcome' = outcome
  BY <1>2 DEF Proceed, NextStep
<1>4. /\ lines = <<>> /\ answers = <<>> /\ relay.heard = "none"
      /\ step \in Steps \ {"called", "over", "starttls"}
      /\ IsOfNow(Reply)
  BY <1>1, NothingBehind DEF MailInv, MailTypes
<1>5. /\ next \in (Steps \ {"called", "over"}) \cup {"refuse", "over"}
      /\ next = "over" <=> step = "quit"
      /\ next = "quit" <=> step = "body"
  BY <1>2, <1>4, StepsFollow
<1>6. CASE next = "refuse"
  BY <1>1, <1>3, <1>6, OverKeeps DEF GivesUp, Closes
<1>7. CASE next = "over"
  BY <1>1, <1>3, <1>5, <1>7, OverKeeps DEF Closes
<1>8. CASE next \notin {"refuse", "over"}
  <2>1. next \in Steps \ {"called", "over"} /\ Asks(next) /\ waiting' = <<>> /\ outcome' = outcome
    BY <1>3, <1>5, <1>8
  <2>2. next = "quit" => relay.took = 1
    BY <1>1, <1>4, <1>5 DEF IsOfNow, Wanted
  <2>3. next # "quit" => relay.took = 0
    BY <1>4, <1>5, <1>8 DEF MailInv, Took
  <2> QED  BY <1>1, <1>4, <2>1, <2>2, <2>3, AsksKeeps
<1> QED  BY <1>6, <1>7, <1>8

LEMMA UpgradeKeeps == ASSUME MailInv, Upgrade PROVE MailInv'
<1>1. /\ ~Over /\ Complete /\ step = "starttls" /\ waiting' = <<>> /\ Asks("ehlo again")
      /\ UNCHANGED <<config, lines, answers, outcome>>
  BY DEF Upgrade
<1>2. lines = <<>> /\ answers = <<>>  BY <1>1, NothingBehind
<1>3. relay.took = 0  BY <1>1 DEF MailInv, Took
<1>4. "ehlo again" \in Steps \ {"called", "over"}  BY DEF Steps
<1> QED  BY <1>1, <1>2, <1>3, <1>4, AsksKeeps

LEMMA WantedIsCode == ASSUME NEW s \in Steps PROVE Wanted(s) \in Codes
BY DEF Wanted, Steps, Codes

LEMMA AnswersKeep == ASSUME MailInv, Answers PROVE MailInv'
<1>1. relay.heard # "none" /\ ~relay.gone
      /\ UNCHANGED <<config, step, waiting, asked, lines, outcome>>
  BY DEF Answers
<1>2. PICK heard : heard = relay.heard  OBVIOUS
<1>3. PICK code \in {Wanted(heard), "refused", "deferred"}, n \in 1 .. MaxLines :
        /\ answers' = answers \o Lines(heard, code, n)
        /\ relay' = [relay EXCEPT !.heard = "none",
                       !.took = @ + IF heard = "body" /\ code = "250" THEN 1 ELSE 0]
  BY <1>2 DEF Answers
<1>4. heard \in Steps /\ code \in Codes /\ n \in Nat \ {0}
  <2>1. heard \in Steps  BY <1>1, <1>2, RelayFields
  <2>2. code \in Codes  BY <2>1, WantedIsCode DEF Codes
  <2> QED  BY <2>1, <2>2, LinesAssumption
<1>5. /\ Lines(heard, code, n) \in Seq(ReplyLine) /\ Len(Lines(heard, code, n)) = n
      /\ \A i \in 1 .. n : Lines(heard, code, n)[i] = Line(heard, code, i = n)
  <2>1. \A i \in 1 .. n : Line(heard, code, i = n) \in ReplyLine  BY <1>4 DEF Line, ReplyLine
  <2> QED  BY <1>4, <2>1 DEF Lines
<1>6. /\ relay' \in Relays /\ relay'.heard = "none"
      /\ relay'.took = relay.took + IF heard = "body" /\ code = "250" THEN 1 ELSE 0
  <2>1. PICK took \in Nat : took = relay.took + IF heard = "body" /\ code = "250" THEN 1 ELSE 0
    BY RelayFields
  <2>2. relay' = [relay EXCEPT !.heard = "none", !.took = took]  BY <1>3, <2>1
  <2>3. relay \in Relays  BY DEF MailInv, MailTypes
  <2>4. DOMAIN relay = {"offers", "heard", "took", "gone"}  BY <2>3 DEF Relays
  <2>5. relay' = [f \in {"offers", "heard", "took", "gone"} |->
                   IF f = "took" THEN took ELSE IF f = "heard" THEN "none" ELSE relay[f]]
    BY <2>2, <2>4, Zenon
  <2> QED  BY <2>1, <2>3, <2>5 DEF Relays
<1>7. MailTypes'
  <2>1. answers' \in Seq(ReplyLine)  BY <1>3, <1>5 DEF MailInv, MailTypes
  <2> QED  BY <1>1, <1>6, <2>1 DEF MailInv, MailTypes
<1>8. Took'  BY <1>1, <1>2, <1>6, RelayFields DEF MailInv, Took, Talking, Over
<1>9. CASE Over  BY <1>1, <1>7, <1>8, <1>9 DEF MailInv, Over
<1>10. CASE ~Over
  <2>1. /\ heard = step /\ step \notin {"called", "over"}
        /\ waiting = <<>> /\ lines = <<>> /\ answers = <<>>
    BY <1>1, <1>2, <1>4, <1>10 DEF MailInv, Talking
  <2>2. answers' = Lines(heard, code, n)  BY <1>3, <1>5, <2>1
  <2>3. \A i \in 1 .. n : /\ answers'[i].of = step
                          /\ step = "body" /\ answers'[i].code = "250" => relay'.took = 1
    <3>1. step = "body" /\ code = "250" => relay'.took = 1
      BY <1>2, <1>6, <2>1 DEF MailInv, Took
    <3>2. \A i \in 1 .. n : answers'[i].of = step /\ answers'[i].code = code
      BY <1>5, <2>1, <2>2 DEF Line
    <3> QED  BY <3>1, <3>2
  <2>4. \A i \in 1 .. n : answers'[i].last => i = n
    <3> SUFFICES ASSUME NEW i \in 1 .. n, answers'[i].last PROVE i = n  OBVIOUS
    <3>1. answers'[i] = Line(heard, code, i = n)  BY <1>5, <2>2
    <3>2. Line(heard, code, i = n).last <=> i = n  BY Zenon DEF Line
    <3> QED  BY <3>1, <3>2, Zenon
  <2>5. Talking'
    <3>1. Len(answers') = n  BY <1>5, <2>2
    <3>2. step # "over" /\ step # "called"
      BY <2>1
    <3> QED  BY <1>1, <1>6, <2>1, <2>3, <2>4, <3>1, <3>2 DEF Talking, IsOfNow
  <2> QED  BY <1>1, <1>7, <1>8, <1>10, <2>5 DEF MailInv, Over
<1> QED  BY <1>9, <1>10

LEMMA TakesAndGoesKeeps == ASSUME MailInv, TakesAndGoes PROVE MailInv'
<1>1. /\ relay.heard = "body"
      /\ UNCHANGED <<config, step, waiting, asked, lines, answers, outcome>>
      /\ relay' = [relay EXCEPT !.heard = "none", !.took = @ + 1, !.gone = TRUE]
  BY DEF TakesAndGoes
<1>2. relay' \in Relays /\ relay'.heard = "none" /\ relay'.took = relay.took + 1
  <2>1. PICK took \in Nat : took = relay.took + 1  BY RelayFields
  <2>2. relay' = [relay EXCEPT !.heard = "none", !.took = took, !.gone = TRUE]  BY <1>1, <2>1
  <2>3. relay \in Relays  BY DEF MailInv, MailTypes
  <2>4. DOMAIN relay = {"offers", "heard", "took", "gone"}  BY <2>3 DEF Relays
  <2>5. relay' = [f \in {"offers", "heard", "took", "gone"} |->
                   IF f = "gone" THEN TRUE
                   ELSE IF f = "took" THEN took ELSE IF f = "heard" THEN "none" ELSE relay[f]]
    BY <2>2, <2>4, Zenon
  <2> QED  BY <2>1, <2>3, <2>5 DEF Relays
<1>3. MailTypes'  BY <1>1, <1>2 DEF MailInv, MailTypes
<1>4. Took'  BY <1>1, <1>2 DEF MailInv, Took, Talking, Over
<1>5. ~Over => Talking'
  <2> SUFFICES ASSUME ~Over PROVE Talking'  OBVIOUS
  <2>1. Talking /\ waiting = <<>> /\ lines = <<>> /\ answers = <<>>
    BY <1>1 DEF MailInv, Talking
  <2> QED  BY <1>1, <1>2, <2>1 DEF Talking
<1> QED  BY <1>1, <1>3, <1>4, <1>5 DEF MailInv, Over

LEMMA BreakKeeps == ASSUME MailInv, Break PROVE MailInv'
<1>1. /\ UNCHANGED <<config, step, waiting, asked, lines, answers, outcome>>
      /\ relay' = [relay EXCEPT !.gone = TRUE]
  BY DEF Break
<1>2. relay' \in Relays /\ relay'.heard = relay.heard /\ relay'.took = relay.took
  BY <1>1 DEF MailInv, MailTypes, Relays
<1>3. MailTypes' /\ Took'  BY <1>1, <1>2 DEF MailInv, MailTypes, Took
<1>4. Talking => Talking'  BY <1>1, <1>2 DEF Talking, IsOfNow
<1> QED  BY <1>1, <1>3, <1>4 DEF MailInv, Over

\* Nobody listens when it is over: what is left of the relay's lines goes nowhere.
LEMMA LateLinesKeep == ASSUME MailInv, Over, DataArrives \/ Settle PROVE MailInv'
<1>1. ~asked  BY DEF MailInv
<1>2. DataArrives  BY <1>1 DEF Settle
<1>3. UNCHANGED <<config, step, waiting, asked, outcome, relay>>  BY <1>2 DEF DataArrives
<1>4. lines' \in Seq(ReplyLine) /\ answers' \in Seq(ReplyLine)
  <2>1. lines \in Seq(ReplyLine) /\ answers \in Seq(ReplyLine) /\ answers # <<>>
    BY <1>2 DEF MailInv, MailTypes, DataArrives
  <2> QED  BY <1>2, <2>1 DEF DataArrives
<1> QED  BY <1>3, <1>4 DEF MailInv, MailTypes, Took, Over

LEMMA MailStarts == MailInit => MailInv
<1> SUFFICES ASSUME MailInit PROVE MailInv  OBVIOUS
<1>1. PICK offers \in Offers : relay = [offers |-> offers, heard |-> "none", took |-> 0, gone |-> FALSE]
  BY DEF MailInit
<1>2. offers \subseteq Words  BY OffersAssumption DEF Words
<1>3. relay \in Relays  BY <1>1, <1>2 DEF Relays
<1>4. <<>> \in Seq(ReplyLine)  OBVIOUS
<1>5. MailTypes  BY <1>3, <1>4 DEF MailInit, MailTypes, Steps
<1>6. Talking /\ Took  BY <1>1 DEF MailInit, Talking, Took
<1> QED  BY <1>5, <1>6 DEF MailInit, MailInv, Over

\* In every state of sendMail's conversation: the lines that came, are kept or are on
\* their way answer the line that was written last, the last of a reply has nothing
\* behind it, and the relay has taken the letter exactly if it was asked to and did.
THEOREM MailInvariant == MailSpec => []MailInv
<1>1. MailInv /\ [MailNext]_mailVars => MailInv'
  <2> SUFFICES ASSUME MailInv, [MailNext]_mailVars PROVE MailInv'  OBVIOUS
  <2>1. CASE UNCHANGED mailVars
    BY <2>1 DEF mailVars, MailInv, MailTypes, Talking, IsOfNow, Took, Over
  <2>2. CASE MailNext
    <3>1. CASE DataArrives \/ Settle  BY <3>1, DataArrivesKeeps, SettleKeeps, LateLinesKeep
    <3> QED
      BY <2>2, <3>1, OpenSocketKeeps, EndsKeep, ProceedKeeps, UpgradeKeeps, BreakKeeps,
         AnswersKeep, TakesAndGoesKeeps
      DEF MailNext, Client
  <2> QED  BY <2>1, <2>2
<1> QED  BY <1>1, MailStarts, PTL DEF MailSpec

\* However a relay cuts its answers into lines, falls silent or hangs up: a letter that
\* is said to be sent was taken, once, and no reply is read as the answer to another
\* line (sendMail, readReply, settle).
THEOREM SentWasTaken == MailSpec => []SentIsTaken
<1>1. MailInv => SentIsTaken
  <2> SUFFICES ASSUME MailInv PROVE SentIsTaken  OBVIOUS
  <2>1. outcome = "sent" => relay.took = 1  BY DEF MailInv, Took
  <2>2. \A i \in DOMAIN waiting : waiting[i].of = step
    <3>1. CASE Over  BY <3>1 DEF MailInv
    <3>2. CASE ~Over
      <4>1. DOMAIN waiting = 1 .. Len(waiting)  BY DEF MailInv, MailTypes
      <4> QED  BY <3>2, <4>1 DEF MailInv, Talking, IsOfNow
    <3> QED  BY <3>1, <3>2
  <2> QED  BY <2>1, <2>2 DEF SentIsTaken
<1> QED  BY <1>1, MailInvariant, PTL

\* A password may be sent.
MaySend == socket = "secure" \/ (config.insecure /\ "STARTTLS" \notin relay.offers)

\* What the conversation's step tells of the socket.
Covered ==
  /\ step \notin {"called", "over"} => socket \in {"plain", "secure"}
  /\ step = "ehlo again" => socket = "secure"
  /\ step \in {"auth", "login", "user", "password"} => MaySend

CoverInv == MailTypeOK /\ Covered

\* Credentials are what comes after a hello, and only where they may go.
LEMMA HellosCover ==
  ASSUME Covered, step \in Steps \ {"called", "over", "starttls"}
  PROVE  /\ NextStep # "ehlo again"
         /\ NextStep \in {"auth", "login", "user", "password"} => MaySend
<1>1. CASE step \in {"ehlo", "ehlo again"}
  <2>1. NextStep = AfterHello(relay.offers)  BY <1>1, Zenon DEF NextStep
  <2>2. step = "ehlo again" => socket = "secure"  BY DEF Covered
  <2>3. socket \in {"plain", "secure"}  BY DEF Covered
  <2>4. AfterHello(relay.offers) \in {"starttls", "refuse", "mail", "auth", "login"}  BY DEF AfterHello
  <2>5. CASE ~MayAuthenticate
    <3>1. AfterHello(relay.offers) \in {"starttls", "refuse"}  BY <2>5 DEF AfterHello
    <3> QED  BY <2>1, <3>1
  <2>6. CASE ~config.user
    <3>1. AfterHello(relay.offers) \in {"starttls", "refuse", "mail"}  BY <2>6, Zenon DEF AfterHello
    <3> QED  BY <2>1, <3>1
  <2>7. CASE MayAuthenticate /\ config.user
    <3>1. socket = "secure" \/ config.insecure  BY <2>7, Zenon DEF MayAuthenticate
    <3>2. CASE socket = "plain" /\ "STARTTLS" \in relay.offers
      <4>1. step = "ehlo"  BY <1>1, <2>2, <3>2
      <4>2. AfterHello(relay.offers) = "starttls"  BY <3>2, <4>1, Zenon DEF AfterHello
      <4> QED  BY <2>1, <4>2
    <3>3. CASE ~ (socket = "plain" /\ "STARTTLS" \in relay.offers)
      <4>1. MaySend  BY <2>3, <3>1, <3>3, Zenon DEF MaySend
      <4> QED  BY <2>1, <2>4, <4>1
    <3> QED  BY <3>2, <3>3
  <2> QED  BY <2>5, <2>6, <2>7
<1>2. CASE step = "quit"
  <2>1. NextStep = "over"  BY <1>2 DEF NextStep
  <2> QED  BY <2>1
<1>3. CASE step \notin {"ehlo", "ehlo again", "quit"}
  <2>1. NextStep = After[step]  BY <1>3 DEF NextStep
  <2>2. \/ step \in {"greeting", "mail", "rcpt", "data", "body", "auth", "password"}
        \/ step \in {"login", "user"}
    BY <1>3 DEF Steps
  <2>3. CASE step \in {"greeting", "mail", "rcpt", "data", "body", "auth", "password"}
    <3>1. After[step] \in {"ehlo", "mail", "rcpt", "data", "body", "quit"}  BY <2>3 DEF After
    <3> QED  BY <2>1, <3>1
  <2>4. CASE step \in {"login", "user"}
    <3>1. After[step] \in {"user", "password"}  BY <2>4 DEF After
    <3>2. MaySend  BY <2>4 DEF Covered
    <3> QED  BY <2>1, <3>1, <3>2
  <2> QED  BY <2>2, <2>3, <2>4
<1> QED  BY <1>1, <1>2, <1>3

\* However the sending ends, the relay takes the letter at most once.
TakenOnce == relay.took \in 0 .. 1 /\ (relay.heard = "body" => relay.took = 0)

\* What becomes of the relay in a step.
LEMMA RelaySteps ==
  ASSUME MailInv, MailNext
  PROVE  \/ relay' = relay
         \/ relay' = [relay EXCEPT !.gone = TRUE]
         \/ step' # "over" /\ relay' = [relay EXCEPT !.heard = step']
         \/ \E n \in {0, 1}, g \in BOOLEAN :
              /\ n = 1 => relay.heard = "body"
              /\ relay' = [relay EXCEPT !.heard = "none", !.took = @ + n, !.gone = g]
<1>1. CASE Handled \/ CannotConnect \/ UpgradeFails \/ Fail \/ DataArrives \/ Settle
  BY <1>1 DEF Handled, CannotConnect, UpgradeFails, Fail, DataArrives, Settle
<1>2. CASE Break  BY <1>2 DEF Break
<1>3. CASE OpenSocket
  <2>1. step' = "greeting" /\ relay' = [relay EXCEPT !.heard = "greeting"]  BY <1>3 DEF OpenSocket
  <2> QED  BY <2>1
<1>4. CASE Upgrade
  <2>1. step' = "ehlo again" /\ relay' = [relay EXCEPT !.heard = "ehlo again"]  BY <1>4 DEF Upgrade, Asks
  <2> QED  BY <2>1
<1>5. CASE Proceed
  <2>1. PICK next : next = NextStep  OBVIOUS
  <2>2. /\ next = "refuse" => GivesUp /\ UNCHANGED relay
        /\ next = "over" => step' = "over" /\ UNCHANGED relay
        /\ next \notin {"refuse", "over"} => Asks(next)
    BY <1>5, <2>1 DEF Proceed, NextStep
  <2>3. Asks(next) => step' = next /\ relay' = [relay EXCEPT !.heard = next]  BY DEF Asks
  <2> QED  BY <2>2, <2>3
<1>6. CASE Answers
  <2>1. PICK code : relay' = [relay EXCEPT !.heard = "none",
                        !.took = @ + IF relay.heard = "body" /\ code = "250" THEN 1 ELSE 0]
    BY <1>6 DEF Answers
  <2>2. relay.gone \in BOOLEAN /\ relay \in Relays  BY RelayFields DEF MailInv, MailTypes
  <2>3. PICK n \in {0, 1} : n = IF relay.heard = "body" /\ code = "250" THEN 1 ELSE 0  OBVIOUS
  <2>4. PICK g \in BOOLEAN : g = relay.gone  BY <2>2
  <2>5. relay' = [relay EXCEPT !.heard = "none", !.took = @ + n, !.gone = g]
    BY <2>1, <2>2, <2>3, <2>4 DEF Relays
  <2>6. n = 1 => relay.heard = "body"  BY <2>3
  <2> QED  BY <2>5, <2>6
<1>7. CASE TakesAndGoes
  <2>1. relay.heard = "body" /\ relay' = [relay EXCEPT !.heard = "none", !.took = @ + 1, !.gone = TRUE]
    BY <1>7 DEF TakesAndGoes
  <2> QED  BY <2>1
<1> QED  BY <1>1, <1>2, <1>3, <1>4, <1>5, <1>6, <1>7 DEF MailNext, Client

LEMMA OnceStep == ASSUME MailInv, MailInv', TakenOnce, MailNext PROVE TakenOnce' /\ relay'.offers = relay.offers
<1>1. relay \in Relays /\ relay' \in Relays  BY DEF MailInv, MailTypes
<1>2. CASE relay' = relay  BY <1>2 DEF TakenOnce
<1>3. CASE relay' = [relay EXCEPT !.gone = TRUE]  BY <1>1, <1>3 DEF TakenOnce, Relays
<1>4. CASE step' # "over" /\ relay' = [relay EXCEPT !.heard = step']
  <2>1. relay'.heard = step' /\ relay'.took = relay.took /\ relay'.offers = relay.offers
    BY <1>1, <1>4 DEF Relays
  <2>2. step' = "body" => relay'.took = 0
    BY <2>1 DEF MailInv, Took
  <2> QED  BY <2>1, <2>2 DEF TakenOnce
<1>5. CASE \E n \in {0, 1}, g \in BOOLEAN :
             /\ n = 1 => relay.heard = "body"
             /\ relay' = [relay EXCEPT !.heard = "none", !.took = @ + n, !.gone = g]
  <2>1. PICK n \in {0, 1}, g \in BOOLEAN :
             /\ n = 1 => relay.heard = "body"
             /\ relay' = [relay EXCEPT !.heard = "none", !.took = @ + n, !.gone = g]
    BY <1>5
  <2>2. relay'.heard = "none" /\ relay'.took = relay.took + n /\ relay'.offers = relay.offers
    BY <1>1, <2>1 DEF Relays
  <2> QED  BY <2>1, <2>2 DEF TakenOnce
<1> QED  BY <1>2, <1>3, <1>4, <1>5, RelaySteps

LEMMA CoverStep ==
  ASSUME MailInv, MailInv', TakenOnce, TakenOnce', CoverInv, MailNext
  PROVE  CoverInv'
<1>1. config' = config
  BY DEF MailNext, Client, OpenSocket, DataArrives, Settle, Fail, Proceed, Upgrade, Handled,
     CannotConnect, Break, UpgradeFails, Answers, TakesAndGoes
<1>2. relay'.offers = relay.offers  BY OnceStep
<1>3. relay \in Relays /\ relay' \in Relays  BY DEF MailInv, MailTypes
<1>4. MailTypeOK' /\ Covered'
  <2>0. /\ config' \in Configs /\ step' \in Steps /\ asked' \in BOOLEAN
        /\ outcome' \in {"none", "sent", "failed", "handled"}
        /\ relay'.took \in 0 .. 1 /\ relay'.heard \in Steps \cup {"none"}
        /\ relay.offers \subseteq Words
    BY <1>3 DEF MailInv, MailTypes, TakenOnce, Relays
  <2>1. CASE OpenSocket
    <3>1. step' = "greeting" /\ socket' \in {"plain", "secure"} /\ UNCHANGED <<failure, greeting>>
      BY <2>1 DEF OpenSocket
    <3> QED  BY <2>0, <3>1 DEF CoverInv, MailTypeOK, Covered
  <2>2. CASE Upgrade
    <3>1. step' = "ehlo again" /\ socket' = "secure" /\ UNCHANGED <<failure, greeting>>
      BY <2>2 DEF Upgrade, Asks
    <3> QED  BY <2>0, <3>1 DEF CoverInv, MailTypeOK, Covered
  <2>3. CASE Proceed
    <3>1. step \in Steps \ {"called", "over", "starttls"}
      BY <2>3, NothingBehind DEF Proceed, MailInv, MailTypes
    <3>2. PICK next : next = NextStep  OBVIOUS
    <3>3. /\ next = "refuse" => GivesUp
          /\ next = "over" => step' = "over" /\ Closes
          /\ next \notin {"refuse", "over"} => Asks(next) /\ socket' = socket
      BY <2>3, <3>2 DEF Proceed, NextStep
    <3>4. failure' = failure /\ (greeting' = relay.offers \/ greeting' = greeting)
      BY <2>3 DEF Proceed
    <3>5. next # "ehlo again" /\ (next \in {"auth", "login", "user", "password"} => MaySend)
      BY <3>1, <3>2, HellosCover DEF CoverInv
    <3>6. CASE next \in {"refuse", "over"}
      <4>1. step' = "over" /\ socket' = "destroyed"  BY <3>3, <3>6 DEF GivesUp, Closes
      <4> QED  BY <2>0, <3>4, <4>1 DEF CoverInv, MailTypeOK, Covered, Words
    <3>7. CASE next \notin {"refuse", "over"}
      <4>1. step' = next /\ socket' = socket  BY <3>3, <3>7 DEF Asks
      <4>2. socket \in {"plain", "secure"}  BY <3>1 DEF CoverInv, Covered
      <4>3. MaySend => MaySend'  BY <1>1, <1>2, <4>1 DEF MaySend
      <4> QED  BY <2>0, <3>4, <3>5, <4>1, <4>2, <4>3 DEF CoverInv, MailTypeOK, Covered, Words
    <3> QED  BY <3>6, <3>7
  <2>4. CASE Handled \/ CannotConnect \/ Fail \/ UpgradeFails
    <3>1. /\ step' = "over" /\ socket' \in {"destroyed", socket}
          /\ UNCHANGED <<failure, greeting>>
      BY <2>4 DEF Handled, CannotConnect, Fail, UpgradeFails, GivesUp, Closes
    <3> QED  BY <2>0, <3>1 DEF CoverInv, MailTypeOK, Covered
  <2>5. CASE DataArrives \/ Settle \/ Break \/ Answers \/ TakesAndGoes
    <3>1. UNCHANGED <<step, socket, greeting>> /\ failure' \in {failure, TRUE}
      BY <2>5 DEF DataArrives, Settle, Break, Answers, TakesAndGoes
    <3>2. MaySend => MaySend'  BY <1>1, <1>2, <3>1 DEF MaySend
    <3> QED  BY <2>0, <3>1, <3>2 DEF CoverInv, MailTypeOK, Covered
  <2> QED  BY <2>1, <2>2, <2>3, <2>4, <2>5 DEF MailNext, Client
<1> QED  BY <1>4 DEF CoverInv

\* The types, and that passwords are sent only where they may go, are kept together.
LEMMA CoverInvariant == MailSpec => [](TakenOnce /\ CoverInv)
<1>1. MailInit => TakenOnce /\ CoverInv
  <2> SUFFICES ASSUME MailInit PROVE TakenOnce /\ CoverInv  OBVIOUS
  <2>1. PICK offers \in Offers : relay = [offers |-> offers, heard |-> "none", took |-> 0, gone |-> FALSE]
    BY DEF MailInit
  <2>2. relay.heard = "none" /\ relay.took = 0  BY <2>1
  <2>3. MailTypeOK
    <3>1. /\ greeting = {} /\ config \in Configs /\ asked = FALSE /\ failure = FALSE
          /\ socket = "none" /\ outcome = "none" /\ step = "called"
      BY DEF MailInit
    <3>2. "called" \in Steps  BY DEF Steps
    <3>3. asked \in BOOLEAN /\ failure \in BOOLEAN  BY <3>1, Zenon
    <3>4. relay.took \in 0 .. 1 /\ relay.heard \in Steps \cup {"none"}  BY <2>2
    <3> QED  BY <3>1, <3>2, <3>3, <3>4, Zenon DEF MailTypeOK
  <2>4. Covered  BY DEF MailInit, Covered
  <2> QED  BY <2>2, <2>3, <2>4 DEF TakenOnce, CoverInv
<1>2. MailInv /\ MailInv' /\ TakenOnce /\ CoverInv /\ [MailNext]_mailVars => TakenOnce' /\ CoverInv'
  <2> SUFFICES ASSUME MailInv, MailInv', TakenOnce, CoverInv, [MailNext]_mailVars
               PROVE  TakenOnce' /\ CoverInv'
    OBVIOUS
  <2>1. CASE UNCHANGED mailVars
    BY <2>1 DEF mailVars, TakenOnce, CoverInv, MailTypeOK, Covered, MaySend
  <2>2. CASE MailNext  BY <2>2, OnceStep, CoverStep
  <2> QED  BY <2>1, <2>2
<1> QED  BY <1>1, <1>2, MailInvariant, PTL DEF MailSpec

\* Every variable of sendMail's conversation keeps its type; and the relay takes a letter
\* once at most, also where the sending is said to have failed.
THEOREM MailTypesAreKept == MailSpec => []MailTypeOK
<1>1. CoverInv => MailTypeOK  BY DEF CoverInv
<1> QED  BY <1>1, CoverInvariant, PTL

\* Whatever a relay offers and however it answers: a password leaves over TLS, or in the
\* clear to a relay without STARTTLS where the operator allowed it (mailer.js, before AUTH).
THEOREM PasswordsStayCovered == MailSpec => []PasswordsAreCovered
<1>1. CoverInv => PasswordsAreCovered  BY DEF CoverInv, Covered, MaySend, PasswordsAreCovered
<1> QED  BY <1>1, CoverInvariant, PTL
===============================================================================
