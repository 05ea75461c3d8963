----------------------------- MODULE CustodyProofs -----------------------------
(* For any number of members, invitations, keys and requests in flight: the    *)
(* types of KeyCustody, that a practice is never left without an owner, and     *)
(* that a copy of a key goes only with its holder or with its key.  And of the  *)
(* documents those keys open, for any number of them, of runs of the tools, of  *)
(* re-encryptions and of lost files: a copy the verifier accepts is whole, and  *)
(* an export has all the documents of one moment.  And of the page that sends   *)
(* them: when it loads itself again, they are stored.  The parts share nothing. *)
EXTENDS KeyCustody, PracticeCopies, ClientPage, FiniteSetTheorems, TLAPS

\* A request about a key names one the practice has made.
KeysAreNamed ==
    \A m \in Member : flight[m].op \in {"sheet", "recover", "retire"} => flight[m].key \in Made

\* The inductive invariant.
CustodyInv == TypeOK /\ KeysAreNamed /\ AnOwnerRemains

-----------------------------------------------------------------------------
\* The owner of a practice that was just made.
LEMMA InitCustody == Init => CustodyInv
  <1> SUFFICES ASSUME Init PROVE CustodyInv
    OBVIOUS
  <1>1. TypeOK
    <2>1. maker \in Seq(Member) /\ Len(maker) =< MaxKeys /\ retired \subseteq Made /\ wrap \subseteq Made \X Member
      BY BoundAssumption DEF Init
    <2>2. standing \in [Member -> {"none", "member", "removed"}] /\ role \in [Member -> ROLES]
      BY DEF Init, ROLES
    <2>3. sheet \in Made \cup {None}
      BY DEF Init
    <2>4. invite \in [Invite -> [state : {"none", "open", "used", "closed"},
                                key : Made \cup {None}, role : ROLES]]
      BY DEF Init, NoInvite, ROLES
    <2>5. flight \in [Member -> [op : Ops \cup {"none"}, key : Made \cup {None},
                                whom : Member \cup {None}, role : ROLES]]
      BY DEF Init, NoFlight, ROLES
    <2> QED
      BY <2>1, <2>2, <2>3, <2>4, <2>5 DEF TypeOK
  <1>2. KeysAreNamed
    BY DEF Init, KeysAreNamed, NoFlight
  <1>3. AnOwnerRemains
    BY DEF Init, AnOwnerRemains, ownersOf, membersOf
  <1> QED
    BY <1>1, <1>2, <1>3 DEF CustodyInv

\* The answer to a request empties its place.
LEMMA Answered ==
  ASSUME TypeOK, NEW m \in Member, NEW op, Arrives(m, op)
  PROVE  /\ flight' \in [Member -> [op : Ops \cup {"none"}, key : Made \cup {None},
                                    whom : Member \cup {None}, role : ROLES]]
         /\ flight[m] \in [op : Ops \cup {"none"}, key : Made \cup {None},
                           whom : Member \cup {None}, role : ROLES]
         /\ flight[m].op = op
         /\ \A n \in Member : flight'[n] = IF n = m THEN NoFlight ELSE flight[n]
         /\ Made' = Made /\ KeysAreNamed => KeysAreNamed'
  <1>1. NoFlight \in [op : Ops \cup {"none"}, key : Made \cup {None},
                      whom : Member \cup {None}, role : ROLES]
    BY DEF NoFlight, ROLES
  <1>2. flight' = [flight EXCEPT ![m] = NoFlight] /\ flight[m].op = op
    BY DEF Arrives
  <1>3. \A n \in Member : flight'[n] = IF n = m THEN NoFlight ELSE flight[n]
    BY <1>2 DEF TypeOK
  <1> QED
    BY <1>1, <1>2, <1>3 DEF TypeOK, KeysAreNamed, NoFlight

\* A request that passes the dispatcher.
LEMMA Asked ==
  ASSUME CustodyInv, NEW m \in Member, Ask(m)
  PROVE  CustodyInv' /\ UNCHANGED <<rows, keys, invite>>
  <1>1. PICK op \in Ops, key \in Made \cup {None}, whom \in Member \cup {None}, to \in ROLES :
           /\ Dispatch(m, op, key, whom, to)
           /\ op \in {"sheet", "recover", "retire"} => key \in Made
    BY DEF Ask, AskKey, AskSheet, AskRecovery, AskRetirement, AskInvitation, AskRole, Ops, ROLES
  <1>2. UNCHANGED <<rows, keys, invite>>
    BY <1>1 DEF Dispatch
  <1>3. /\ Made' = Made /\ ownersOf' = ownersOf
        /\ flight' = [flight EXCEPT ![m] = [op |-> op, key |-> key, whom |-> whom, role |-> to]]
    BY <1>1, <1>2 DEF Dispatch, rows, keys, Made, ownersOf, membersOf
  <1>4. TypeOK'
    BY <1>2, <1>3 DEF CustodyInv, TypeOK, rows, keys
  <1>5. KeysAreNamed'
    BY <1>1, <1>3 DEF CustodyInv, TypeOK, KeysAreNamed
  <1> QED
    BY <1>2, <1>3, <1>4, <1>5 DEF CustodyInv, AnOwnerRemains

-----------------------------------------------------------------------------
\* One lemma for each handler: the invariant, and for every copy that is gone a reason.
WithAReason ==
    \A w \in wrap \ wrap' :
        \/ standing'[w[2]] = "removed" \/ ~holdsKey(role'[w[2]])
        \/ w[1] \in retired'

LEMMA SaveKeysKeeps ==
  ASSUME CustodyInv, NEW m \in Member, SaveKeys(m)
  PROVE  CustodyInv' /\ WithAReason
  <1> USE DEF CustodyInv
  <1>1. /\ maker' = Append(maker, m) /\ wrap' = wrap \cup {<<Len(maker) + 1, m>>}
        /\ Arrives(m, "setup") /\ Len(maker) < MaxKeys
        /\ UNCHANGED <<standing, role, retired, sheet, invite>>
    BY DEF SaveKeys, addKeyWrapping, rows
  <1>2. /\ maker' \in Seq(Member) /\ Len(maker') = Len(maker) + 1 /\ Len(maker') =< MaxKeys
        /\ Made' = Made \cup {Len(maker) + 1}
    BY <1>1, BoundAssumption DEF TypeOK, Made
  <1>3. flight' \in [Member -> [op : Ops \cup {"none"}, key : Made \cup {None},
                                whom : Member \cup {None}, role : ROLES]]
        /\ \A n \in Member : flight'[n] = IF n = m THEN NoFlight ELSE flight[n]
    BY <1>1, Answered
  <1>4. TypeOK'
    BY <1>1, <1>2, <1>3 DEF TypeOK
  <1>5. KeysAreNamed'
    BY <1>2, <1>3 DEF KeysAreNamed, NoFlight
  <1>6. AnOwnerRemains' /\ WithAReason
    BY <1>1 DEF AnOwnerRemains, WithAReason, ownersOf, membersOf
  <1> QED
    BY <1>4, <1>5, <1>6

LEMMA SaveRecoverySheetKeeps ==
  ASSUME CustodyInv, NEW m \in Member, SaveRecoverySheet(m)
  PROVE  CustodyInv' /\ WithAReason
  <1> USE DEF CustodyInv
  <1>1. /\ Arrives(m, "sheet") /\ sheet' = flight[m].key
        /\ UNCHANGED <<standing, role, maker, retired, wrap, invite>>
    BY DEF SaveRecoverySheet, rows
  <1>2. Made' = Made
    BY <1>1 DEF Made
  <1>3. sheet' \in Made
    BY <1>1, Answered DEF KeysAreNamed
  <1>4. TypeOK' /\ KeysAreNamed'
    BY <1>1, <1>2, <1>3, Answered DEF TypeOK
  <1>5. AnOwnerRemains' /\ WithAReason
    BY <1>1 DEF AnOwnerRemains, WithAReason, ownersOf, membersOf
  <1> QED
    BY <1>4, <1>5

LEMMA RecoverPassphraseKeeps ==
  ASSUME CustodyInv, NEW m \in Member, RecoverPassphrase(m)
  PROVE  CustodyInv' /\ WithAReason
  <1> USE DEF CustodyInv
  <1>1. /\ Arrives(m, "recover")
        /\ UNCHANGED <<standing, role, maker, retired, sheet, invite>>
    BY DEF RecoverPassphrase, rows
  <1>2. Made' = Made
    BY <1>1 DEF Made
  <1>3. wrap \subseteq wrap' /\ wrap' \subseteq Made \X Member
    BY <1>1, Answered DEF RecoverPassphrase, addKeyWrapping, KeysAreNamed, TypeOK
  <1>4. TypeOK' /\ KeysAreNamed'
    BY <1>1, <1>2, <1>3, Answered DEF TypeOK
  <1>5. AnOwnerRemains' /\ WithAReason
    BY <1>1, <1>3 DEF AnOwnerRemains, WithAReason, ownersOf, membersOf
  <1> QED
    BY <1>4, <1>5

LEMMA RetireKeyKeeps ==
  ASSUME CustodyInv, NEW m \in Member, RetireKey(m)
  PROVE  CustodyInv' /\ WithAReason
  <1> USE DEF CustodyInv
  <1>1. /\ Arrives(m, "retire")
        /\ UNCHANGED <<standing, role, maker, sheet, invite>>
        /\ \/ wrap' = {w \in wrap : w[1] # flight[m].key} /\ retired' = retired \cup {flight[m].key}
           \/ UNCHANGED <<wrap, retired>>
    BY DEF RetireKey, rows
  <1>2. Made' = Made
    BY <1>1 DEF Made
  <1>3. flight[m].key \in Made
    BY <1>1, Answered DEF KeysAreNamed
  <1>4. TypeOK' /\ KeysAreNamed'
    BY <1>1, <1>2, <1>3, Answered DEF TypeOK
  <1>5. AnOwnerRemains' /\ WithAReason
    BY <1>1 DEF AnOwnerRemains, WithAReason, ownersOf, membersOf
  <1> QED
    BY <1>4, <1>5

LEMMA CreateInviteKeeps ==
  ASSUME CustodyInv, NEW m \in Member, CreateInvite(m)
  PROVE  CustodyInv' /\ WithAReason
  <1> USE DEF CustodyInv
  <1>1. /\ Arrives(m, "invite")
        /\ UNCHANGED <<standing, role, maker, retired, wrap, sheet>>
    BY DEF CreateInvite, rows, keys
  <1>2. Made' = Made
    BY <1>1 DEF Made
  <1>3. \/ UNCHANGED invite
        \/ \E i \in Invite : invite' = [invite EXCEPT ![i] =
              [state |-> "open", key |-> flight[m].key, role |-> flight[m].role]]
    BY DEF CreateInvite
  <1>4. invite' \in [Invite -> [state : {"none", "open", "used", "closed"},
                                key : Made \cup {None}, role : ROLES]]
    BY <1>1, <1>3, Answered DEF TypeOK
  <1>5. TypeOK' /\ KeysAreNamed'
    BY <1>1, <1>2, <1>4, Answered DEF TypeOK
  <1>6. AnOwnerRemains' /\ WithAReason
    BY <1>1 DEF AnOwnerRemains, WithAReason, ownersOf, membersOf
  <1> QED
    BY <1>5, <1>6

\* An owner who is not the only one is made something less, and another is left.
LEMMA SetRoleKeeps ==
  ASSUME CustodyInv, NEW m \in Member, SetRole(m)
  PROVE  CustodyInv' /\ WithAReason
  <1> USE DEF CustodyInv
  <1> DEFINE n == flight[m].whom  to == flight[m].role
  <1>1. /\ Arrives(m, "role")
        /\ UNCHANGED <<standing, maker, retired, sheet, invite>>
    BY DEF SetRole
  <1>2. Made' = Made
    BY <1>1 DEF Made
  <1>3. CASE UNCHANGED <<role, wrap>>
    BY <1>1, <1>2, <1>3, Answered DEF TypeOK, AnOwnerRemains, WithAReason, ownersOf, membersOf
  <1>4. CASE /\ n \in membersOf
             /\ ~(role[n] = "owner" /\ to # "owner" /\ Cardinality(ownersOf) =< 1)
             /\ role' = [role EXCEPT ![n] = to]
             /\ wrap' = IF holdsKey(to) THEN wrap ELSE wrap \ Copies(n)
    <2>1. n \in Member /\ to \in ROLES
      BY <1>1, <1>4, Answered DEF membersOf
    <2>2. role' \in [Member -> ROLES] /\ wrap' \subseteq wrap
      BY <1>4, <2>1 DEF TypeOK
    <2>3. TypeOK' /\ KeysAreNamed'
      BY <1>1, <1>2, <2>2, Answered DEF TypeOK
    <2>4. AnOwnerRemains'
      <3>1. CASE role[n] = "owner" /\ to # "owner"
        <4>1. PICK o \in ownersOf : o # n
          <5>1. Cardinality({n}) = 1
            BY FS_Singleton
          <5>2. ~(Cardinality(ownersOf) =< 1) /\ ownersOf # {}
            BY <1>4, <3>1 DEF AnOwnerRemains
          <5>3. ownersOf # {n}
            BY <5>1, <5>2
          <5> QED
            BY <5>2, <5>3
        <4>2. o \in ownersOf'
          BY <1>1, <1>4, <4>1 DEF ownersOf, membersOf, TypeOK
        <4> QED
          BY <4>2 DEF AnOwnerRemains
      <3>2. CASE ~(role[n] = "owner" /\ to # "owner")
        <4>1. PICK o \in ownersOf : TRUE
          BY DEF AnOwnerRemains
        <4>2. o \in ownersOf'
          BY <1>1, <1>4, <2>1, <3>2, <4>1 DEF ownersOf, membersOf, TypeOK
        <4> QED
          BY <4>2 DEF AnOwnerRemains
      <3> QED
        BY <3>1, <3>2
    <2>5. WithAReason
      BY <1>4, <2>1 DEF WithAReason, Copies, TypeOK
    <2> QED
      BY <2>3, <2>4, <2>5
  <1> QED
    BY <1>3, <1>4 DEF SetRole

\* Whoever removes a colleague is an owner still, and somebody else.
LEMMA RemoveMemberKeeps ==
  ASSUME CustodyInv, NEW m \in Member, NEW n \in Member, RemoveMember(m, n)
  PROVE  CustodyInv' /\ WithAReason
  <1> USE DEF CustodyInv
  <1>1. /\ m \in ownersOf /\ m # n
        /\ standing' = [standing EXCEPT ![n] = "removed"] /\ wrap' = wrap \ Copies(n)
        /\ UNCHANGED <<role, maker, retired, sheet, invite, flight>>
    BY DEF RemoveMember
  <1>2. Made' = Made
    BY <1>1 DEF Made
  <1>3. TypeOK' /\ KeysAreNamed'
    BY <1>1, <1>2 DEF TypeOK, KeysAreNamed
  <1>4. m \in ownersOf'
    BY <1>1 DEF ownersOf, membersOf, TypeOK
  <1>5. WithAReason
    BY <1>1 DEF WithAReason, Copies, TypeOK
  <1> QED
    BY <1>3, <1>4, <1>5 DEF AnOwnerRemains

LEMMA CloseInviteKeeps ==
  ASSUME CustodyInv, NEW i \in Invite, CloseInvite(i)
  PROVE  CustodyInv' /\ WithAReason
  <1> USE DEF CustodyInv
  <1>1. /\ invite' = [invite EXCEPT ![i].state = "closed"]
        /\ UNCHANGED <<standing, role, maker, retired, wrap, sheet, flight>>
    BY DEF CloseInvite, rows, keys
  <1>2. Made' = Made
    BY <1>1 DEF Made
  <1>3. TypeOK' /\ KeysAreNamed'
    BY <1>1, <1>2 DEF TypeOK, KeysAreNamed
  <1>4. AnOwnerRemains' /\ WithAReason
    BY <1>1 DEF AnOwnerRemains, WithAReason, ownersOf, membersOf
  <1> QED
    BY <1>3, <1>4

\* An invitation lets in somebody who is not a member: no owner's role changes.
LEMMA ClaimKeeps ==
  ASSUME CustodyInv, NEW i \in Invite, NEW n \in Member, Claim(i, n)
  PROVE  CustodyInv' /\ WithAReason
  <1> USE DEF CustodyInv
  <1>1. /\ standing[n] # "member"
        /\ invite' = [invite EXCEPT ![i].state = "used"]
        /\ standing' = [standing EXCEPT ![n] = "member"]
        /\ role' = [role EXCEPT ![n] = invite[i].role]
        /\ UNCHANGED <<maker, retired, sheet, flight>>
    BY DEF Claim
  <1>2. Made' = Made
    BY <1>1 DEF Made
  <1>3. wrap \subseteq wrap' /\ wrap' \subseteq Made \X Member
    BY DEF Claim, addKeyWrapping, TypeOK
  <1>4. TypeOK' /\ KeysAreNamed'
    BY <1>1, <1>2, <1>3 DEF TypeOK, KeysAreNamed
  <1>5. ownersOf \subseteq ownersOf'
    BY <1>1 DEF ownersOf, membersOf, TypeOK
  <1> QED
    BY <1>3, <1>4, <1>5 DEF AnOwnerRemains, WithAReason

LEMMA ReopenKeeps ==
  ASSUME CustodyInv, Reopen
  PROVE  CustodyInv' /\ WithAReason
  <1> USE DEF CustodyInv
  <1>1. /\ wrap' = wrap \cup {<<k, maker[k]>> : k \in Made}
        /\ flight' = [m \in Member |-> NoFlight]
        /\ UNCHANGED <<standing, role, maker, retired, sheet, invite>>
    BY DEF Reopen, rows
  <1>2. Made' = Made
    BY <1>1 DEF Made
  <1>3. \A k \in Made : maker[k] \in Member
    BY DEF TypeOK, Made
  <1>4. NoFlight \in [op : Ops \cup {"none"}, key : Made \cup {None},
                      whom : Member \cup {None}, role : ROLES]
    BY DEF NoFlight, ROLES
  <1>5. TypeOK'
    BY <1>1, <1>2, <1>3, <1>4 DEF TypeOK
  <1>6. KeysAreNamed'
    BY <1>1 DEF KeysAreNamed, NoFlight
  <1>7. AnOwnerRemains' /\ WithAReason
    BY <1>1 DEF AnOwnerRemains, WithAReason, ownersOf, membersOf
  <1> QED
    BY <1>5, <1>6, <1>7

-----------------------------------------------------------------------------
LEMMA NextKeeps ==
  ASSUME CustodyInv, Next
  PROVE  CustodyInv' /\ WithAReason
  <1>1. ASSUME NEW m \in Member, Ask(m) PROVE CustodyInv' /\ WithAReason
    BY <1>1, Asked DEF WithAReason, keys
  <1>2. ASSUME NEW m \in Member, Answer(m) PROVE CustodyInv' /\ WithAReason
    BY <1>2, SaveKeysKeeps, SaveRecoverySheetKeeps, RecoverPassphraseKeeps,
       RetireKeyKeeps, CreateInviteKeeps, SetRoleKeeps DEF Answer
  <1> QED
    BY <1>1, <1>2, RemoveMemberKeeps, CloseInviteKeeps, ClaimKeeps, ReopenKeeps DEF Next

LEMMA StutterKeeps ==
  ASSUME CustodyInv, UNCHANGED vars
  PROVE  CustodyInv'
  BY DEF CustodyInv, TypeOK, KeysAreNamed, AnOwnerRemains, ownersOf, membersOf,
         Made, vars, rows, keys

\* The inductive invariant holds in every state the program reaches.
THEOREM CustodyInvariant == Spec => []CustodyInv
  <1>1. CustodyInv /\ [Next]_vars => CustodyInv'
    BY NextKeeps, StutterKeeps
  <1> QED
    BY InitCustody, <1>1, PTL DEF Spec

\* Every row, copy and request in flight has the type it is declared with: a copy
\* is of a key the practice made, and so is the key of an invitation and the sheet.
THEOREM TypeCorrect == Spec => []TypeOK
  <1>1. CustodyInv => TypeOK
    BY DEF CustodyInv
  <1> QED
    BY CustodyInvariant, <1>1, PTL

\* However many members there are, and whatever they do to each other at once,
\* an owner remains (setRole, removeMember, claimInvite).
THEOREM OwnerAlwaysRemains == Spec => []AnOwnerRemains
  <1>1. CustodyInv => AnOwnerRemains
    BY DEF CustodyInv
  <1> QED
    BY CustodyInvariant, <1>1, PTL

\* No step takes a copy of a key from somebody who stays in a role that has keys,
\* unless the key itself is retired (addKeyWrapping, setRole, retirePracticeKey,
\* keyWrappingsFromKeyColumn).
THEOREM CopiesAreKept == Spec => CopiesGoForAReason
  <1>1. CustodyInv /\ [Next]_vars => [WithAReason]_vars
    BY NextKeeps
  <1>2. [WithAReason]_vars <=>
          [\A w \in wrap \ wrap' :
             \/ standing'[w[2]] = "removed" \/ ~holdsKey(role'[w[2]])
             \/ w[1] \in retired']_vars
    BY DEF WithAReason
  <1> QED
    BY CustodyInvariant, <1>1, <1>2, PTL DEF Spec, CopiesGoForAReason

-----------------------------------------------------------------------------
(* The copies made of a practice.                                              *)

CopyRecord == [at       : Running \cup {"idle", "made", "failed", "restored"},
               kind     : Kinds \cup {"none"},
               rows     : [Document -> Spool .. MaxMoves],
               held     : SUBSET AnyFile, todo : SUBSET AnyFile,
               took     : SUBSET AnyFile, here : SUBSET AnyFile,
               torn     : SUBSET AnyFile,
               manifest : {"none", "backup", "export"}]

\* Only a spool, or the next file of a row that is there, is ever half written.
GrowingIsUnnamed ==
    \A f \in growing : f[2] = Spool \/ (path[f[1]] # Spool /\ f[2] = path[f[1]] + 1)

\* A run read its rows no later than its files, and what was half written when it
\* came by is named by none of them, before or after a restore.
RunsReadBackwards(k) ==
    /\ \A u \in Document : k.rows[u] =< path[u]
    /\ k.at \in {"idle", "open", "snapped"} => k.torn = {}
    /\ \A f \in k.torn : f[2] # 0 /\ f \notin Named(k.rows)

\* While an export reads, the rows stand still and name what it holds.
ExportsHoldStill(k) ==
    k.kind = "export" =>
        /\ k.torn = {}
        /\ k.at \in Reading => k.held = Named(path) /\ k.todo \cup k.took \subseteq k.held
        /\ k.at \in {"snapped", "copying"} => k.rows = path
        /\ k.at \in {"stripping", "made"} => k.took = Named(k.rows)

\* The inductive invariant.
CopiesInv ==
    /\ CopiesTypeOK
    /\ GrowingIsUnnamed
    /\ \A c \in Copy : RunsReadBackwards(copy[c]) /\ ExportsHoldStill(copy[c])

-----------------------------------------------------------------------------
\* The numbers of files.
LEMMA Numbers == /\ MaxMoves \in Nat /\ Spool = -1 /\ Spool \in Spool .. MaxMoves /\ 0 \in Spool .. MaxMoves
  BY CopyBounds DEF Spool

LEMMA AnyFilesAreFinite == IsFiniteSet(AnyFile)
  <1>1. IsFiniteSet(Spool .. MaxMoves)
    BY Numbers, FS_Interval
  <1> QED
    BY <1>1, DocumentsAssumption, FS_Product DEF AnyFile

LEMMA NamedAreFiles ==
  ASSUME NEW names \in [Document -> Spool .. MaxMoves]
  PROVE  Named(names) \subseteq AnyFile
  BY DEF Named, Recorded, AnyFile

LEMMA FreshIsTyped == Fresh \in CopyRecord
  BY Numbers DEF Fresh, CopyRecord

LEMMA InitCopies == CopiesInit => CopiesInv
  <1> SUFFICES ASSUME CopiesInit PROVE CopiesInv
    OBVIOUS
  <1>1. CopiesTypeOK
    BY Numbers, FreshIsTyped, CopyBounds DEF CopiesInit, CopiesTypeOK, CopyRecord
  <1>2. GrowingIsUnnamed
    BY DEF CopiesInit, GrowingIsUnnamed
  <1>3. \A c \in Copy : RunsReadBackwards(copy[c]) /\ ExportsHoldStill(copy[c])
    BY Numbers DEF CopiesInit, Fresh, RunsReadBackwards, ExportsHoldStill
  <1> QED
    BY <1>1, <1>2, <1>3 DEF CopiesInv

-----------------------------------------------------------------------------
(* The live practice. *)

\* Rows stand still: nothing a run has read becomes wrong.
LEMMA RowsStandStill ==
  ASSUME CopiesInv, UNCHANGED <<path, copy, losses>>,
         growing' \subseteq files', files' \subseteq AnyFile, GrowingIsUnnamed'
  PROVE  CopiesInv'
  BY DEF CopiesInv, CopiesTypeOK, RunsReadBackwards, ExportsHoldStill, Named, Recorded

\* A row moves on, which it does when no export reads.
LEMMA RowMovesOn ==
  ASSUME CopiesInv, UNCHANGED <<files, copy, losses>>, Unlocked,
         NEW u \in Document, NEW n \in Spool .. MaxMoves, n >= path[u],
         path' = [path EXCEPT ![u] = n],
         growing' \subseteq growing, GrowingIsUnnamed'
  PROVE  CopiesInv'
  <1> USE DEF CopiesInv
  <1>1. CopiesTypeOK'
    BY DEF CopiesTypeOK
  <1>2. ASSUME NEW c \in Copy PROVE RunsReadBackwards(copy[c])' /\ ExportsHoldStill(copy[c])'
    <2>1. \A d \in Document : path[d] =< path'[d]
      BY Numbers DEF CopiesTypeOK
    <2>2. copy[c].rows \in [Document -> Spool .. MaxMoves]
      BY DEF CopiesTypeOK
    <2>3. RunsReadBackwards(copy[c])'
      <3>1. \A d \in Document : copy[c].rows[d] =< path'[d]
        BY <2>1, <2>2, Numbers DEF RunsReadBackwards, CopiesTypeOK
      <3> QED
        BY <3>1 DEF RunsReadBackwards, Named, Recorded
    <2>4. ExportsHoldStill(copy[c])'
      BY DEF ExportsHoldStill, Unlocked, Reading, Named, Recorded
    <2> QED
      BY <2>3, <2>4
  <1> QED
    BY <1>1, <1>2

LEMMA ArriveKeeps ==
  ASSUME CopiesInv, NEW u \in Document, Arrive(u)
  PROVE  CopiesInv'
  BY RowsStandStill, Numbers DEF Arrive, CopiesInv, CopiesTypeOK, GrowingIsUnnamed, AnyFile

LEMMA PlaceKeeps ==
  ASSUME CopiesInv, NEW u \in Document, Place(u)
  PROVE  CopiesInv'
  BY RowsStandStill, Numbers DEF Place, CopiesInv, CopiesTypeOK, GrowingIsUnnamed, AnyFile

LEMMA ResealKeeps ==
  ASSUME CopiesInv, NEW u \in Document, Reseal(u)
  PROVE  CopiesInv'
  <1>1. path[u] + 1 \in Spool .. MaxMoves /\ path[u] # Spool
    BY Numbers DEF Reseal, CopiesInv, CopiesTypeOK
  <1> QED
    BY <1>1, RowsStandStill DEF Reseal, CopiesInv, CopiesTypeOK, GrowingIsUnnamed, AnyFile

LEMMA UnlinkKeeps ==
  ASSUME CopiesInv, NEW u \in Document, Unlink(u)
  PROVE  CopiesInv'
  <1>1. PICK n \in 0 .. path[u] - 1 : <<u, n>> \in files /\ files' = files \ {<<u, n>>}
    BY DEF Unlink
  <1>2. <<u, n>> \notin growing
    BY <1>1, Numbers DEF CopiesInv, CopiesTypeOK, GrowingIsUnnamed
  <1> QED
    BY <1>1, <1>2, RowsStandStill DEF Unlink, CopiesInv, CopiesTypeOK, GrowingIsUnnamed

LEMMA RecordKeeps ==
  ASSUME CopiesInv, NEW u \in Document, Record(u)
  PROVE  CopiesInv'
  <1>1. 0 >= path[u] /\ path' = [path EXCEPT ![u] = 0] /\ growing' = growing
    BY Numbers DEF Record
  <1>2. GrowingIsUnnamed'
    BY <1>1, Numbers DEF Record, CopiesInv, CopiesTypeOK, GrowingIsUnnamed, AnyFile
  <1> QED
    BY <1>1, <1>2, Numbers, RowMovesOn DEF Record

LEMMA ReplaceKeeps ==
  ASSUME CopiesInv, NEW u \in Document, Replace(u)
  PROVE  CopiesInv'
  <1>1. /\ path[u] + 1 \in Spool .. MaxMoves /\ path[u] \in Spool .. MaxMoves
        /\ path' = [path EXCEPT ![u] = path[u] + 1]
    BY Numbers DEF Replace, CopiesInv, CopiesTypeOK, AnyFile
  <1>2. growing' = growing \ {<<u, path[u] + 1>>}
    BY DEF Replace
  <1>3. GrowingIsUnnamed'
    BY <1>1, <1>2, Numbers DEF CopiesInv, CopiesTypeOK, GrowingIsUnnamed, AnyFile
  <1> DEFINE n == path[u] + 1
  <1>4. n \in Spool .. MaxMoves /\ n >= path[u] /\ path' = [path EXCEPT ![u] = n]
    BY <1>1, Numbers
  <1>5. Unlocked /\ UNCHANGED <<files, copy, losses>> /\ growing' \subseteq growing
    BY <1>2 DEF Replace
  <1> HIDE DEF n
  <1> QED
    BY <1>3, <1>4, <1>5, RowMovesOn

-----------------------------------------------------------------------------
(* The tools. *)

\* One run goes on, and the practice and the other runs stand still.
LEMMA RunGoesOn ==
  ASSUME CopiesInv, UNCHANGED live, losses' \in 0 .. MaxLosses,
         NEW c \in Copy, NEW new \in CopyRecord, copy' = [copy EXCEPT ![c] = new],
         RunsReadBackwards(new), ExportsHoldStill(new)
  PROVE  CopiesInv'
  <1>1. CopiesTypeOK' /\ GrowingIsUnnamed'
    BY DEF CopiesInv, CopiesTypeOK, GrowingIsUnnamed, live, CopyRecord
  <1>2. ASSUME NEW d \in Copy PROVE RunsReadBackwards(copy[d])' /\ ExportsHoldStill(copy[d])'
    <2>1. copy'[d] = IF d = c THEN new ELSE copy[d]
      BY DEF CopiesInv, CopiesTypeOK
    <2>2. RunsReadBackwards(copy'[d]) /\ ExportsHoldStill(copy'[d])
      BY <2>1 DEF CopiesInv
    <2> QED
      BY <2>2 DEF RunsReadBackwards, ExportsHoldStill, live
  <1> QED
    BY <1>1, <1>2 DEF CopiesInv

LEMMA RunIsTyped ==
  ASSUME CopiesInv, NEW c \in Copy
  PROVE  copy[c] \in CopyRecord /\ RunsReadBackwards(copy[c]) /\ ExportsHoldStill(copy[c])
  BY DEF CopiesInv, CopiesTypeOK, CopyRecord

LEMMA StartKeeps ==
  ASSUME CopiesInv, NEW c \in Copy, NEW kind \in Kinds, Start(c, kind)
  PROVE  CopiesInv'
  <1> DEFINE new == [Fresh EXCEPT !.at = "open", !.kind = kind, !.held = Named(path)]
  <1>1. path \in [Document -> Spool .. MaxMoves] /\ Named(path) \subseteq AnyFile
    BY NamedAreFiles DEF CopiesInv, CopiesTypeOK
  <1>2. /\ new.at = "open" /\ new.kind = kind /\ new.held = Named(path) /\ new.took = {}
        /\ new.rows = [u \in Document |-> Spool] /\ new.todo = {} /\ new.torn = {}
    BY DEF Fresh
  <1>3. new \in CopyRecord
    <2> DEFINE opened == [Fresh EXCEPT !.at = "open"]
               kindly == [opened EXCEPT !.kind = kind]
    <2>1. opened \in CopyRecord
      BY FreshIsTyped DEF CopyRecord, Running, Reading
    <2>2. kindly \in CopyRecord
      BY <2>1 DEF CopyRecord
    <2>3. [kindly EXCEPT !.held = Named(path)] \in CopyRecord
      BY <1>1, <2>2 DEF CopyRecord
    <2>4. new = [kindly EXCEPT !.held = Named(path)]
      BY DEF Fresh
    <2> QED
      BY <2>3, <2>4
  <1> HIDE DEF new
  <1>4. RunsReadBackwards(new) /\ ExportsHoldStill(new)
    BY <1>1, <1>2, Numbers DEF RunsReadBackwards, ExportsHoldStill
  <1>5. UNCHANGED live /\ losses' \in 0 .. MaxLosses /\ copy' = [copy EXCEPT ![c] = new]
    BY DEF Start, GoesOn, CopiesInv, CopiesTypeOK, new
  <1> QED
    BY <1>3, <1>4, <1>5, RunGoesOn

LEMMA VacuumIntoKeeps ==
  ASSUME CopiesInv, NEW c \in Copy, VacuumInto(c)
  PROVE  CopiesInv'
  <1> DEFINE k == copy[c]  new == [k EXCEPT !.at = "snapped", !.rows = path]
  <1>1. /\ k \in CopyRecord /\ RunsReadBackwards(k) /\ ExportsHoldStill(k)
        /\ path \in [Document -> Spool .. MaxMoves]
    BY RunIsTyped DEF CopiesInv, CopiesTypeOK
  <1>2. k.at = "open" /\ copy' = [copy EXCEPT ![c] = new]
    BY DEF VacuumInto, GoesOn
  <1>3. new \in CopyRecord
    <2>1. [k EXCEPT !.at = "snapped"] \in CopyRecord
      BY <1>1 DEF CopyRecord, Running, Reading
    <2>2. new = [[k EXCEPT !.at = "snapped"] EXCEPT !.rows = path]
      BY <1>1 DEF CopyRecord
    <2> QED
      BY <1>1, <2>1, <2>2 DEF CopyRecord
  <1>0. /\ new.at = "snapped" /\ new.rows = path /\ new.kind = k.kind /\ new.held = k.held
        /\ new.todo = k.todo /\ new.took = k.took /\ new.torn = k.torn
    BY <1>1 DEF CopyRecord
  <1> HIDE DEF new
  <1>4. RunsReadBackwards(new)
    BY <1>0, <1>1, <1>2, Numbers DEF RunsReadBackwards
  <1>5. ExportsHoldStill(new)
    BY <1>0, <1>1, <1>2 DEF ExportsHoldStill, Reading
  <1>6. UNCHANGED live /\ losses' \in 0 .. MaxLosses
    BY DEF VacuumInto, CopiesInv, CopiesTypeOK
  <1> QED
    BY <1>2, <1>3, <1>4, <1>5, <1>6, RunGoesOn

LEMMA ListKeeps ==
  ASSUME CopiesInv, NEW c \in Copy, List(c)
  PROVE  CopiesInv'
  <1> DEFINE k    == copy[c]
             todo == IF k.kind = "export" THEN files \cap k.held ELSE files
             new  == [k EXCEPT !.at = "copying", !.todo = todo]
  <1>1. /\ k \in CopyRecord /\ RunsReadBackwards(k) /\ ExportsHoldStill(k)
        /\ todo \subseteq AnyFile
    BY RunIsTyped DEF CopiesInv, CopiesTypeOK
  <1>2. k.at = "snapped" /\ copy' = [copy EXCEPT ![c] = new]
    BY DEF List, GoesOn
  <1>3. new \in CopyRecord
    BY <1>1 DEF CopyRecord, Running, Reading
  <1>4. RunsReadBackwards(new)
    BY <1>1, <1>2 DEF CopyRecord, RunsReadBackwards
  <1>5. ExportsHoldStill(new)
    BY <1>1, <1>2 DEF CopyRecord, ExportsHoldStill, Reading
  <1>6. UNCHANGED live /\ losses' \in 0 .. MaxLosses
    BY DEF List, CopiesInv, CopiesTypeOK
  <1> HIDE DEF new
  <1> QED
    BY <1>2, <1>3, <1>4, <1>5, <1>6, RunGoesOn

\* What was half written when it was copied has a name no row had by then.
LEMMA TornIsUnnamed ==
  ASSUME CopiesInv, NEW f \in growing, NEW names \in [Document -> Spool .. MaxMoves],
         \A u \in Document : names[u] =< path[u]
  PROVE  f[2] # 0 /\ f \notin Named(names)
  <1>1. f \in AnyFile /\ path \in [Document -> Spool .. MaxMoves]
    BY DEF CopiesInv, CopiesTypeOK
  <1>2. f[1] \in Document /\ path[f[1]] \in Spool .. MaxMoves /\ names[f[1]] \in Spool .. MaxMoves
    BY <1>1 DEF AnyFile
  <1>3. f[2] = Spool \/ (path[f[1]] # Spool /\ f[2] = path[f[1]] + 1)
    BY DEF CopiesInv, GrowingIsUnnamed
  <1>4. f[2] # 0
    BY <1>2, <1>3, Numbers
  <1>5. ASSUME f \in Named(names) PROVE FALSE
    <2>1. f[2] = names[f[1]] /\ names[f[1]] # Spool
      BY <1>5 DEF Named, Recorded
    <2> QED
      BY <1>2, <1>3, <2>1, Numbers
  <1> QED
    BY <1>4, <1>5

LEMMA CopyFileKeeps ==
  ASSUME CopiesInv, NEW c \in Copy, CopyFile(c)
  PROVE  CopiesInv'
  <1> DEFINE k       == copy[c]
             next(f) == [k EXCEPT !.todo = @ \ {f}, !.took = @ \cup {f}, !.here = @ \cup {f}]
             torn(f) == [next(f) EXCEPT !.torn = @ \cup {f}]
             failed  == [k EXCEPT !.at = "failed"]
  <1>1. /\ k \in CopyRecord /\ RunsReadBackwards(k) /\ ExportsHoldStill(k) /\ k.at = "copying"
        /\ UNCHANGED live /\ losses' \in 0 .. MaxLosses
    BY RunIsTyped DEF CopyFile, GoesOn, CopiesInv, CopiesTypeOK
  <1>2. PICK f \in k.todo :
           \/ f \in files /\ copy' = [copy EXCEPT ![c] = next(f)]
           \/ f \in growing /\ copy' = [copy EXCEPT ![c] = torn(f)]
           \/ copy' = [copy EXCEPT ![c] = failed]
    BY DEF CopyFile, GoesOn
  <1>3. f \in AnyFile
    BY <1>1 DEF CopyRecord
  <1>4. /\ next(f) \in CopyRecord /\ next(f).at = "copying" /\ next(f).kind = k.kind
        /\ next(f).rows = k.rows /\ next(f).held = k.held /\ next(f).torn = k.torn
        /\ next(f).todo = k.todo \ {f} /\ next(f).took = k.took \cup {f}
    <2> DEFINE one == [k EXCEPT !.todo = @ \ {f}]
               two == [one EXCEPT !.took = @ \cup {f}]
    <2>1. one \in CopyRecord
      BY <1>1 DEF CopyRecord
    <2>2. two \in CopyRecord
      BY <1>3, <2>1 DEF CopyRecord
    <2>3. [two EXCEPT !.here = @ \cup {f}] \in CopyRecord
      BY <1>3, <2>2 DEF CopyRecord
    <2>4. next(f) = [two EXCEPT !.here = @ \cup {f}]
      BY <1>1 DEF CopyRecord
    <2>5. /\ next(f).at = "copying" /\ next(f).kind = k.kind
          /\ next(f).rows = k.rows /\ next(f).held = k.held /\ next(f).torn = k.torn
          /\ next(f).todo = k.todo \ {f} /\ next(f).took = k.took \cup {f}
      BY <1>1 DEF CopyRecord
    <2> QED
      BY <2>3, <2>4, <2>5
  <1> HIDE DEF next
  <1>5. RunsReadBackwards(next(f)) /\ ExportsHoldStill(next(f))
    BY <1>1, <1>2, <1>4 DEF RunsReadBackwards, ExportsHoldStill, Reading
  <1>6. CASE f \in files /\ copy' = [copy EXCEPT ![c] = next(f)]
    BY <1>1, <1>4, <1>5, <1>6, RunGoesOn
  <1>7. CASE f \in growing /\ copy' = [copy EXCEPT ![c] = torn(f)]
    <2>1. /\ torn(f) \in CopyRecord /\ torn(f).at = "copying" /\ torn(f).kind = k.kind
          /\ torn(f).rows = k.rows /\ torn(f).held = k.held /\ torn(f).torn = k.torn \cup {f}
          /\ torn(f).todo = next(f).todo /\ torn(f).took = next(f).took
      BY <1>3, <1>4 DEF CopyRecord
    <2>2. k.rows \in [Document -> Spool .. MaxMoves] /\ \A u \in Document : k.rows[u] =< path[u]
      BY <1>1 DEF CopyRecord, RunsReadBackwards
    <2>3. f[2] # 0 /\ f \notin Named(k.rows)
      BY <1>7, <2>2, TornIsUnnamed
    <2>4. k.kind # "export"
      <3> SUFFICES ASSUME k.kind = "export" PROVE FALSE
        OBVIOUS
      <3>1. f \in Named(path)
        BY <1>1, <1>2 DEF ExportsHoldStill, Reading
      <3>2. k.rows = path
        BY <1>1 DEF ExportsHoldStill
      <3> QED
        BY <2>3, <3>1, <3>2
    <2> HIDE DEF torn
    <2>5. RunsReadBackwards(torn(f)) /\ ExportsHoldStill(torn(f))
      BY <1>1, <2>1, <2>2, <2>3, <2>4 DEF RunsReadBackwards, ExportsHoldStill
    <2> QED
      BY <1>1, <1>7, <2>1, <2>5, RunGoesOn
  <1>8. CASE copy' = [copy EXCEPT ![c] = failed]
    <2>1. /\ failed \in CopyRecord /\ failed.at = "failed" /\ failed.kind = k.kind
          /\ failed.rows = k.rows /\ failed.torn = k.torn
      BY <1>1 DEF CopyRecord
    <2> HIDE DEF failed
    <2>2. RunsReadBackwards(failed) /\ ExportsHoldStill(failed)
      BY <1>1, <2>1 DEF RunsReadBackwards, ExportsHoldStill, Reading
    <2> QED
      BY <1>1, <1>8, <2>1, <2>2, RunGoesOn
  <1> QED
    BY <1>2, <1>6, <1>7, <1>8

\* An export that copied as many files as it held copied those.
LEMMA DescribeKeeps ==
  ASSUME CopiesInv, NEW c \in Copy, Describe(c)
  PROVE  CopiesInv'
  <1> DEFINE k    == copy[c]
             same == Cardinality(k.took) = Cardinality(k.held)
             at   == IF k.kind # "export" THEN "made" ELSE IF same THEN "stripping" ELSE "failed"
             new  == [k EXCEPT !.manifest = "backup", !.at = at]
  <1>1. /\ k \in CopyRecord /\ RunsReadBackwards(k) /\ ExportsHoldStill(k) /\ k.at = "copying"
        /\ UNCHANGED live /\ losses' \in 0 .. MaxLosses
        /\ copy' = [copy EXCEPT ![c] = new]
    BY RunIsTyped DEF Describe, GoesOn, CopiesInv, CopiesTypeOK
  <1>2. at \in {"made", "stripping", "failed"} /\ (k.kind = "export" => at # "made" /\ (at = "stripping" => same))
    OBVIOUS
  <1> HIDE DEF at, same
  <1>3. /\ new \in CopyRecord /\ new.at = at /\ new.kind = k.kind /\ new.rows = k.rows
        /\ new.took = k.took /\ new.torn = k.torn
    <2> DEFINE described == [k EXCEPT !.manifest = "backup"]
    <2>1. described \in CopyRecord
      BY <1>1 DEF CopyRecord
    <2>2. [described EXCEPT !.at = at] \in CopyRecord
      BY <1>2, <2>1 DEF CopyRecord, Running
    <2>3. new = [described EXCEPT !.at = at]
      BY <1>1 DEF CopyRecord
    <2>4. /\ new.at = at /\ new.kind = k.kind /\ new.rows = k.rows
          /\ new.took = k.took /\ new.torn = k.torn
      BY <1>1 DEF CopyRecord
    <2> QED
      BY <2>2, <2>3, <2>4
  <1> HIDE DEF new
  <1>4. RunsReadBackwards(new)
    BY <1>1, <1>2, <1>3 DEF RunsReadBackwards
  <1>5. ASSUME k.kind = "export", at = "stripping" PROVE k.took = Named(k.rows)
    <2>1. k.held = Named(k.rows) /\ k.took \subseteq k.held
      BY <1>1, <1>5 DEF ExportsHoldStill, Reading
    <2>2. IsFiniteSet(k.held)
      BY <1>1, AnyFilesAreFinite, FS_Subset DEF CopyRecord
    <2>3. Cardinality(k.held) = Cardinality(k.took)
      BY <1>2, <1>5 DEF same
    <2> QED
      BY <2>1, <2>2, <2>3, FS_Subset
  <1>6. ExportsHoldStill(new)
    BY <1>1, <1>2, <1>3, <1>5 DEF ExportsHoldStill, Reading
  <1> QED
    BY <1>1, <1>3, <1>4, <1>6, RunGoesOn

LEMMA SealKeeps ==
  ASSUME CopiesInv, NEW c \in Copy, Seal(c)
  PROVE  CopiesInv'
  <1> DEFINE k   == copy[c]
             new == [k EXCEPT !.at = "made", !.manifest = "export"]
  <1>1. /\ k \in CopyRecord /\ RunsReadBackwards(k) /\ ExportsHoldStill(k) /\ k.at = "stripping"
        /\ UNCHANGED live /\ losses' \in 0 .. MaxLosses
        /\ copy' = [copy EXCEPT ![c] = new]
    BY RunIsTyped DEF Seal, GoesOn, CopiesInv, CopiesTypeOK
  <1>2. /\ new \in CopyRecord /\ new.at = "made" /\ new.kind = k.kind /\ new.rows = k.rows
        /\ new.took = k.took /\ new.torn = k.torn
    <2> DEFINE made == [k EXCEPT !.at = "made"]
    <2>1. made \in CopyRecord
      BY <1>1 DEF CopyRecord
    <2>2. [made EXCEPT !.manifest = "export"] \in CopyRecord
      BY <2>1 DEF CopyRecord
    <2>3. new = [made EXCEPT !.manifest = "export"]
      BY <1>1 DEF CopyRecord
    <2>4. /\ new.at = "made" /\ new.kind = k.kind /\ new.rows = k.rows
          /\ new.took = k.took /\ new.torn = k.torn
      BY <1>1 DEF CopyRecord
    <2> QED
      BY <2>2, <2>3, <2>4
  <1> HIDE DEF new
  <1>3. RunsReadBackwards(new) /\ ExportsHoldStill(new)
    BY <1>1, <1>2 DEF RunsReadBackwards, ExportsHoldStill, Reading
  <1> QED
    BY <1>1, <1>2, <1>3, RunGoesOn

LEMMA CrashKeeps ==
  ASSUME CopiesInv, NEW c \in Copy, Crash(c)
  PROVE  CopiesInv'
  <1> DEFINE k   == copy[c]
             new == [k EXCEPT !.at = "failed"]
  <1>1. /\ k \in CopyRecord /\ RunsReadBackwards(k) /\ ExportsHoldStill(k)
        /\ UNCHANGED live /\ losses' \in 0 .. MaxLosses
        /\ copy' = [copy EXCEPT ![c] = new]
    BY RunIsTyped DEF Crash, GoesOn, CopiesInv, CopiesTypeOK
  <1>2. /\ new \in CopyRecord /\ new.at = "failed" /\ new.kind = k.kind /\ new.rows = k.rows
        /\ new.torn = k.torn
    BY <1>1 DEF CopyRecord
  <1> HIDE DEF new
  <1>3. RunsReadBackwards(new) /\ ExportsHoldStill(new)
    BY <1>1, <1>2 DEF RunsReadBackwards, ExportsHoldStill, Reading
  <1> QED
    BY <1>1, <1>2, <1>3, RunGoesOn

LEMMA LoseKeeps ==
  ASSUME CopiesInv, NEW c \in Copy, Lose(c)
  PROVE  CopiesInv'
  <1> DEFINE k      == copy[c]
             new(f) == [k EXCEPT !.here = @ \ {f}]
  <1>1. /\ k \in CopyRecord /\ RunsReadBackwards(k) /\ ExportsHoldStill(k)
        /\ UNCHANGED live /\ losses' \in 0 .. MaxLosses
    BY RunIsTyped, CopyBounds DEF Lose, CopiesInv, CopiesTypeOK
  <1>2. PICK f \in k.here : copy' = [copy EXCEPT ![c] = new(f)]
    BY DEF Lose, GoesOn
  <1>3. /\ new(f) \in CopyRecord /\ new(f).at = k.at /\ new(f).kind = k.kind /\ new(f).rows = k.rows
        /\ new(f).took = k.took /\ new(f).torn = k.torn /\ new(f).todo = k.todo /\ new(f).held = k.held
    BY <1>1 DEF CopyRecord
  <1> HIDE DEF new
  <1>4. RunsReadBackwards(new(f)) /\ ExportsHoldStill(new(f))
    BY <1>1, <1>3 DEF RunsReadBackwards, ExportsHoldStill
  <1> QED
    BY <1>1, <1>2, <1>3, <1>4, RunGoesOn

\* The names a restore gives are the uploads' own, and none of those was torn.
LEMMA RestoreKeeps ==
  ASSUME CopiesInv, NEW c \in Copy, Restore(c)
  PROVE  CopiesInv'
  <1> DEFINE k    == copy[c]
             names == [u \in Document |-> IF k.rows[u] = Spool THEN Spool ELSE 0]
             new  == [k EXCEPT !.at = "restored", !.rows = names]
  <1>1. /\ k \in CopyRecord /\ RunsReadBackwards(k) /\ ExportsHoldStill(k)
        /\ UNCHANGED live /\ losses' \in 0 .. MaxLosses
    BY RunIsTyped DEF Restore, CopiesInv, CopiesTypeOK
  <1>2. copy' = [copy EXCEPT ![c] = new]
    BY DEF Restore, GoesOn
  <1>3. names \in [Document -> Spool .. MaxMoves]
    BY Numbers
  <1>4. /\ new \in CopyRecord /\ new.at = "restored" /\ new.kind = k.kind /\ new.rows = names
        /\ new.torn = k.torn
    <2> DEFINE restored == [k EXCEPT !.at = "restored"]
    <2> HIDE DEF names
    <2>1. restored \in CopyRecord
      BY <1>1 DEF CopyRecord
    <2>2. [restored EXCEPT !.rows = names] \in CopyRecord
      BY <1>3, <2>1 DEF CopyRecord
    <2>3. new = [restored EXCEPT !.rows = names]
      BY <1>1 DEF CopyRecord
    <2>4. /\ new.at = "restored" /\ new.kind = k.kind /\ new.rows = names /\ new.torn = k.torn
      BY <1>1 DEF CopyRecord
    <2> QED
      BY <2>2, <2>3, <2>4
  <1>5. \A u \in Document : names[u] =< path[u]
    <2> SUFFICES ASSUME NEW u \in Document PROVE names[u] =< path[u]
      OBVIOUS
    <2>1. /\ k.rows[u] \in Spool .. MaxMoves /\ path[u] \in Spool .. MaxMoves /\ k.rows[u] =< path[u]
      BY <1>1 DEF CopyRecord, RunsReadBackwards, CopiesInv, CopiesTypeOK
    <2> QED
      BY <2>1, Numbers
  <1>6. \A f \in k.torn : f[2] # 0 /\ f \notin Named(names)
    <2> SUFFICES ASSUME NEW f \in k.torn, f \in Named(names) PROVE FALSE
      BY <1>1 DEF RunsReadBackwards
    <2>1. f[2] # 0
      BY <1>1 DEF RunsReadBackwards
    <2>2. PICK u \in Document : f = <<u, names[u]>> /\ names[u] # Spool
      BY DEF Named, Recorded
    <2>3. names[u] = 0
      BY <2>2
    <2> QED
      BY <2>1, <2>2, <2>3
  <1> HIDE DEF new, names
  <1>7. RunsReadBackwards(new) /\ ExportsHoldStill(new)
    BY <1>1, <1>4, <1>5, <1>6 DEF RunsReadBackwards, ExportsHoldStill, Reading
  <1> QED
    BY <1>1, <1>2, <1>4, <1>7, RunGoesOn

-----------------------------------------------------------------------------
LEMMA CopiesNextKeeps ==
  ASSUME CopiesInv, CopiesNext
  PROVE  CopiesInv'
  BY ArriveKeeps, PlaceKeeps, RecordKeeps, ResealKeeps, ReplaceKeeps, UnlinkKeeps,
     StartKeeps, VacuumIntoKeeps, ListKeeps, CopyFileKeeps, DescribeKeeps, SealKeeps,
     CrashKeeps, LoseKeeps, RestoreKeeps DEF CopiesNext

LEMMA CopiesStutter ==
  ASSUME CopiesInv, UNCHANGED copiesVars
  PROVE  CopiesInv'
  BY DEF CopiesInv, CopiesTypeOK, GrowingIsUnnamed, RunsReadBackwards, ExportsHoldStill,
         Named, Recorded, copiesVars, live

\* The inductive invariant holds in every state the practice and the tools reach.
THEOREM CopiesInvariant == CopiesSpec => []CopiesInv
  <1>1. CopiesInv /\ [CopiesNext]_copiesVars => CopiesInv'
    BY CopiesNextKeeps, CopiesStutter
  <1> QED
    BY InitCopies, <1>1, PTL DEF CopiesSpec

\* However many documents arrive and are sealed anew while a backup is made, and
\* whatever is lost from it since: when verifyBackup accepts it, every document its
\* database names is there, complete (backup-lib.mjs, takeBackup and verifyBackup).
THEOREM AcceptedCopiesAreWhole == CopiesSpec => []VerifiedIsWhole
  <1>1. CopiesInv => VerifiedIsWhole
    BY DEF CopiesInv, RunsReadBackwards, VerifiedIsWhole, BackupVerifies, Intact
  <1> QED
    BY CopiesInvariant, <1>1, PTL

\* A finished export has the documents of one moment and no others, because it holds
\* the writer lock from before its snapshot until its last copy and compares the
\* numbers of files (practice-export.js, createPracticeExport).
THEOREM ExportsAreWhole == CopiesSpec => []ExportIsWhole
  <1>1. CopiesInv => ExportIsWhole
    BY DEF CopiesInv, ExportsHoldStill, ExportIsWhole
  <1> QED
    BY CopiesInvariant, <1>1, PTL

-----------------------------------------------------------------------------
(* What a client is told is there: ClientPage.                                 *)

Batches == [at : {"idle", "sealing", "sending"}, files : Seq(File), todo : Seq(File)]
OnWire  == [press : Press, file : File, answer : {"none", "stored", "refused"}, visit : Nat]

ClientTypes ==
  /\ picked \in Seq(File)
  /\ press \in [Press -> Batches]
  /\ wire \subseteq OnWire
  /\ stored \in [File -> Nat]
  /\ visit \in Nat \ {0} /\ claimed \subseteq File

\* A batch goes on with what is not stored yet.
BatchIsSound(q) ==
  q.at # "idle" => /\ q.todo # <<>>
                   /\ \A f \in Chosen(q.files) : f \in Chosen(q.todo) \/ stored[f] > 0

\* A request of this visit is the one its press waits for; no visit sees a later one's.
WireIsSound ==
  /\ \A w \in wire : w.visit =< visit
  /\ \A w \in wire : w.visit = visit =>
        /\ press[w.press].at = "sending" /\ w.file = Head(press[w.press].todo)
        /\ w.answer = "stored" => stored[w.file] > 0
  /\ \A v, w \in wire : v.visit = visit /\ w.visit = visit /\ v.press = w.press => v = w

ClientInv ==
  /\ ClientTypes
  /\ \A p \in Press : BatchIsSound(press[p])
  /\ WireIsSound
  /\ ReloadMeansStored

LEMMA HeadAndTail ==
  ASSUME NEW s \in Seq(File), s # <<>>
  PROVE  /\ Head(s) \in File /\ Tail(s) \in Seq(File)
         /\ \A f \in Chosen(s) : f = Head(s) \/ f \in Chosen(Tail(s))
         /\ Len(s) > 1 => Tail(s) # <<>>
         /\ Len(s) =< 1 => \A f \in Chosen(s) : f = Head(s)
<1>1. PICK n \in Nat : n = Len(s) /\ n > 0  OBVIOUS
<1>2. /\ Head(s) = s[1] /\ Tail(s) \in Seq(File) /\ Len(Tail(s)) = n - 1
      /\ \A i \in 1 .. n - 1 : Tail(s)[i] = s[i + 1]
      /\ DOMAIN s = 1 .. n /\ s[1] \in File
  BY <1>1
<1>3. DOMAIN Tail(s) = 1 .. n - 1  BY <1>1, <1>2
<1>4. ASSUME NEW i \in 1 .. n, i # 1 PROVE s[i] \in Chosen(Tail(s))
  <2>1. i - 1 \in 1 .. n - 1 /\ Tail(s)[i - 1] = s[i]  BY <1>1, <1>2, <1>4
  <2> QED  BY <1>3, <2>1 DEF Chosen
<1>5. \A f \in Chosen(s) : f = s[1] \/ f \in Chosen(Tail(s))  BY <1>2, <1>4 DEF Chosen
<1>6. n =< 1 => \A f \in Chosen(s) : f = s[1]  BY <1>1, <1>2 DEF Chosen
<1>7. n > 1 => Tail(s) # <<>>
  <2> SUFFICES ASSUME n > 1, Tail(s) = <<>> PROVE FALSE  OBVIOUS
  <2>1. \A t : t = <<>> => Len(t) = 0  OBVIOUS
  <2>2. Len(Tail(s)) = 0  BY <2>1
  <2>3. Len(Tail(s)) = n - 1  BY <1>2
  <2> QED  BY <1>1, <2>2, <2>3
<1> QED  BY <1>1, <1>2, <1>5, <1>6, <1>7

\* What the page does on its own, the network apart.
LEMMA BatchChanges ==
  ASSUME ClientInv, NEW p \in Press, NEW q \in Batches, BatchIsSound(q),
         press' = [press EXCEPT ![p] = q], picked' = picked,
         wire' \subseteq wire,
         \A w \in wire' : w.press = p /\ w.visit = visit =>
            q.at = "sending" /\ w.file = Head(q.todo),
         UNCHANGED <<stored, visit, claimed>>
  PROVE  ClientInv'
<1>1. ClientTypes'  BY DEF ClientInv, ClientTypes
<1>2. \A r \in Press : press'[r] = IF r = p THEN q ELSE press[r]  BY DEF ClientInv, ClientTypes
<1>3. \A r \in Press : BatchIsSound(press'[r])  BY <1>2 DEF ClientInv
<1>4. (\A r \in Press : BatchIsSound(press[r]))'  BY <1>3 DEF BatchIsSound
<1>5. \A w \in wire : w.press \in Press  BY DEF ClientInv, ClientTypes, OnWire
<1>6. WireIsSound'
  <2>1. \A w \in wire' : w.visit = visit =>
          press'[w.press].at = "sending" /\ w.file = Head(press'[w.press].todo)
    BY <1>2, <1>5 DEF ClientInv, WireIsSound
  <2> QED  BY <2>1 DEF ClientInv, WireIsSound
<1> QED  BY <1>1, <1>4, <1>6 DEF ClientInv, ReloadMeansStored

LEMMA IdleIsSound == NotSending \in Batches /\ BatchIsSound(NotSending) /\ NotSending.at = "idle"
<1>1. <<>> \in Seq(File)  OBVIOUS
<1> QED  BY <1>1 DEF NotSending, Batches, BatchIsSound

LEMMA PicksAreFiles == \A p \in Picks : p \in Seq(File)
<1>1. \A f \in File : <<f>> \in Seq(File)  OBVIOUS
<1>2. \A p \in File \X File : p \in Seq(File)
  <2>1. \A f, g \in File : <<f, g>> \in Seq(File)  OBVIOUS
  <2>2. \A p \in File \X File : \E f, g \in File : p = <<f, g>>  OBVIOUS
  <2> QED  BY <2>1, <2>2
<1>3. <<>> \in Seq(File)  OBVIOUS
<1> QED  BY <1>1, <1>2, <1>3 DEF Picks

\* Choosing files, and what checks say, touch nothing that was sent.
LEMMA ChoosingKeeps ==
  ASSUME ClientInv, picked' \in Seq(File), UNCHANGED <<press, wire, stored, visit, claimed>>
  PROVE  ClientInv'
BY DEF ClientInv, ClientTypes, BatchIsSound, WireIsSound, ReloadMeansStored

LEMMA SubmitKeeps == ASSUME ClientInv, NEW p \in Press, Submit(p) PROVE ClientInv'
<1>1. UNCHANGED <<picked, wire, stored, visit, claimed>> /\ press[p] = NotSending /\ picked # <<>>
  BY DEF Submit
<1>2. CASE press' = press  BY <1>1, <1>2, ChoosingKeeps DEF ClientInv, ClientTypes
<1>3. CASE press' # press
  <2>1. PICK q : q = [at |-> "sealing", files |-> picked, todo |-> picked]  OBVIOUS
  <2>2. press' = [press EXCEPT ![p] = q]  BY <1>3, <2>1 DEF Submit
  <2>3. q \in Batches /\ BatchIsSound(q)
    BY <1>1, <2>1 DEF ClientInv, ClientTypes, Batches, BatchIsSound
  <2>4. \A w \in wire : ~(w.press = p /\ w.visit = visit)
    BY <1>1, IdleIsSound DEF ClientInv, WireIsSound
  <2> QED  BY <1>1, <2>2, <2>3, <2>4, BatchChanges
<1> QED  BY <1>2, <1>3

LEMMA PressFields ==
  ASSUME ClientInv, NEW p \in Press
  PROVE  /\ press[p] \in Batches /\ BatchIsSound(press[p])
         /\ press[p].todo \in Seq(File) /\ press[p].files \in Seq(File)
BY DEF ClientInv, ClientTypes, Batches

LEMMA SendFileKeeps == ASSUME ClientInv, NEW p \in Press, SendFile(p) PROVE ClientInv'
<1>1. PICK q : q = [press[p] EXCEPT !.at = "sending"]  OBVIOUS
<1>2. PICK w : w = [press |-> p, file |-> Head(press[p].todo), answer |-> "none", visit |-> visit]
  OBVIOUS
<1>3. /\ press[p].at = "sealing"
      /\ press' = [press EXCEPT ![p] = q]
      /\ wire' = wire \cup {w}
      /\ UNCHANGED <<picked, stored, visit, claimed>>
  BY <1>1, <1>2 DEF SendFile, ClientInv, ClientTypes
<1>4. /\ q \in Batches /\ q.at = "sending" /\ q.files = press[p].files /\ q.todo = press[p].todo
  BY <1>1, PressFields DEF Batches
<1>5. BatchIsSound(q) /\ q.todo # <<>>  BY <1>3, <1>4, PressFields DEF BatchIsSound
<1>6. w \in OnWire
  BY <1>2, <1>4, <1>5, PressFields, HeadAndTail DEF ClientInv, ClientTypes, OnWire
<1>7. \A r \in Press : press'[r] = IF r = p THEN q ELSE press[r]  BY <1>3 DEF ClientInv, ClientTypes
<1>8. ClientTypes'  BY <1>3, <1>4, <1>6 DEF ClientInv, ClientTypes
<1>9. (\A r \in Press : BatchIsSound(press[r]))'  BY <1>3, <1>5, <1>7 DEF ClientInv, BatchIsSound
<1>10. \A v \in wire : ~(v.press = p /\ v.visit = visit)  BY <1>3 DEF ClientInv, WireIsSound
<1>11. WireIsSound'
  <2>1. w.press = p /\ w.visit = visit /\ w.answer # "stored" /\ w.file = Head(q.todo) /\ visit \in Nat
    BY <1>2, <1>4 DEF ClientInv, ClientTypes
  <2>2. \A v \in wire : v.press \in Press  BY DEF ClientInv, ClientTypes, OnWire
  <2>3. \A v \in wire' : v.visit =< visit'  BY <1>3, <2>1 DEF ClientInv, WireIsSound
  <2>4. \A v \in wire' : v.visit = visit' =>
        /\ press'[v.press].at = "sending" /\ v.file = Head(press'[v.press].todo)
        /\ v.answer = "stored" => stored'[v.file] > 0
    BY <1>3, <1>4, <1>7, <1>10, <2>1, <2>2 DEF ClientInv, WireIsSound
  <2>5. \A u, v \in wire' : u.visit = visit' /\ v.visit = visit' /\ u.press = v.press => u = v
    BY <1>3, <1>10, <2>1 DEF ClientInv, WireIsSound
  <2> QED  BY <2>3, <2>4, <2>5 DEF WireIsSound
<1> QED  BY <1>3, <1>8, <1>9, <1>11 DEF ClientInv, ReloadMeansStored

\* A batch stops: what it still had on the wire is answered to nobody.
LEMMA StopsKeep ==
  ASSUME ClientInv, NEW p \in Press, Stops(p),
         wire' \subseteq OnWire,
         \A w \in wire' : w.visit =< visit,
         \A w \in wire' : w.visit = visit => w \in wire /\ w.press # p
  PROVE  ClientInv'
<1>1. press' = [press EXCEPT ![p] = NotSending] /\ UNCHANGED <<picked, stored, visit, claimed>>
  BY DEF Stops
<1>2. \A r \in Press : press'[r] = IF r = p THEN NotSending ELSE press[r]
  BY <1>1 DEF ClientInv, ClientTypes
<1>3. ClientTypes'  BY <1>1, IdleIsSound DEF ClientInv, ClientTypes
<1>4. (\A r \in Press : BatchIsSound(press[r]))'
  BY <1>1, <1>2, IdleIsSound DEF ClientInv, BatchIsSound
<1>5. \A v \in wire : v.press \in Press  BY DEF ClientInv, ClientTypes, OnWire
<1>6. WireIsSound'  BY <1>1, <1>2, <1>5 DEF ClientInv, WireIsSound
<1> QED  BY <1>1, <1>3, <1>4, <1>6 DEF ClientInv, ReloadMeansStored

LEMMA WireFields ==
  ASSUME ClientInv, NEW w \in wire
  PROVE  /\ w \in OnWire /\ w.press \in Press /\ w.file \in File /\ w.visit \in Nat
         /\ w.visit =< visit /\ visit \in Nat /\ visit # 0
BY DEF ClientInv, ClientTypes, OnWire, WireIsSound

LEMMA ToldNoKeeps == ASSUME ClientInv, NEW p \in Press, ToldNo(p) PROVE ClientInv'
<1>1. PICK w \in wire : Mine(p, w) /\ wire' = wire \ {w} /\ Stops(p)  BY DEF ToldNo
<1>2. \A v \in wire' : v.visit = visit => v \in wire /\ v.press # p
  BY <1>1 DEF Mine, ClientInv, WireIsSound
<1>3. wire' \subseteq OnWire /\ \A v \in wire' : v.visit =< visit
  BY <1>1 DEF ClientInv, ClientTypes, WireIsSound
<1> QED  BY <1>1, <1>2, <1>3, StopsKeep

LEMMA LostKeeps == ASSUME ClientInv, NEW p \in Press, Lost(p) PROVE ClientInv'
<1>1. Stops(p) /\ wire' = {[w EXCEPT !.visit = IF Mine(p, w) THEN 0 ELSE @] : w \in wire}
  BY DEF Lost
<1>2. ASSUME NEW v \in wire'
      PROVE  /\ v \in OnWire /\ v.visit =< visit
             /\ v.visit = visit => v \in wire /\ v.press # p
  <2>1. PICK w \in wire : v = [w EXCEPT !.visit = IF Mine(p, w) THEN 0 ELSE w.visit]
    BY <1>1
  <2>2. /\ w \in OnWire /\ w.press \in Press /\ w.file \in File /\ w.visit \in Nat
        /\ w.visit =< visit /\ visit \in Nat /\ visit # 0
    BY WireFields
  <2>3. CASE Mine(p, w)
    <3>1. v = [w EXCEPT !.visit = 0]  BY <2>1, <2>3
    <3>2. v \in OnWire /\ v.visit = 0  BY <2>2, <3>1 DEF OnWire
    <3> QED  BY <2>2, <3>2
  <2>4. CASE ~Mine(p, w)
    <3>1. v = [w EXCEPT !.visit = w.visit]  BY <2>1, <2>4
    <3>2. v = w  BY <2>2, <3>1 DEF OnWire
    <3> QED  BY <2>2, <2>4, <3>2 DEF Mine
  <2> QED  BY <2>3, <2>4
<1> QED  BY <1>1, <1>2, StopsKeep

LEMMA CannotSealKeeps == ASSUME ClientInv, NEW p \in Press, CannotSeal(p) PROVE ClientInv'
<1>1. press[p].at = "sealing" /\ Stops(p) /\ wire' = wire  BY DEF CannotSeal
<1>2. \A w \in wire : w.visit = visit => w.press # p  BY <1>1 DEF ClientInv, WireIsSound
<1> QED  BY <1>1, <1>2, StopsKeep DEF ClientInv, ClientTypes, WireIsSound

\* The page is loaded again: a new visit, and nothing under way.
LEMMA LoadKeeps ==
  ASSUME ClientInv, Load, wire' \subseteq wire, UNCHANGED stored,
         claimed' \subseteq File, \A f \in claimed' : stored[f] > 0
  PROVE  ClientInv'
<1>1. /\ picked' = <<>> /\ press' = [q \in Press |-> NotSending] /\ visit' = visit + 1
  BY DEF Load
<1>2. \A w \in wire' : w.visit < visit'  BY <1>1, WireFields
<1>3. WireIsSound'
  <2>1. visit' \in Nat  BY <1>1 DEF ClientInv, ClientTypes
  <2>2. \A w \in wire' : w.visit =< visit' /\ w.visit # visit'  BY <1>2, <2>1, WireFields
  <2> QED  BY <2>2 DEF WireIsSound
<1>4. <<>> \in Seq(File)  OBVIOUS
<1>5. ClientTypes'  BY <1>1, <1>4, IdleIsSound DEF ClientInv, ClientTypes
<1>6. (\A p \in Press : BatchIsSound(press[p]))'  BY <1>1, IdleIsSound DEF BatchIsSound
<1> QED  BY <1>3, <1>5, <1>6 DEF ReloadMeansStored, ClientInv

LEMMA ReloadKeeps == ASSUME ClientInv, Reload PROVE ClientInv'
BY LoadKeeps DEF Reload, ClientInv, ClientTypes, ReloadMeansStored

LEMMA ToldKeeps == ASSUME ClientInv, NEW p \in Press, Told(p) PROVE ClientInv'
<1>1. /\ press[p].at = "sending" /\ stored' = stored
      /\ press[p] \in Batches /\ press[p].todo # <<>>
      /\ press[p].todo \in Seq(File) /\ press[p].files \in Seq(File)
      /\ \A f \in Chosen(press[p].files) : f \in Chosen(press[p].todo) \/ stored[f] > 0
  BY PressFields DEF Told, BatchIsSound
<1>2. PICK w \in wire :
       /\ Mine(p, w) /\ w.answer # "none" /\ Succeeded(w)
       /\ wire' = wire \ {w}
       /\ IF Len(press[p].todo) > 1
          THEN /\ press' = [press EXCEPT ![p].todo = Tail(@), ![p].at = "sealing"]
               /\ Speaks
               /\ UNCHANGED <<picked, picks, dead, reader, alreadySent, visit, claimed>>
          ELSE /\ visit < Visits
               /\ Load /\ UNCHANGED picks
               /\ claimed' = claimed \union Chosen(press[p].files)
  BY DEF Told
<1>3. stored[Head(press[p].todo)] > 0
  BY <1>2 DEF Mine, Succeeded, ClientInv, WireIsSound
<1>4. CASE Len(press[p].todo) > 1
  <2>1. PICK q : q = [at |-> "sealing", files |-> press[p].files, todo |-> Tail(press[p].todo)]
    OBVIOUS
  <2>2. q \in Batches /\ BatchIsSound(q)
    BY <1>1, <1>3, <1>4, <2>1, HeadAndTail DEF Batches, BatchIsSound
  <2>3. press' = [press EXCEPT ![p] = q]
    <3>1. press' = [r \in Press |-> IF r = p
            THEN [press[p] EXCEPT !.todo = Tail(press[p].todo), !.at = "sealing"] ELSE press[r]]
      BY <1>2, <1>4, Zenon DEF ClientInv, ClientTypes
    <3>2. [press[p] EXCEPT !.todo = Tail(press[p].todo), !.at = "sealing"] = q
      <4>1. DOMAIN press[p] = {"at", "files", "todo"}  BY <1>1 DEF Batches
      <4>2. [press[p] EXCEPT !.todo = Tail(press[p].todo), !.at = "sealing"]
              = [f \in {"at", "files", "todo"} |-> IF f = "at" THEN "sealing"
                    ELSE IF f = "todo" THEN Tail(press[p].todo) ELSE press[p][f]]
        BY <4>1, Zenon
      <4>3. q = [f \in {"at", "files", "todo"} |-> q[f]]  BY <2>1
      <4>4. \A f \in {"at", "files", "todo"} :
              q[f] = IF f = "at" THEN "sealing"
                     ELSE IF f = "todo" THEN Tail(press[p].todo) ELSE press[p][f]
        <5>1. q.at = "sealing" /\ q.files = press[p].files /\ q.todo = Tail(press[p].todo)  BY <2>1
        <5>2. q["at"] = "sealing" /\ q["files"] = press[p]["files"] /\ q["todo"] = Tail(press[p].todo)
          BY <5>1
        <5> QED  BY <5>2, Zenon
      <4> QED  BY <4>2, <4>3, <4>4
    <3> QED  BY <3>1, <3>2 DEF ClientInv, ClientTypes
  <2>4. \A v \in wire' : ~(v.press = p /\ v.visit = visit)
    BY <1>2 DEF Mine, ClientInv, WireIsSound
  <2>5. UNCHANGED <<picked, stored, visit, claimed>> /\ wire' \subseteq wire  BY <1>1, <1>2, <1>4
  <2> QED  BY <2>2, <2>3, <2>4, <2>5, BatchChanges
<1>5. CASE ~(Len(press[p].todo) > 1)
  <2>1. Load /\ claimed' = claimed \cup Chosen(press[p].files)  BY <1>2, <1>5
  <2>2. \A f \in Chosen(press[p].files) : f \in File /\ stored[f] > 0
    <3>1. Chosen(press[p].files) \subseteq File  BY <1>1 DEF Chosen
    <3>2. Len(press[p].todo) =< 1  BY <1>1, <1>5
    <3> QED  BY <1>1, <1>3, <3>1, <3>2, HeadAndTail
  <2> QED
    BY <1>1, <1>2, <2>1, <2>2, LoadKeeps DEF ClientInv, ClientTypes, ReloadMeansStored
<1> QED  BY <1>4, <1>5

\* The route stores a file, or refuses it, and answers the visit that waits.
LEMMA TakeKeeps == ASSUME ClientInv, NEW w \in wire, Take(w) PROVE ClientInv'
<1>1. w.answer = "none" /\ UNCHANGED <<picked, press, visit, claimed>>
  BY DEF Take, pageVars
<1>2. PICK answer \in {"stored", "refused"} :
        /\ wire' = (wire \ {w}) \union {a \in {[w EXCEPT !.answer = answer]} : a.visit = visit}
        /\ stored' = IF answer = "stored" THEN [stored EXCEPT ![w.file] = @ + 1] ELSE stored
  BY DEF Take
<1>3. PICK a \in OnWire :
        /\ a = [w EXCEPT !.answer = answer] /\ a.answer = answer
        /\ a.press = w.press /\ a.file = w.file /\ a.visit = w.visit
  <2>1. w \in OnWire  BY WireFields
  <2>2. PICK a : a = [w EXCEPT !.answer = answer]  OBVIOUS
  <2>3. a \in OnWire /\ a.answer = answer /\ a.press = w.press /\ a.file = w.file /\ a.visit = w.visit
    BY <2>1, <2>2 DEF OnWire
  <2> QED  BY <2>2, <2>3
<1>4. \A v \in wire' : (v \in wire /\ v # w) \/ (v = a /\ w.visit = visit)
  BY <1>2, <1>3
<1>5. /\ stored' \in [File -> Nat]
      /\ \A f \in File : stored[f] > 0 => stored'[f] > 0
      /\ answer = "stored" => stored'[w.file] > 0
  BY <1>2, WireFields DEF ClientInv, ClientTypes
<1>6. ClientTypes'  BY <1>1, <1>3, <1>4, <1>5 DEF ClientInv, ClientTypes
<1>7. (\A p \in Press : BatchIsSound(press[p]))'
  <2> SUFFICES ASSUME NEW p \in Press, press[p].at # "idle"
               PROVE  /\ press[p].todo # <<>>
                      /\ \A f \in Chosen(press[p].files) :
                            f \in Chosen(press[p].todo) \/ stored'[f] > 0
    BY <1>1 DEF BatchIsSound
  <2>1. /\ press[p].todo # <<>> /\ press[p].files \in Seq(File)
        /\ \A f \in Chosen(press[p].files) : f \in Chosen(press[p].todo) \/ stored[f] > 0
    BY PressFields DEF BatchIsSound
  <2>2. Chosen(press[p].files) \subseteq File  BY <2>1 DEF Chosen
  <2> QED  BY <1>5, <2>1, <2>2
<1>8. WireIsSound'
  <2>1. \A v \in wire' : v.visit =< visit'  BY <1>1, <1>3, <1>4 DEF ClientInv, WireIsSound
  <2>2. \A v \in wire : v.file \in File  BY WireFields
  <2>3. \A v \in wire' : v.visit = visit' =>
          /\ press'[v.press].at = "sending" /\ v.file = Head(press'[v.press].todo)
          /\ v.answer = "stored" => stored'[v.file] > 0
    BY <1>1, <1>3, <1>4, <1>5, <2>2 DEF ClientInv, WireIsSound
  <2>4. \A u, v \in wire' : u.visit = visit' /\ v.visit = visit' /\ u.press = v.press => u = v
    <3> SUFFICES ASSUME NEW u \in wire', NEW v \in wire',
                        u.visit = visit, v.visit = visit, u.press = v.press
                 PROVE  u = v
      BY <1>1
    <3>1. \A x \in wire : x.visit = visit /\ w.visit = visit /\ x.press = w.press => x = w
      BY DEF ClientInv, WireIsSound
    <3>2. CASE u # a /\ v # a  BY <1>4, <3>2 DEF ClientInv, WireIsSound
    <3>3. CASE u = a \/ v = a  BY <1>3, <1>4, <3>1, <3>3
    <3> QED  BY <3>2, <3>3
  <2> QED  BY <2>1, <2>3, <2>4 DEF WireIsSound
<1>9. ReloadMeansStored'
  BY <1>1, <1>5 DEF ClientInv, ClientTypes, ReloadMeansStored
<1> QED  BY <1>6, <1>7, <1>8, <1>9 DEF ClientInv

\* In every state of the page and its route: what a batch has left to send is what is not
\* stored of it, and each request of the visit is of the file its press waits for
\* (web/upload.js, the submit handler).
THEOREM ClientInvariant == ClientPageSpec => []ClientInv
<1>1. ClientPageInit => ClientInv
  <2> SUFFICES ASSUME ClientPageInit PROVE ClientInv  OBVIOUS
  <2>1. <<>> \in Seq(File)  OBVIOUS
  <2>2. ClientTypes  BY <2>1, IdleIsSound DEF ClientPageInit, ClientTypes
  <2> QED  BY <2>2, IdleIsSound DEF ClientPageInit, ClientInv, WireIsSound, ReloadMeansStored
<1>2. ClientInv /\ [ClientPageNext]_clientPageVars => ClientInv'
  <2> SUFFICES ASSUME ClientInv, [ClientPageNext]_clientPageVars PROVE ClientInv'  OBVIOUS
  <2>1. CASE UNCHANGED clientPageVars
    BY <2>1, ChoosingKeeps DEF clientPageVars, ClientInv, ClientTypes
  <2>2. ASSUME NEW c \in Reader, (\E p \in Picks : Pick(c, p)) \/ ReadEnds(c) \/ CannotRead(c)
        PROVE  ClientInv'
    <3>1. picked' \in Seq(File)
      BY <2>2, PicksAreFiles DEF Pick, ReadEnds, CannotRead, ClientInv, ClientTypes
    <3>2. UNCHANGED <<press, wire, stored, visit, claimed>>
      BY <2>2 DEF Pick, ReadEnds, CannotRead
    <3> QED  BY <3>1, <3>2, ChoosingKeeps
  <2>3. ASSUME NEW p \in Press,
               Submit(p) \/ SendFile(p) \/ CannotSeal(p) \/ Told(p) \/ ToldNo(p) \/ Lost(p)
        PROVE  ClientInv'
    BY <2>3, SubmitKeeps, SendFileKeeps, CannotSealKeeps, ToldKeeps, ToldNoKeeps, LostKeeps
  <2>4. CASE Reload  BY <2>4, ReloadKeeps
  <2>5. ASSUME NEW w \in wire, Take(w) PROVE ClientInv'  BY <2>5, TakeKeeps
  <2> QED  BY <2>1, <2>2, <2>3, <2>4, <2>5 DEF ClientPageNext
<1> QED  BY <1>1, <1>2, PTL DEF ClientPageSpec

\* For any files, picks, presses and visits, and answers lost on the way: when the page
\* loads itself again, every file of the batch is stored.
THEOREM ReloadedIsStored == ClientPageSpec => []ReloadMeansStored
BY ClientInvariant, PTL DEF ClientInv
===============================================================================
