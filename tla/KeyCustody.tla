------------------------------ MODULE KeyCustody ------------------------------
(***************************************************************************)
(* Who is in a practice, what they may do, and who holds a sealed copy of  *)
(* which key (src/src/members-views.js, keys-views.js, store.js and the    *)
(* part of db.js that runs whenever a database is opened).  The role a     *)
(* route needs is asked before its handler reads the body; the handler     *)
(* acts after it.  What a copy is sealed under, and the files, are left    *)
(* out: UploadPipeline has the files.                                      *)
(***************************************************************************)
EXTENDS Integers, FiniteSets, Sequences

CONSTANTS
    Member,     \* addresses that may have a row in table practitioner
    Invite,     \* rows of table invite
    None,       \* SQL's NULL
    MaxKeys,    \* bound: how many keys the practice makes
    MaxFlights  \* bound: how many requests may have a body on its way

ASSUME NoneAssumption  == None \notin Member
ASSUME BoundAssumption == {MaxKeys, MaxFlights} \subseteq Nat

VARIABLES
    standing,   \* standing[m]: no row, a member, or a row with removed_at
    role,       \* practitioner.role
    maker,      \* maker[k]: practice_key.practitioner_id, keys numbered as they were made
    retired,    \* the keys with deleted_at
    wrap,       \* key_wrapping: <<k, m>> when m holds a copy of k
    sheet,      \* the key sealed in recovery_wrapping of the first row, or none
    invite,     \* the rows of table invite
    flight      \* flight[m]: the request of m that passed the dispatcher and waits for its body

keys  == <<maker, retired, wrap, sheet>>
rows  == <<standing, role>>
vars  == <<rows, keys, invite, flight>>

-----------------------------------------------------------------------------
ROLES == {"assistant", "accountant", "owner"}

holdsKey(r) == r \in {"accountant", "owner"}

Made     == DOMAIN maker
LiveKeys == Made \ retired

\* SELECT id FROM practice_key WHERE practice_id = ?, without an order: the
\* index practice_key_practice gives the oldest row, retired or not.
FirstKey == 1

\* The key that new files are sealed to.
Current(k) == k \in LiveKeys /\ \A j \in LiveKeys : j =< k

membersOf == {m \in Member : standing[m] = "member"}
ownersOf  == {m \in membersOf : role[m] = "owner"}

Holds(k, m)      == <<k, m>> \in wrap
addKeyWrapping(k, m) == wrap' = wrap \cup {<<k, m>>}
Copies(m)        == {w \in wrap : w[2] = m}

NoInvite == [state |-> "none", key |-> None, role |-> "assistant"]
NoFlight == [op |-> "none", key |-> None, whom |-> None, role |-> "assistant"]
Ops      == {"setup", "sheet", "recover", "invite", "role", "retire"}

-----------------------------------------------------------------------------
(* Requests of owners.  requireRole is the dispatcher: it looks at the     *)
(* session's member once, before the body.                                 *)
Dispatch(m, op, key, whom, to) ==
    /\ m \in ownersOf
    /\ flight[m] = NoFlight
    /\ Cardinality({n \in Member : flight[n] # NoFlight}) < MaxFlights
    /\ flight' = [flight EXCEPT ![m] = [op |-> op, key |-> key, whom |-> whom, role |-> to]]
    /\ UNCHANGED <<rows, keys, invite>>

\* What the pages offer, which may have been drawn when another key was the
\* current one: a new key (setup.js) ...
AskKey(m) == Len(maker) < MaxKeys /\ Dispatch(m, "setup", None, None, "assistant")

\* ... a sheet sealing the key the page calls current, which the browser has
\* to open first ...
AskSheet(m) == \E k \in Made : Holds(k, m) /\ Dispatch(m, "sheet", k, None, "assistant")

\* ... a recovery by the sheet on file, sent to that key's address ...
AskRecovery(m) == sheet # None /\ \E k \in Made : Dispatch(m, "recover", k, None, "assistant")

\* ... the retirement of a key the page shows with no file ...
AskRetirement(m) == \E k \in Made : Dispatch(m, "retire", k, None, "assistant")

\* ... an invitation carrying a key the browser opened, or none ...
AskInvitation(m) ==
    \/ \E k \in Made : Holds(k, m) /\ Dispatch(m, "invite", k, None, "accountant")
    \/ Dispatch(m, "invite", None, None, "assistant")

\* ... and a role for anybody with a row.
AskRole(m) ==
    \E n \in Member, r \in ROLES :
        standing[n] # "none" /\ Dispatch(m, "role", None, n, r)

Ask(m) ==
    \/ AskKey(m) \/ AskSheet(m) \/ AskRecovery(m)
    \/ AskRetirement(m) \/ AskInvitation(m) \/ AskRole(m)

\* The body is there and the handler goes on, for what it asked.
Arrives(m, op) ==
    /\ flight[m].op = op
    /\ flight' = [flight EXCEPT ![m] = NoFlight]

\* saveKeys: addPracticeKey and its maker's copy, in one transaction.
SaveKeys(m) ==
    /\ Arrives(m, "setup")
    /\ Len(maker) < MaxKeys
    /\ maker' = Append(maker, m)
    /\ addKeyWrapping(Len(maker) + 1, m)
    /\ UNCHANGED <<rows, retired, sheet, invite>>

\* saveRecoverySheet: the page seals its current key; the server keeps it on
\* the first key's row whichever key that is.
SaveRecoverySheet(m) ==
    /\ Arrives(m, "sheet")
    /\ sheet' = flight[m].key
    /\ UNCHANGED <<rows, maker, retired, wrap, invite>>

\* recoverPassphrase: refused unless the form names the row the sheet is on.
RecoverPassphrase(m) ==
    /\ Arrives(m, "recover")
    /\ IF sheet # None /\ flight[m].key = FirstKey
       THEN addKeyWrapping(FirstKey, m)
       ELSE UNCHANGED wrap
    /\ UNCHANGED <<rows, maker, retired, sheet, invite>>

\* Mutant: the copies are deleted by their maker rather than by their key.
RetireKeyOfMaker(m) ==
    LET k == flight[m].key IN
    /\ Arrives(m, "retire")
    /\ \/ /\ k \notin retired /\ ~Current(k)
          /\ wrap' = {w \in wrap : w[2] # maker[k]}
          /\ retired' = retired \cup {k}
       \/ UNCHANGED <<wrap, retired>>
    /\ UNCHANGED <<rows, maker, sheet, invite>>

\* retirePracticeKey.  Whether files are still sealed to the key is asked of
\* table upload, so it may answer either way; a refusal changes nothing.
RetireKey(m) ==
    LET k == flight[m].key IN
    /\ Arrives(m, "retire")
    /\ \/ /\ k \notin retired /\ ~Current(k)
          /\ wrap' = {w \in wrap : w[1] # k}
          /\ retired' = retired \cup {k}
       \/ UNCHANGED <<wrap, retired>>
    /\ UNCHANGED <<rows, maker, sheet, invite>>

\* createInvitePage: a key the inviter holds now and the practice still uses,
\* or no key.
CreateInvite(m) ==
    LET k == flight[m].key IN
    /\ Arrives(m, "invite")
    /\ IF k = None \/ (k \in LiveKeys /\ Holds(k, m))
       THEN \E i \in Invite :
               /\ invite[i].state = "none"
               /\ invite' = [invite EXCEPT ![i] =
                     [state |-> "open", key |-> k, role |-> flight[m].role]]
       ELSE UNCHANGED invite
    /\ UNCHANGED <<rows, keys>>

\* Mutant: the owners were counted when the form was opened.
SetRoleUncounted(m) ==
    LET n == flight[m].whom  to == flight[m].role IN
    /\ Arrives(m, "role")
    /\ IF n \in membersOf
       THEN /\ role' = [role EXCEPT ![n] = to]
            /\ wrap' = IF holdsKey(to) THEN wrap ELSE wrap \ Copies(n)
       ELSE UNCHANGED <<role, wrap>>
    /\ UNCHANGED <<standing, maker, retired, sheet, invite>>

\* setRole: never the last owner, and a role without the key takes the copies.
SetRole(m) ==
    LET n == flight[m].whom  to == flight[m].role IN
    /\ Arrives(m, "role")
    /\ IF /\ n \in membersOf
          /\ ~(role[n] = "owner" /\ to # "owner" /\ Cardinality(ownersOf) =< 1)
       THEN /\ role' = [role EXCEPT ![n] = to]
            /\ wrap' = IF holdsKey(to) THEN wrap ELSE wrap \ Copies(n)
       ELSE UNCHANGED <<role, wrap>>
    /\ UNCHANGED <<standing, maker, retired, sheet, invite>>

\* removeMemberAction reads no body: the dispatcher's check is still good.
RemoveMember(m, n) ==
    /\ m \in ownersOf /\ n \in membersOf
    /\ m # n
    /\ membersOf \ {n} # {}
    /\ standing' = [standing EXCEPT ![n] = "removed"]
    /\ wrap' = wrap \ Copies(n)
    /\ UNCHANGED <<role, maker, retired, sheet, invite, flight>>

\* revokeInviteAction reads no body; an invitation of seven days expires.
CloseInvite(i) ==
    /\ invite[i].state = "open"
    /\ invite' = [invite EXCEPT ![i].state = "closed"]
    /\ UNCHANGED <<rows, keys, flight>>

-----------------------------------------------------------------------------
\* claimInvite, which asks everything acceptInvite asked before the body and
\* the hash again, in one transaction.  A removed member's row comes back.
Claim(i, n) ==
    /\ invite[i].state = "open"
    /\ standing[n] # "member"
    /\ invite' = [invite EXCEPT ![i].state = "used"]
    /\ standing' = [standing EXCEPT ![n] = "member"]
    /\ role' = [role EXCEPT ![n] = invite[i].role]
    /\ IF invite[i].key = None THEN UNCHANGED wrap ELSE addKeyWrapping(invite[i].key, n)
    /\ UNCHANGED <<maker, retired, sheet, flight>>

-----------------------------------------------------------------------------
\* openDatabase: the process restarts, or the pool closed the handle and opens
\* another.  Requests in flight end, and keyWrappingsFromKeyColumn copies
\* practice_key.wrapped_private_key to its maker wherever a copy is missing.
Reopen ==
    /\ wrap' = wrap \cup {<<k, maker[k]>> : k \in Made}
    /\ flight' = [m \in Member |-> NoFlight]
    /\ UNCHANGED <<rows, maker, retired, sheet, invite>>

-----------------------------------------------------------------------------
\* A practice that has just been made: one owner, no key.
Init ==
    /\ \E m \in Member : standing = [n \in Member |-> IF n = m THEN "member" ELSE "none"]
    /\ role = [m \in Member |-> IF standing[m] = "member" THEN "owner" ELSE "assistant"]
    /\ maker = <<>> /\ retired = {} /\ wrap = {} /\ sheet = None
    /\ invite = [i \in Invite |-> NoInvite]
    /\ flight = [m \in Member |-> NoFlight]

Answer(m) ==
    \/ SaveKeys(m) \/ SaveRecoverySheet(m) \/ RecoverPassphrase(m)
    \/ RetireKey(m) \/ CreateInvite(m) \/ SetRole(m)

Next ==
    \/ \E m \in Member : Ask(m)
    \/ \E m \in Member : Answer(m)
    \/ \E m, n \in Member : RemoveMember(m, n)
    \/ \E i \in Invite : CloseInvite(i)
    \/ \E i \in Invite, n \in Member : Claim(i, n)
    \/ Reopen

Spec == Init /\ [][Next]_vars

-----------------------------------------------------------------------------
TypeOK ==
    /\ standing \in [Member -> {"none", "member", "removed"}]
    /\ role \in [Member -> ROLES]
    /\ maker \in Seq(Member) /\ Len(maker) =< MaxKeys
    /\ retired \subseteq Made
    /\ wrap \subseteq Made \X Member
    /\ sheet \in Made \cup {None}
    /\ invite \in [Invite -> [state : {"none", "open", "used", "closed"},
                              key : Made \cup {None}, role : ROLES]]
    /\ flight \in [Member -> [op : Ops \cup {"none"}, key : Made \cup {None},
                              whom : Member \cup {None}, role : ROLES]]

(* Whatever owners do to each other at once, one is left who can invite,   *)
(* change and remove: setRole counts owners, removeMember counts only      *)
(* members, and relies on whoever asks being an owner still.               *)
AnOwnerRemains == ownersOf # {}

(* A copy, once handed over, is lost only with its holder or its key: the  *)
(* person is removed or takes a role without keys, or the key is retired.  *)
(* No request of a colleague's, however late its body, costs them one.     *)
CopiesGoForAReason ==
    [][\A w \in wrap \ wrap' :
          \/ standing'[w[2]] = "removed" \/ ~holdsKey(role'[w[2]])
          \/ w[1] \in retired']_vars

=============================================================================
