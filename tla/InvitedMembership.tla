--------------------------- MODULE InvitedMembership ---------------------------
(***************************************************************************)
(* What invitations promise a practice: nobody gets in but by an open      *)
(* invitation, each lets one person in once, and who has spent one is      *)
(* either in or owed the entry until they are removed.  HostedInvite       *)
(* implements it over two databases.                                       *)
(***************************************************************************)
CONSTANTS
    Emails,    \* who may be invited, by address
    Invites    \* the invitations

VARIABLES
    standing,  \* standing[e]: out, owed the entry, or in
    spent,     \* the invitations that were used
    closed     \* the invitations nobody can use any more, unused

promise == <<standing, spent, closed>>

Init ==
    /\ standing = [e \in Emails |-> "out"]
    /\ spent = {}
    /\ closed = {}

\* The invitation is used up; the entry may have to wait.
Join(e, i) ==
    /\ standing[e] = "out"
    /\ i \notin spent \cup closed
    /\ spent' = spent \cup {i}
    /\ \E s \in {"owed", "in"} : standing' = [standing EXCEPT ![e] = s]
    /\ UNCHANGED closed

Enter(e) ==
    /\ standing[e] = "owed"
    /\ standing' = [standing EXCEPT ![e] = "in"]
    /\ UNCHANGED <<spent, closed>>

Leave(e) ==
    /\ standing[e] # "out"
    /\ standing' = [standing EXCEPT ![e] = "out"]
    /\ UNCHANGED <<spent, closed>>

Close(i) ==
    /\ i \notin spent
    /\ closed' = closed \cup {i}
    /\ UNCHANGED <<standing, spent>>

Next ==
    \/ \E e \in Emails : Enter(e) \/ Leave(e) \/ \E i \in Invites : Join(e, i)
    \/ \E i \in Invites : Close(i)

Spec == Init /\ [][Next]_promise

===============================================================================
