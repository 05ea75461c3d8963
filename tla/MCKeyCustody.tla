----------------------------- MODULE MCKeyCustody -----------------------------
(* The instance of KeyCustody that TLC checks.                             *)
EXTENDS KeyCustody, TLC

MCSymmetry == Permutations(Member) \cup Permutations(Invite)

\* Two requests in flight, or two invitations beside one in flight.
MCBounded ==
    \/ Cardinality({i \in Invite : invite[i] # NoInvite}) =< 1
    \/ Cardinality({m \in Member : flight[m] # NoFlight}) =< 1 /\ sheet = None

MCNext == Next /\ MCBounded'
MCSpec == Init /\ [][MCNext]_vars
=============================================================================
