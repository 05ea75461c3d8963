------------------------------ MODULE MCChasing ------------------------------
(* Clients, requests and handlers are interchangeable. *)
EXTENDS Chasing, TLC

MCSymmetry == Permutations(Client) \union Permutations(Request) \union Permutations(Run)

\* A second request matters to the handlers that write to many; the days pass over one.
MCBounded ==
  \/ Cardinality(Made) <= 1
  \/ clock < PartsOfDay /\ \A x \in Run : run[x].kind \in {None, "chase", "ask"}

MCNext == Next /\ MCBounded'
MCSpec == Init /\ [][MCNext]_vars
=============================================================================
