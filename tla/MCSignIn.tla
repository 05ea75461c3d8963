------------------------------- MODULE MCSignIn -------------------------------
(* One account for TLC.  The rows and the requests are told apart by nothing. *)
EXTENDS SignIn, TLC

MCSymmetry == Permutations(Session) \cup Permutations(Flight)

===============================================================================
