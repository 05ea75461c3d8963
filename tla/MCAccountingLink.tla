--------------------------- MODULE MCAccountingLink ---------------------------
(* Handlers, rows and companies are interchangeable. *)
EXTENDS AccountingLink, TLC

MCSymmetry == Permutations(Call) \union Permutations(Client) \union Permutations(Company)
=============================================================================
