------------------------- MODULE MCRequestChecklist -------------------------
(* The instance of RequestChecklist that TLC checks.  A practice sets up two    *)
(* lists, or it works through one list with its client: each on its own bounds. *)
EXTENDS RequestChecklist, TLC

\* Labels as pairs of a word and how it is written; their folding is the word.
MCFold   == [l \in Label |-> l[1]]
MCLabels == {<<"bank", "lower">>, <<"bank", "upper">>, <<"payroll", "lower">>}

\* Items and posts are interchangeable until they are in use.
MCSymmetry == Permutations(Item) \union Permutations(Post)

MCWorked == CHOOSE r \in Request : TRUE

VARIABLE work

MCInit == Init /\ work \in {"asking", "answering"}

\* Two lists, copied from each other and added to from two forms; no links, no flags.
MCAsking == (ListStep \/ PracticeStep) /\ UNCHANGED <<link, flagged, postVars, pageVars>>

\* One list, its posts and the practice's page; nothing is renamed.
MCAnswering ==
  /\ Next
  /\ raised' \subseteq {MCWorked}
  /\ \A i \in Item : IF owner[i] # None THEN label'[i] = label[i]
                      ELSE owner'[i] # None => label'[i] # <<"bank", "upper">>
  /\ UNCHANGED adding

MCNext ==
  /\ \/ work = "asking" /\ MCAsking
     \/ work = "answering" /\ MCAnswering
  /\ UNCHANGED work

MCSpec == MCInit /\ [][MCNext]_<<vars, work>>
=============================================================================
