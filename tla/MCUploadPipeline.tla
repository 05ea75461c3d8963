-------------------------- MODULE MCUploadPipeline --------------------------
(* Instances of UploadPipeline for TLC. *)
EXTENDS UploadPipeline

MCFirst == CHOOSE u \in Upload : TRUE
MCFirstPass == CHOOSE p \in Pass : TRUE

\* Several uploads, or one that is moved between keys and downloaded.
MCBounded ==
  \/ /\ newest =< 1
     /\ \A p \in Pass : passPc[p] = "idle"
     /\ \A r \in Reader : readPc[r] = "idle"
  \/ \A u \in Upload \ {MCFirst} : pc[u] = "idle"

MCNext == Next /\ MCBounded'
MCSpec == Init /\ [][MCNext]_vars

\* The passes have no names: the one that starts first may be called the first.
MCInOrder ==
  (\E p \in Pass : passPc[p] # "idle") => passPc[MCFirstPass] # "idle"

MCFairSpec == Init /\ [][Next /\ MCInOrder']_vars /\ Fairness
=============================================================================
