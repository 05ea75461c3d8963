-------------------------- MODULE DocumentCustody ---------------------------
(***************************************************************************)
(* What Tickmark promises about a document, with nothing said of how: an   *)
(* attempt to send one gets at most one answer, "accepted" is said of a    *)
(* document that is kept, "refused" of one that is not, and what is kept   *)
(* is kept for good. A sender who hears nothing knows nothing.             *)
(***************************************************************************)
CONSTANT Upload

VARIABLES
  answer,  \* what the sender of each attempt has been told
  kept     \* the documents the practice holds and can read from disk

Init ==
  /\ answer = [u \in Upload |-> "none"]
  /\ kept = {}

Accept(u) ==
  /\ answer[u] = "none"
  /\ answer' = [answer EXCEPT ![u] = "accepted"]
  /\ kept' = kept \union {u}

Refuse(u) ==
  /\ answer[u] = "none"
  /\ answer' = [answer EXCEPT ![u] = "refused"]
  /\ UNCHANGED kept

\* Any number of senders are cut off at once.
CutOff ==
  /\ \A u \in Upload :
       \/ answer'[u] = answer[u]
       \/ answer[u] = "none" /\ answer'[u] = "unknown"
  /\ DOMAIN answer' = Upload
  /\ UNCHANGED kept

Next == (\E u \in Upload : Accept(u) \/ Refuse(u)) \/ CutOff

Spec == Init /\ [][Next]_<<answer, kept>>
=============================================================================
