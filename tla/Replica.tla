------------------------------ MODULE Replica ------------------------------
(***************************************************************************)
(* What the Streaming screen promises about one staging table, seen as two *)
(* sets of row keys: the keys the Oracle view shows, and the keys a reader *)
(* of mdp_staging finds.  Streaming never deletes and never invents a row, *)
(* and a key the view shows is eventually found in the target.             *)
(***************************************************************************)
CONSTANT Keys

VARIABLES source,   \* keys the Oracle view shows
          replica   \* keys in the mdp_staging target

vars == <<source, replica>>

Init == /\ source \in SUBSET Keys
        /\ replica \in SUBSET source

\* A row becomes visible in the view.
Appear(k) ==
  /\ k \in Keys \ source
  /\ source' = source \cup {k}
  /\ UNCHANGED replica

\* Rows of the view are copied: one by an INSERT, many by a full reload.
Copy ==
  /\ \E S \in SUBSET (source \ replica) : replica' = replica \cup S
  /\ UNCHANGED source

Next == Copy \/ \E k \in Keys : Appear(k)

Spec == Init /\ [][Next]_vars

\* Every key of the view eventually reaches the target.
CaughtUp == \A k \in Keys : (k \in source) ~> (k \in replica)
=============================================================================
