------------------------------- MODULE MCGapScan -------------------------------
(***************************************************************************)
(* Instance of GapScan for TLC: an external and an internal branch.        *)
(***************************************************************************)
EXTENDS GapScan

\* Two receive addresses were given out; no change address was.
TwoGiven == ("external" :> 2) @@ ("internal" :> 0)

UsedAt(addresses) ==
    [a \in Address |-> IF a \in addresses THEN "spent" ELSE "fresh"]

\* The first scan of a wallet whose first receive address was used and emptied;
\* and a later one, of a wallet whose third was recovered.
First == [chain |-> UsedAt({<<"external", 0>>}), gap |-> [b \in Branch |-> 0],
          used |-> {}, unused |-> {}]
Later == [chain |-> UsedAt({<<"external", 2>>}), gap |-> [b \in Branch |-> 1],
          used |-> {<<"external", 2>>}, unused |-> {<<"internal", 2>>}]
FirstOrLater == {First, Later}
=============================================================================
