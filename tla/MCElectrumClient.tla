--------------------------- MODULE MCElectrumClient ---------------------------
(***************************************************************************)
(* Instances of ElectrumClient for TLC.                                    *)
(***************************************************************************)
EXTENDS ElectrumClient, TLC

CONSTANTS r1, r2, r3, h1, h2

\* r1 and r2 subscribe to two addresses, r3 to the first as well.
TwoAddresses == (r1 :> h1) @@ (r2 :> h2) @@ (r3 :> h1)
=============================================================================
