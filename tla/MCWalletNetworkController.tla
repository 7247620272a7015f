---------------------- MODULE MCWalletNetworkController ----------------------
(***************************************************************************)
(* Instances of WalletNetworkController for TLC.                           *)
(***************************************************************************)
EXTENDS WalletNetworkController

CONSTANTS a1, a2, t1, t2, c1, c2

\* a2 lies behind a1 in the gap scan.
ChainUnlocks == [a \in Address |-> IF a = a1 THEN Address \ {a1} ELSE {}]
NoUnlocks == [a \in Address |-> {}]
FirstRoot == {a1}

\* Both transactions move coins from a1 to a2, or each uses one address.
\* t2 replaces t1, or does not.
FromFirst == [t \in WalletTx |-> {a1}]
ToSecond == [t \in WalletTx |-> {a2}]
OneEach == [t \in WalletTx |-> IF t = t1 THEN {a1} ELSE {a2}]
Independent == [t \in WalletTx |-> NoTx]
Replacing == [t \in WalletTx |-> IF t = t2 THEN t1 ELSE NoTx]
=============================================================================
