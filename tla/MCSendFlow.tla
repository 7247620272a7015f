------------------------------ MODULE MCSendFlow -------------------------------
(* An instance of SendFlow for TLC: amounts of two digits, inputs of two bytes. *)
EXTENDS SendFlow

CONSTANTS alice, bob

MCValue == [c \in Coin |-> 20 + 10 * c]
MCSteps == <<2, 1>>
MCFamily == [r \in {alice, bob} |-> IF r = alice THEN "taproot" ELSE "bech32"]
MCPriority == <<"taproot", "bech32">>
To(r, amount) == [to |-> r, amount |-> amount]
MCForms == {[outputs |-> <<To(bob, 10), To(alice, 15)>>, rate |-> 2]}
=============================================================================
