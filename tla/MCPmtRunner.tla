----------------------------- MODULE MCPmtRunner -----------------------------
EXTENDS PmtRunner

\* One level is half of 1R.  The lock of the low tier arms below 1R, and at its floor.
MinusTwo == -2
LowTierPrices == {-2, 0, 1, 2, 4, 5}
RungLevels == <<2, 4>>
HalfOf == <<0, 1, 2, 2>>                     \* round(n * 0.5), ties to even
ThirdOf == <<0, 1, 1>>                       \* round(n / 3)
LowTierLock == [p \in LowTierPrices |-> IF p < 4 THEN 1 ELSE 2]
=============================================================================
