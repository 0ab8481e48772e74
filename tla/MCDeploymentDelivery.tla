------------------------- MODULE MCDeploymentDelivery -------------------------
(***************************************************************************)
(* Small instances of DeploymentDelivery: transfers are model values.      *)
(***************************************************************************)
EXTENDS DeploymentDelivery

CONSTANTS t1, t2, t3

TwoTransfers   == {t1, t2}
ThreeTransfers == {t1, t2, t3}

\* Sound for the safety runs: the transfers are interchangeable.
Symmetry == Permutations(TransferIds)
=============================================================================
