------------------------ MODULE MCApplicationDeployment ------------------------
(***************************************************************************)
(* Small instances of ApplicationDeployment: transfers are model values.   *)
(***************************************************************************)
EXTENDS ApplicationDeployment

CONSTANTS t1, t2, t3

TwoTransfers   == {t1, t2}
ThreeTransfers == {t1, t2, t3}
=============================================================================
