----------------------------- MODULE MCNetwork -----------------------------
(* The configurations that Network tells apart.                            *)
EXTENDS Network

C(failed, net, emac, example, remote) ==
  [failed |-> failed, net |-> net, emac |-> emac, example |-> example,
   log |-> remote]

\* an eth section without a wifi section
EthOnly(emac) == {C(FALSE, "eth", emac, TRUE, FALSE)}
EthOnlyConfigs == EthOnly(TRUE)

MCConfigs == {C(TRUE, "wifi", FALSE, FALSE, FALSE),
              C(FALSE, "wifi", FALSE, TRUE, FALSE),
              C(FALSE, "wifi", FALSE, FALSE, TRUE),
              C(FALSE, "eth", TRUE, FALSE, TRUE)}
             \cup EthOnly(TRUE) \cup EthOnly(FALSE)
=============================================================================
