---------------------------- MODULE MCMsgServer ------------------------------
(* Model-checking instance of MsgServer: one peer whose class has a slot of *)
(* its own and one of class 255; two configurations that trust different    *)
(* peers.                                                                   *)
EXTENDS MsgServer, TLC

CONSTANTS p1, p2

MCPeers == {p1, p2}
MCClassOf == (p1 :> 1) @@ (p2 :> 255)
MCSecret == (p1 :> "x") @@ (p2 :> "y")

\* Trusts both peers, or only a peer of another class that knows "y".
ConfigA == [slot \in Slots |-> IF slot = "cid255" THEN "y" ELSE "x"]
ConfigB == [slot \in Slots |-> IF slot = "cid1" THEN "y" ELSE "x"]
MCConfigs == {ConfigA, ConfigB}

PoolSymmetry ==
  Permutations(Apps) \cup Permutations(Workers) \cup Permutations(Servers)
==============================================================================
