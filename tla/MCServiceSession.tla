-------------------------- MODULE MCServiceSession --------------------------
(* Model-checking instances of ServiceSession: three key pairs, two of them *)
(* with the same public key, one of each kind.                              *)
EXTENDS ServiceSession

MCPubs == {"pa", "pb"}
MCKeys == {"a1", "a2", "b"}
MCPubOf == [k \in MCKeys |-> IF k = "b" THEN "pb" ELSE "pa"]
MCKindOf == [k \in MCKeys |-> CASE k = "a1" -> "rsa" [] k = "a2" -> "ed25519" [] k = "b" -> "unfit"]
\* A provider with nothing, with one of the two, with both, and with another key.
MCContents == {<<>>, <<"a1">>, <<"a2", "b">>, <<"a1", "a2">>}
=============================================================================
