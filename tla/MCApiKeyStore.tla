---------------------------- MODULE MCApiKeyStore ----------------------------
(* Instances of ApiKeyStore for TLC. *)
EXTENDS ApiKeyStore, TLC

CONSTANTS a, b
KeysInUse == {a, b}
SecretsOf == a :> 2 @@ b :> 1
UsesOf == a :> 1 @@ b :> 0
StreamsOf == a :> 2 @@ b :> 0
=============================================================================
