----------------------------- MODULE MCStartUp -----------------------------
(***************************************************************************)
(* An instance of StartUp for TLC: two nodes on one machine, the first of  *)
(* which stands for every way of setting them up.                          *)
(***************************************************************************)
EXTENDS StartUp, TLC

CONSTANTS p1, p2

Set(shell, lines) == [shell |-> shell, lines |-> lines]
Unset == [k \in {} |-> ""]
L(key, value) == [key |-> key, value |-> value]

Peer(id, addr) == [id |-> id, addr |-> addr]

MCPeersIn ==
  "" :> <<>>
  @@ "relay" :> <<Peer("r", "1"), Peer("r", "2")>>
  @@ "both" :> <<Peer("b", "1"), Peer("r", "2")>>

Own == L("P2PTEST_KEY_PATH", "own.key")

MCConfig == [p \in {p1, p2} |->
  IF p = p1
  THEN {Set(Unset, <<>>),
        Set("APP_WEB_PORT" :> "", <<L("APP_WEB_PORT", "1"), L("P2PTEST_KEY_PATH", "")>>),
        Set("P2PTEST_KEY_PATH" :> "/tmp/p2ptest.key", <<Own, L("APP_WEB_PORT", "1"), L("APP_WEB_PORT", "2")>>),
        Set(Unset, <<Own, L("APP_STATIC_RELAYS", "relay"), L("APP_BOOTSTRAP_PEERS", "both")>>),
        Set(Unset, <<L("APP_RELAY_SERVICE", "true"), L("APP_STATIC_RELAYS", "relay"),
                     L("APP_DHT_ENABLED", "maybe"), L("APP_DHT_MODE", "auto")>>),
        Set(Unset, <<Own, L("APP_DHT_MODE", "relay")>>),
        Set(Unset, <<Own, L("APP_STATIC_RELAYS", "nobody")>>),
        Set(Unset, <<L("APP_WEB_PORT", "1"), L("", "2")>>)}
  ELSE {Set(Unset, <<>>), Set("APP_DHT_ENABLED" :> "false", <<L("APP_WEB_PORT", "1"), L("APP_DHT_MODE", "none")>>)}]
=============================================================================
