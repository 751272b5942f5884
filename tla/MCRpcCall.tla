----------------------------- MODULE MCRpcCall -----------------------------
(* Every remote method first, then one call of the kinds that differ most in *)
(* what they have to lose to a late reply.                                   *)
EXTENDS RpcCall

LaterMethods ==
  {"getStorage", "isVM", "attachNetIf", "getVMsFull", "poweronVM",
   "addUser", "removeNetwork", "setConfigs", "getPlatformsFull", "addNetIf"}
=============================================================================
