----------------------------- MODULE NodeCalls -----------------------------
(* The node service: functions-node.c.                                       *)
EXTENDS CallSteps

AttributeReads == {"getNODEstat", "getNODEattribute"}
isNODEowner == {Ask("isNode"), Ask("isNODEowner")}
StateReads == {"getNodeControlModule", "isNodeEnabled", "isNodeEnabledAndConfigured"}
getNodeStats == Checked(Ask("getNodeStats"))
NodeListReads ==
  {"getLatestNodeStat", "getAllNodes", "getAllNodesByUID",
   "getAllUnconfiguredNodes", "getAllUnconfiguredNodesByUID"}
isNODE == Checked(Ask("isNode"))
RemoveReads == {"removeNode", "getNodePlatform"}
NodeOtherReads ==
  {"setNodeStatus", "getNodeName", "getNode", "getAllNodesFullRangeSorted",
   "getAllNodesFull", "getNodeByHostname", "getNodeAddress", "getNodeDefaultVNCpass",
   "getNodeHVM", "getPrivilege", "grantPrivilege", "revokePrivilege",
   "getNodeByName", "getNodeConfiguredHost"}
getNodeCount == {Ask("getNodeCount"), Ask("getNodeCountByUID")}

(* Create the row (count 2, which runs on into 3), read it back, and write   *)
(* the configuration if it is another one.  An unchanged node leaves nothing *)
(* to wait for.  The creation's "done" may get where the node is expected.   *)
nodeconfig_update(n, v) ==
  CASE n = 2 -> {Both(AgainInt("createNode"), Value("getNode"))}
    [] n = 3 -> {Value("getNode")}
    [] n = 4 -> IF v = Wild THEN {Crash}
                ELSE {AgainInt("updateNodeConfig")} \cup IF v = 0 THEN {} ELSE {Nothing}
    [] OTHER -> {Nothing}

(* A node that reports itself.  Unknown: it is created and, the error being  *)
(* kept on purpose, the call is answered with it.  Known but disabled: FALSE *)
(* is answered and the node is read once more.  Enabled, its module known:   *)
(* the count goes to 2 and nothing enters the method again.                  *)
registerNode(n, e, v, o) ==
  LET enabled == {Again("isControlModuleByName")}
      disabled == {Counting(Cleared(Both(Answer, Value("getNode"))), 3)}
  IN CASE n = 0 -> Checked(AgainInt("isNode"))
       [] n = 1 -> IF e = "UNKNOWN_RESOURCE" THEN {Counting(AgainInt("createNode"), 2)}
                   ELSE {Cleared(Counting(Value("getNodeConfiguredState"), 9))}
       [] n = 10 -> IF v = 0 THEN {Crash}
                    ELSE {AgainInt("setNodeConfiguredHost")} \cup enabled \cup disabled
       [] n = 11 -> {Cleared(s) : s \in enabled} \cup disabled
       [] n = 12 -> IF e = "UNKNOWN_RESOURCE" THEN {Counting(AgainInt("setNodeStatus"), 2)}
                    ELSE {Goto(2)}
       [] n = 3 -> nodeconfig_update(n, v)
       [] n = 4 -> {IF s.crash THEN s ELSE Answering(s)
                      : s \in nodeconfig_update(n, v)}
       [] OTHER -> {Nothing}

updateNodeStats(n, e, v, o) ==
  IF n = 0 THEN {Again("isNodeEnabledAndConfigured")}
  ELSE IF e = OK THEN {Ask("updateNodeStats")} ELSE {Nothing}

(* A node configured before it is seen: unless it is known, the platform is  *)
(* looked up and the row created.  cb_int_rewind has made the first look-up's*)
(* "unknown" the fault of the call by then.                                  *)
addNode(n, e, v, o) ==
  CASE n = 0 -> Checked(AgainInt("isNode"))
    [] n = 1 -> IF e # "UNKNOWN_RESOURCE" THEN {Fail("ENTITY_ALREADY_EXISTS")}
                ELSE {Cleared(AgainInt("isPlatformByName"))}
    [] n = 2 -> {Cleared(s) : s \in nodeconfig_update(2, v)}
    [] OTHER -> IF e = OK THEN nodeconfig_update(n, v) ELSE {Nothing}

(* Without a name the node is disabled and its module cleared, side by side. *)
(* With one, the module must belong to the node's platform; when it does     *)
(* not, another look-up is sent although the error already answers.          *)
setModule(belongs, any, set, n, e, v, o) ==
  CASE n = 0 -> {Both(Ask("setNodeStatus"), AgainInt("setNodeControlModuleByName")),
                 Value("getNodePlatform")}
    [] n = 1 -> {IF v # 0 THEN Again(belongs)
                 ELSE IF e = OK THEN Answer ELSE Nothing}
    [] OTHER -> {IF e = OK THEN Ask(set)
                 ELSE IF n = 2 THEN Again(any) ELSE Fail("UNKNOWN_RESOURCE")}
setNodeControlModuleByName(n, e, v, o) ==
  setModule("isControlModuleForPlatformByName", "isControlModuleForPlatform",
            "setNodeControlModuleByName", n, e, v, o)
setNodeControlModule(n, e, v, o) ==
  setModule("isControlModuleForPlatformById", "isControlModuleForPlatformByMid",
            "setNodeControlModule", n, e, v, o)

NodeMethods == {"registerNode", "updateNodeStats", "addNode",
                "setNodeControlModuleByName", "setNodeControlModule"}
(* One entry of a method, and the methods: a read is named by its query.     *)
NodeStep(m, n, e, v, o) ==
  CASE m = "registerNode" -> registerNode(n, e, v, o)
    [] m = "updateNodeStats" -> updateNodeStats(n, e, v, o)
    [] m = "addNode" -> addNode(n, e, v, o)
    [] m = "setNodeControlModuleByName" -> setNodeControlModuleByName(n, e, v, o)
    [] m = "setNodeControlModule" -> setNodeControlModule(n, e, v, o)
    [] m = "isNODEowner" -> isNODEowner
    [] m = "getNodeStats" -> getNodeStats
    [] m = "isNODE" -> isNODE
    [] m = "getNodeCount" -> getNodeCount
    [] OTHER -> {Ask(m)}
NodeAll ==
  NodeMethods \cup AttributeReads \cup StateReads \cup NodeListReads \cup
  RemoveReads \cup NodeOtherReads \cup {"isNODEowner", "getNodeStats",
  "isNODE", "getNodeCount"}
=============================================================================
