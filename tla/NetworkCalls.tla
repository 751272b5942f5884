---------------------------- MODULE NetworkCalls ----------------------------
(* The network service: functions-network.c.                                 *)
EXTENDS CallSteps

NetworkReads == {"isNetwork", "getNetwork", "getAllNetworksByType",
                 "getAllNetworks", "getAllNetworksFull"}
isNetworkId == Checked(Ask("isNetworkId"))
(* No look-up of the name goes before the insertion.                         *)
DefineReads == {"defineNetwork", "getNetworksByNode"}
NetworkModuleReads ==
  {"setNetworkControlModule", "getNetworkControlModule",
   "getNetworkControlModules", "getNetworkControlModulesFull"}
NodesByNetworkReads == {"getNodesByNetwork"}
NetworkOtherReads == {"getNetworkIdByName", "getNodesByNetwork", "getNetworkCount"}

(* A network is attached to (or detached from) a node.  The relation is      *)
(* written at count 1, whether or not the node was found.  The job's text is *)
(* never set for these two, and the reply with the node's host is taken for  *)
(* a list of two, so the job is given up there: what follows is out of reach.*)
networkOfNode(q, n, e, v, o) ==
  CASE n = 0 -> Checked(Again("isNode"))
    [] n = 1 -> {Again(q)}
    [] n = 2 -> {Value("getNetwork")}
    [] n = 3 -> IF v = 0 THEN {IF e = OK THEN Fail("UNKNOWN_RESOURCE") ELSE Nothing}
                ELSE {AskCb("getNodeConfiguredHost", "job_node_addr_wild")}
    [] OTHER -> {Fail("SERVER_FAILURE")}
attachNetworkToNode(n, e, v, o) ==
  networkOfNode("attachNetworkToNode", n, e, v, o)
detachNetworkFromNode(n, e, v, o) ==
  networkOfNode("detachNetworkFromNode", n, e, v, o)

(* An interface of a machine.  Count 0 runs on into count 1: the machine and *)
(* the network are looked up side by side, and whichever reply comes first   *)
(* takes the first callback.  A yes or no that gets where the network is     *)
(* expected is dereferenced as a pointer.  q is the change, made at count 4. *)
network_job_create_vm(q, n, e, v, o) ==
  LET net == IF q = "addNetIf" THEN Again("isNetworkId") ELSE Value("getNetwork")
  IN CASE n = 0 -> Checked(Both(Again("isVM"), net))
       [] n = 1 -> {net}
       [] n = 2 -> IF v = Wild THEN {Crash}
                   ELSE IF v = 0 THEN {IF e = OK THEN Fail("UNKNOWN_RESOURCE") ELSE Nothing}
                   ELSE {AskCb("getVMparentNodeAndAddress", "job_node_addr")}
       [] n = 3 -> {AskCb("getControlModuleNameByNetwork", "job_module")}
       [] n = 4 -> {Again(q)}
       [] n = 5 -> {JobAdd}
       [] OTHER -> {Fail("SERVER_FAILURE")}
attachNetIf(n, e, v, o) == network_job_create_vm("attachNetIf", n, e, v, o)
detachNetIf(n, e, v, o) == network_job_create_vm("detachNetIf", n, e, v, o)
addNetIf(n, e, v, o) == network_job_create_vm("addNetIf", n, e, v, o)

(* The network's number is given as -1, which the first check refuses.       *)
removeNetIf(n, e, v, o) == {Fail("INVALID_PARAMETER")}

(* The same -1 skips the check here but is no network's number.              *)
modifyNetIf(n, e, v, o) ==
  CASE n = 0 -> {Value("getVMvifByMac")}
    [] n = 1 -> IF v = 0 THEN {IF e = OK THEN Fail("UNKNOWN_RESOURCE") ELSE Nothing}
                ELSE {Answer, Value("getNetworkOfNone")}
    [] OTHER -> network_job_create_vm("modifyNetIf", n, e, v, o)

(* "Not in use" is what RESOURCE_IN_USE answers; a network in use is removed.*)
removeNetwork(n, e, v, o) ==
  CASE n = 0 -> Checked(Again("isNetworkId"))
    [] n = 1 -> IF e # OK THEN {Nothing} ELSE {AgainInt("isNetworkInUse")}
    [] n = 2 /\ e = "UNKNOWN_RESOURCE" -> {Fail("RESOURCE_IN_USE")}
    [] n = 2 /\ e # "UNKNOWN_RESOURCE" ->
         IF e # OK THEN {Nothing} ELSE {Ask("removeNetwork")}
    [] OTHER -> {Fail("SERVER_FAILURE")}

(* One query per node, counted with ctx->count = 10 + nodes: each reply      *)
(* raises the count and lowers it again, so it never gets to 10 and nothing  *)
(* enters the method again.                                                  *)
PerNode(k) == Counting(TimesCb(k, "getNodeNameAndUuid", "net_target_host"), 10 + k)

modifyNetwork(n, e, v, o) ==
  CASE n = 0 -> {Value("getNetwork")}
    [] n = 1 -> IF e # OK \/ v = 0 THEN {Nothing}
                ELSE {Fail("NO_CHANGE_PERFORMED"), Value("getNodesByNetwork")}
    [] n = 2 -> {PerNode(v)}
    [] OTHER -> {Nothing}

(* EINA_LIST_FREE walks ctx->retval while the loop assigns it: one node is   *)
(* asked about, the others are forgotten.                                    *)
detachAllNodesByNetwork(n, e, v, o) ==
  CASE n = 0 -> Checked(Again("isNetworkId"))
    [] n = 1 -> {Value("getNodesByNetwork")}
    [] n = 2 -> IF v = 0 THEN {IF e = OK THEN Fail("UNKNOWN_RESOURCE") ELSE Nothing}
                ELSE {Value("getNetwork")}
    [] OTHER -> {PerNode(1)}

(* One query per interface; the list whose length is counted is a network,   *)
(* so the count is 10 and the first address finds no job (or, failing, ends  *)
(* the list without an answer).                                              *)
detachAllNetIfsByNetwork(n, e, v, o) ==
  CASE n = 0 -> Checked(Value("getNetwork"))
    [] n = 1 -> IF v = 0 THEN {Fail("UNKNOWN_RESOURCE")}
                ELSE {Value("getVMvifsByNetwork")}
    [] OTHER ->
         IF v = 0 THEN {Fail("NO_CHANGE_PERFORMED")}
         ELSE {Counting(TimesCb(v, "getVMparentNodeAndAddress", "net_target_addr"), 10)}

NetworkMethods ==
  {"attachNetworkToNode", "detachNetworkFromNode", "attachNetIf", "detachNetIf",
   "addNetIf", "removeNetIf", "modifyNetIf", "removeNetwork", "modifyNetwork",
   "detachAllNodesByNetwork", "detachAllNetIfsByNetwork"}
(* One entry of a method, and the methods: a read is named by its query.     *)
NetworkStep(m, n, e, v, o) ==
  CASE m = "attachNetworkToNode" -> attachNetworkToNode(n, e, v, o)
    [] m = "detachNetworkFromNode" -> detachNetworkFromNode(n, e, v, o)
    [] m = "attachNetIf" -> attachNetIf(n, e, v, o)
    [] m = "detachNetIf" -> detachNetIf(n, e, v, o)
    [] m = "addNetIf" -> addNetIf(n, e, v, o)
    [] m = "removeNetIf" -> removeNetIf(n, e, v, o)
    [] m = "modifyNetIf" -> modifyNetIf(n, e, v, o)
    [] m = "removeNetwork" -> removeNetwork(n, e, v, o)
    [] m = "modifyNetwork" -> modifyNetwork(n, e, v, o)
    [] m = "detachAllNodesByNetwork" -> detachAllNodesByNetwork(n, e, v, o)
    [] m = "detachAllNetIfsByNetwork" -> detachAllNetIfsByNetwork(n, e, v, o)
    [] m = "isNetworkId" -> isNetworkId
    [] OTHER -> {Ask(m)}
NetworkAll ==
  NetworkMethods \cup NetworkReads \cup DefineReads \cup NetworkModuleReads
  \cup NodesByNetworkReads \cup NetworkOtherReads \cup {"isNetworkId"}
=============================================================================
