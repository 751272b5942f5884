------------------------------ MODULE VmCalls ------------------------------
(* The machines: functions-vm.c, but for the update of machines, which has   *)
(* a module of its own (VmUpdate).                                           *)
EXTENDS CallSteps

TopReads == {"getTopCpuConsumers", "getTopBandwidthConsumers"}
PrivilegeReads == {"isVMowner", "getPrivilege", "grantPrivilege",
                   "revokePrivilege", "getAllUsersByVm"}
VmReads ==
  {"setVmNeedsReboot", "needsReboot", "getVMparentNode", "getVMparentAddress",
   "saveVmNotes", "getVmNotes", "getVMstat", "getVMattribute",
   "saveVMrevision", "getAllVmsByNode", "getVmsByNetwork"}
VmRowReads == {"getVM", "getVmByName", "isVmIgnored"}
TemplateReads ==
  {"getAllTemplates", "getAllTemplatesFull", "getTemplate",
   "getTemplateByName", "getTemplateConfigByName", "getTemplateConfig",
   "hasGuestTools", "addTemplate", "modifyTemplate"}
isVM == Checked(Ask("isVM"))
getVmByRev == Checked(Ask("getVmByRev"))
ztoolsUpdate == {Ask("isNodeEnabledAndConfigured")}
removeVm == {Ask("ignoreVm"), Ask("removeVm")}
getVmCount == {Ask("getVmCount"), Ask("getVmCountByUID")}
VmUnimplemented == {"getAllUserGroupsByVm", "snapshotVM", "restoreVM"}

(* The sort field is too long, or the machines are read, sorted or not.      *)
vmLists(uid) == IF uid THEN {"getVMsByUID", "getVMsByUIDSorted"}
                ELSE {"getVMs", "getVMsSorted"}
vmList(uid) == {Fail("INVALID_PARAMETER")} \cup {Ask(q) : q \in vmLists(uid)}

(* A list of machines in full: the list, then one context of its own per     *)
(* machine, counted in the caller's count, the last of which brings the      *)
(* method back at 2.                                                         *)
vm_cb_getallvmsfull(first, n, e, v) ==
  CASE n = 0 -> first
    [] n = 1 -> IF e # OK THEN {Nothing}
                ELSE {Counting(Times(v, "vm_cb_getvm"), 2 + v)}
    [] n = 2 -> {Answer}
    [] OTHER -> {Nothing}
getVmsByNetworkFull(n, e, v, o) ==
  vm_cb_getallvmsfull({Value("getVmsByNetwork")}, n, e, v)
getAllVmsFullByNode(n, e, v, o) ==
  vm_cb_getallvmsfull({Value("getAllVmsByNode")}, n, e, v)
vmListFull(uid, n, e, v) ==
  vm_cb_getallvmsfull({Fail("INVALID_PARAMETER")} \cup {Value(q) : q \in vmLists(uid)},
                      n, e, v)
getVMsFullUID(n, e, v, o) == vmListFull(TRUE, n, e, v)
getVMsFull(n, e, v, o) == vmListFull(FALSE, n, e, v)

(* Power, pause, migration...: a job for the node's module.                  *)
VmActions ==
  {"poweronVM", "poweroffVM", "shutdownVM", "rebootVM", "pauseVM",
   "disableStateHandlingVM", "enableStateHandlingVM", "unpauseVM",
   "suspendVM", "migrateVM"}
vmAction(n, e, v, o) ==
  IF e # OK THEN {Fail("JOB_CREATION_FAILED")}
  ELSE CASE n = 0 -> {AskCb("getVMparentNodeAndAddress", "job_node_addr")}
         [] n = 1 -> {AskCb("getNodeControlModule", "job_module")}
         [] OTHER -> {JobAdd}

(* createVM says ENTITY_ALREADY_EXISTS of every insertion (SqlKinds), so the *)
(* call ends with it once the row is there; the configuration and the job of *)
(* the counts 4 to 6 are out of reach.                                       *)
addVmToNode(n, e, v, o) ==
  CASE n = 0 -> Checked(Value("isVM"))
    [] n = 1 -> IF e = OK THEN {Fail("ENTITY_ALREADY_EXISTS")}
                ELSE {Cleared(Value("getNodeControlModule"))}
    [] n = 2 -> IF e # OK THEN {Nothing}
                ELSE {Fail("NODE_UNCONFIGURED")} \cup
                     IF v = 0 THEN {} ELSE {Hold(Value("getLatestNodeStat"))}
    [] n = 3 -> IF v = 0 THEN {Fail("DB_FAIL")}
                ELSE IF e = OK THEN {Fail("INSUFFICIENT_RESOURCES"), Value("createVM")}
                ELSE {Nothing}
    [] OTHER -> {Nothing}

(* Asked to save a template or not, the code saves one.  The platform's      *)
(* number is read through as if it were a pointer to it; number 0 survives,  *)
(* and at count 2 "template" is the NULL of a new entry.                     *)
saveVM(n, e, v, o) ==
  CASE n = 0 -> {Value("getPlatformIdByVm")}
    [] n = 1 /\ e = OK -> {Crash, Value("createVmTemplate")}
    [] OTHER -> {Crash}

VmMethods == {"getVmsByNetworkFull", "getAllVmsFullByNode", "getVMsFullUID",
              "getVMsFull", "addVmToNode", "saveVM"} \cup VmActions
(* One entry of a method, and the methods: a read is named by its query.     *)
VmStep(m, n, e, v, o) ==
  CASE m = "getVmsByNetworkFull" -> getVmsByNetworkFull(n, e, v, o)
    [] m = "getAllVmsFullByNode" -> getAllVmsFullByNode(n, e, v, o)
    [] m = "getVMsFullUID" -> getVMsFullUID(n, e, v, o)
    [] m = "getVMsFull" -> getVMsFull(n, e, v, o)
    [] m = "addVmToNode" -> addVmToNode(n, e, v, o)
    [] m = "saveVM" -> saveVM(n, e, v, o)
    [] m \in VmActions -> vmAction(n, e, v, o)
    [] m \in VmUnimplemented -> {Fail("NOT_IMPLEMENTED")}
    [] m = "getVMs" -> vmList(FALSE)
    [] m = "getVMsUID" -> vmList(TRUE)
    [] m = "isVM" -> isVM
    [] m = "getVmByRev" -> getVmByRev
    [] m = "ztoolsUpdate" -> ztoolsUpdate
    [] m = "removeVm" -> removeVm
    [] m = "getVmCount" -> getVmCount
    [] OTHER -> {Ask(m)}
VmAll ==
  VmMethods \cup TopReads \cup PrivilegeReads \cup VmReads \cup VmRowReads
  \cup TemplateReads \cup VmUnimplemented \cup {"getVMs", "getVMsUID"} \cup
  {"isVM", "getVmByRev", "ztoolsUpdate", "removeVm", "getVmCount"}
=============================================================================
