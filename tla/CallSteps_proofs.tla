--------------------------- MODULE CallSteps_proofs ---------------------------
(***************************************************************************)
(* What one entry of a method may do, for every method of the services:    *)
(* it asks for what the database object or the engine knows, and pushes    *)
(* callbacks that the engine knows; and most methods never dereference     *)
(* NULL, nor push a callback that does.  RpcCall_proofs builds on it.      *)
(***************************************************************************)
EXTENDS RpcCall, TLAPS

\* Everything a method asks for: a query of the database, a context of its
\* own, or a member of the database object that is NULL.
Asks == Queries \cup Kids \cup NotLoaded \cup {"getNetworkOfNone"}

\* The callbacks that can do no harm: they enter the method again without a
\* value, send another query, or answer.
Meek ==
  {"rewind", "int_rewind", "answer", "user_name", "user_lang", "group_modify",
   "group_add", "generatemac", "ptr_job", "ptr_int", "jobs_cb_get",
   "jobs_resource"}
Callbacks ==
  Meek \cup {"value", "job_node_addr", "job_node_addr_wild", "job_module",
             "job_module_of_none", "net_target_host", "net_target_addr",
             "jobs_cb_add", "null"}

\* An entry that survives, asking for members of A with callbacks of C.
Shape(A, C) ==
  [ask : Seq(A), cb : Seq(C), err : Errors \cup {Same}, count : Int,
   obj : {Same, "object", "null"}, ret : BOOLEAN, crash : {FALSE}]

Typed == Shape(Asks, Callbacks)
Plain == Shape(Asks \ NotLoaded, Meek)
Silent == Shape(Asks \ NotLoaded, {})

\* The vocabulary of CallSteps, over queries of Q and callbacks of C, stays
\* within T.
Vocabulary(T, Q, C) ==
  /\ Nothing \in T /\ Answer \in T
  /\ \A x \in Errors : Fail(x) \in T
  /\ \A k \in Int : Goto(k) \in T
  /\ \A q \in Q : /\ Ask(q) \in T
                  /\ \A cb \in C : AskCb(q, cb) \in T
                  /\ \A k \in Int : /\ Times(k, q) \in T
                                    /\ \A cb \in C : TimesCb(k, q, cb) \in T
  /\ \A s \in T : /\ Cleared(s) \in T /\ Hold(s) \in T /\ Answering(s) \in T
                  /\ \A k \in Int : Counting(s, k) \in T /\ HoldValue(s, k) \in T
                  /\ \A t \in T : Both(s, t) \in T

\* A query of a file is a query.
LEMMA InFile ==
  ASSUME NEW f \in QueryFiles, NEW k \in Kinds \cap DOMAIN f
  PROVE  f[k] \subseteq Queries
BY DEF Queries, QueriesOf

LEMMA NoneOf == ASSUME NEW S PROVE <<>> \in Seq(S)
OBVIOUS

LEMMA OneOf == ASSUME NEW S, NEW x \in S PROVE <<x>> \in Seq(S)
OBVIOUS

LEMMA Joined == ASSUME NEW S, NEW s \in Seq(S), NEW t \in Seq(S) PROVE s \o t \in Seq(S)
OBVIOUS

LEMMA Repeated ==
  ASSUME NEW S, NEW x \in S, NEW k \in Int
  PROVE  [i \in 1..k |-> x] \in Seq(S)
<1>1. CASE k >= 0 BY <1>1
<1>2. CASE k < 0
  <2>1. 1..k = 1..0 BY <1>2
  <2> QED BY <2>1
<1> QED BY <1>1, <1>2

\* Shapes are closed under the vocabulary.
LEMMA ShapeVocabulary ==
  ASSUME NEW A, NEW C, NEW Q, Q \subseteq A, NEW D, D \subseteq C
  PROVE  Vocabulary(Shape(A, C), Q, D)
<1>1. <<>> \in Seq(A) /\ <<>> \in Seq(C) BY NoneOf
<1>2. /\ \A q \in A : <<q>> \in Seq(A)
      /\ \A cb \in C : <<cb>> \in Seq(C)
  BY OneOf
<1>3. /\ \A s, t \in Seq(A) : s \o t \in Seq(A)
      /\ \A s, t \in Seq(C) : s \o t \in Seq(C)
  BY Joined
<1>4. /\ \A k \in Int : \A q \in A : [i \in 1..k |-> q] \in Seq(A)
      /\ \A k \in Int : \A cb \in C : [i \in 1..k |-> cb] \in Seq(C)
  BY Repeated
<1> USE DEF Shape
<1>5. Nothing \in Shape(A, C) BY <1>1 DEF Nothing, NoCount
<1>6. \A s \in Shape(A, C) :
        Cleared(s) \in Shape(A, C) /\ Hold(s) \in Shape(A, C) /\ Answering(s) \in Shape(A, C)
  BY DEF Cleared, Hold, Answering, OK, Errors
<1>7. \A s \in Shape(A, C) : \A k \in Int : Counting(s, k) \in Shape(A, C)
  BY DEF Counting
<1>8. \A s \in Shape(A, C) : \A k \in Int : HoldValue(s, k) \in Shape(A, C)
  BY DEF HoldValue
<1>9. \A s \in Shape(A, C) : \A t \in Shape(A, C) : Both(s, t) \in Shape(A, C)
  BY <1>3 DEF Both
<1>10. \A x \in Errors : Fail(x) \in Shape(A, C)
  BY <1>5 DEF Fail
<1>11. \A q \in A : Ask(q) \in Shape(A, C)
  BY <1>5, <1>2 DEF Ask
<1>12. \A q \in A : \A cb \in C : AskCb(q, cb) \in Shape(A, C)
  BY <1>5, <1>2 DEF AskCb
<1>13. \A k \in Int : \A q \in A : Times(k, q) \in Shape(A, C)
  BY <1>5, <1>4 DEF Times
<1>14. \A k \in Int : \A q \in A : \A cb \in C : TimesCb(k, q, cb) \in Shape(A, C)
  <2> TAKE k \in Int
  <2> TAKE q \in A
  <2> TAKE cb \in C
  <2>1. Times(k, q) \in Shape(A, C) /\ [i \in 1..k |-> cb] \in Seq(C) BY <1>13, <1>4
  <2> QED BY <2>1 DEF TimesCb
<1> HIDE DEF Shape
<1>15. Answer \in Shape(A, C) BY <1>5, <1>6 DEF Answer
<1>16. \A k \in Int : Goto(k) \in Shape(A, C) BY <1>5, <1>7 DEF Goto
<1>17. /\ \A q \in Q : q \in A
       /\ \A cb \in D : cb \in C
  OBVIOUS
<1>18. \A q \in Q : /\ Ask(q) \in Shape(A, C)
                    /\ \A cb \in D : AskCb(q, cb) \in Shape(A, C)
                    /\ \A k \in Int : /\ Times(k, q) \in Shape(A, C)
                                      /\ \A cb \in D : TimesCb(k, q, cb) \in Shape(A, C)
  BY <1>11, <1>12, <1>13, <1>14, <1>17
<1> QED BY <1>5, <1>6, <1>7, <1>8, <1>9, <1>10, <1>15, <1>16, <1>18 DEF Vocabulary

LEMMA LargerShape ==
  ASSUME NEW A, NEW C, NEW B, NEW D, A \subseteq B, C \subseteq D
  PROVE  Shape(A, C) \subseteq Shape(B, D)
<1>1. Seq(A) \subseteq Seq(B) /\ Seq(C) \subseteq Seq(D)
  OBVIOUS
<1> QED BY <1>1 DEF Shape

LEMMA PlainIsTyped == Silent \subseteq Plain /\ Plain \subseteq Typed
<1>1. Silent \subseteq Plain
  <2>1. {} \subseteq Meek OBVIOUS
  <2> QED BY <2>1, LargerShape DEF Silent, Plain
<1>2. Plain \subseteq Typed
  <2>1. Meek \subseteq Callbacks /\ Asks \ NotLoaded \subseteq Asks BY DEF Callbacks
  <2> QED BY <2>1, LargerShape DEF Typed, Plain
<1> QED BY <1>1, <1>2

LEMMA Survives == Crash.crash = TRUE /\ \A s \in Typed : s.crash = FALSE
BY DEF Crash, Nothing, Typed, Shape

\* The same, of the steps with names of their own.
Steady(T, Q) ==
  /\ Nothing \in T /\ Answer \in T
  /\ \A x \in Errors : Fail(x) \in T
  /\ \A k \in Int : Goto(k) \in T
  /\ \A q \in Q : Ask(q) \in T /\ Again(q) \in T /\ AgainInt(q) \in T
  /\ \A q \in Q : \A k \in Int : Times(k, q) \in T

LEMMA Combined ==
  \A T \in {Plain, Typed, Silent} : \A s \in T :
    /\ Cleared(s) \in T /\ Hold(s) \in T /\ Answering(s) \in T
    /\ \A k \in Int : Counting(s, k) \in T /\ HoldValue(s, k) \in T
    /\ \A t \in T : Both(s, t) \in T
<1>1. ASSUME NEW A, NEW C, NEW s \in Shape(A, C)
      PROVE  /\ Cleared(s) \in Shape(A, C) /\ Hold(s) \in Shape(A, C)
             /\ Answering(s) \in Shape(A, C)
             /\ \A k \in Int : Counting(s, k) \in Shape(A, C) /\ HoldValue(s, k) \in Shape(A, C)
             /\ \A t \in Shape(A, C) : Both(s, t) \in Shape(A, C)
  <2>1. Vocabulary(Shape(A, C), {}, {}) BY ShapeVocabulary
  <2> QED BY <2>1 DEF Vocabulary
<1> QED BY <1>1 DEF Plain, Typed, Silent

LEMMA PlainSteps ==
  ASSUME NEW Q, Q \subseteq Asks
  PROVE  /\ Steady(Plain, Q \ NotLoaded)
         /\ \A q \in Q \ NotLoaded : \A cb \in Meek : AskCb(q, cb) \in Plain
<1>1. Vocabulary(Plain, Q \ NotLoaded, Meek)
  BY ShapeVocabulary DEF Plain
<1>2. "rewind" \in Meek /\ "int_rewind" \in Meek BY DEF Meek
<1> QED BY <1>1, <1>2 DEF Vocabulary, Steady, Again, AgainInt

LEMMA TypedSteps ==
  ASSUME NEW Q, Q \subseteq Asks
  PROVE  /\ Steady(Typed, Q) /\ JobAdd \in Typed
         /\ \A q \in Q : Value(q) \in Typed
         /\ \A q \in Q : \A cb \in Callbacks : AskCb(q, cb) \in Typed
         /\ \A q \in Q : \A k \in Int : \A cb \in Callbacks : TimesCb(k, q, cb) \in Typed
<1>1. Vocabulary(Typed, Q, Callbacks)
  BY ShapeVocabulary DEF Typed
<1>2. {"rewind", "int_rewind", "value", "jobs_cb_add"} \subseteq Callbacks BY DEF Callbacks, Meek
<1>3. "addJob" \in Asks
  <2>1. JobQueries3 \in QueryFiles BY DEF QueryFiles
  <2>2. "addJob" \in Queries BY <2>1, InFile DEF JobQueries3, Kinds
  <2> QED BY <2>2 DEF Asks
<1>4. JobAdd \in Typed
  <2>1. Vocabulary(Typed, Asks, Callbacks)
    BY ShapeVocabulary DEF Typed
  <2> QED BY <2>1, <1>2, <1>3 DEF Vocabulary, JobAdd
<1> QED BY <1>1, <1>2, <1>4 DEF Vocabulary, Steady, Again, AgainInt, Value

\* The methods whose entries need to be told apart: they expect an object from
\* one query and from no other.
Staged ==
  {"modifyDiskByStorage", "detachStorageFromNode", "detachAllNodesByNetwork",
   "addNetIf", "modifyNetIf", "connectGraphicalConsole", "getConsoleLockUser",
   "getSupportedConsoles", "setNodeControlModuleByName", "setNodeControlModule",
   "getVmsByNetworkFull", "getAllVmsFullByNode", "getVMsFullUID", "getVMsFull",
   "addVmToNode", "getPlatformsFull", "setConfigs"}
Excepted == Crashes \cup Staged \cup Internal

StorageNames ==
  {"addJob", "attachStorageToNode", "defineStorage", "detachAllDisksByStorage",
   "detachDisk", "detachStorageFromNode", "getAllStorage",
   "getAllStorageByType", "getAllStorageFull", "getAllStorageTypes",
   "getControlModuleNameByStorage", "getDiskByStorage", "getDisksByStorage",
   "getNodeConfiguredHost", "getNodesByStorage", "getStorage",
   "getStorageByNode", "getStorageControlModule", "getStorageControlModules",
   "getStorageControlModulesFull", "getStorageCount", "getStorageIdByName",
   "getVmByDisk", "getVmsByStorage", "isDiskByStorage", "isDiskInUse",
   "isNode", "isStorage", "isStorageId", "isStorageInUse", "modifyDisk",
   "modifyStorage", "removeStorage", "setStorageControlModule",
   "storage_cb_vmjob"}

NetworkNames ==
  {"addJob", "addNetIf", "attachNetIf", "attachNetworkToNode", "defineNetwork",
   "detachAllNetIfsByNetwork", "detachNetIf", "detachNetworkFromNode",
   "getAllNetworks", "getAllNetworksByType", "getAllNetworksFull",
   "getControlModuleNameByNetwork", "getNetwork", "getNetworkOfNone",
   "getNetworkControlModule", "getNetworkControlModules",
   "getNetworkControlModulesFull", "getNetworkCount", "getNetworkIdByName",
   "getNetworksByNode", "getNodeConfiguredHost", "getNodeNameAndUuid",
   "getNodesByNetwork", "getVMparentNodeAndAddress", "getVMvifByMac",
   "getVMvifsByNetwork", "isNetwork", "isNetworkId", "isNetworkInUse",
   "isNode", "isVM", "modifyNetIf", "modifyNetwork", "removeNetIf",
   "removeNetwork", "setNetworkControlModule"}

ConsoleNames ==
  {"acquireConsoleLock", "console_disconnect_text", "getConfig",
   "getConsoleClientHost", "getConsoleLockSession",
   "getConsoleLockVmsBySession", "getConsoleNodeHost", "getConsoleType",
   "getGraphicalConsolePort", "getGraphicalConsoleTunnelPort",
   "getTextConsolePort", "getUserNameBySession", "getVMattribute",
   "getVMparentAddress", "hasConsoleLock", "releaseConsoleLock",
   "saveGraphicalConsolePort", "saveTextConsolePort"}

NodeNames ==
  {"createNode", "getAllNodes", "getAllNodesByUID", "getAllNodesFull",
   "getAllNodesFullRangeSorted", "getAllUnconfiguredNodes",
   "getAllUnconfiguredNodesByUID", "getLatestNodeStat", "getNODEattribute",
   "getNODEstat", "getNode", "getNodeAddress", "getNodeByHostname",
   "getNodeByName", "getNodeConfiguredHost", "getNodeConfiguredState",
   "getNodeControlModule", "getNodeCount", "getNodeCountByUID",
   "getNodeDefaultVNCpass", "getNodeHVM", "getNodeName", "getNodePlatform",
   "getNodeStats", "getPrivilege", "grantPrivilege", "isControlModuleByName",
   "isControlModuleForPlatform", "isControlModuleForPlatformById",
   "isControlModuleForPlatformByMid", "isControlModuleForPlatformByName",
   "isNODEowner", "isNode", "isNodeEnabled", "isNodeEnabledAndConfigured",
   "isPlatformByName", "removeNode", "revokePrivilege",
   "setNodeConfiguredHost", "setNodeControlModule",
   "setNodeControlModuleByName", "setNodeStatus", "updateNodeConfig",
   "updateNodeStats"}

VmNames ==
  {"addJob", "addTemplate", "createVM", "createVmTemplate", "getAllTemplates",
   "getAllTemplatesFull", "getAllUsersByVm", "getAllVmsByNode",
   "getLatestNodeStat", "getNodeControlModule", "getPlatformIdByVm",
   "getPrivilege", "getTemplate", "getTemplateByName", "getTemplateConfig",
   "getTemplateConfigByName", "getTopBandwidthConsumers", "getTopCpuConsumers",
   "getVM", "getVMattribute", "getVMparentAddress", "getVMparentNode",
   "getVMparentNodeAndAddress", "getVMs", "getVMsByUID", "getVMsByUIDSorted",
   "getVMsSorted", "getVMstat", "getVmByName", "getVmByRev", "getVmCount",
   "getVmCountByUID", "getVmNotes", "getVmsByNetwork", "grantPrivilege",
   "hasGuestTools", "ignoreVm", "isNodeEnabledAndConfigured", "isVM",
   "isVMowner", "isVmIgnored", "modifyTemplate", "needsReboot", "removeVm",
   "revokePrivilege", "saveVMrevision", "saveVmNotes", "setVmNeedsReboot",
   "vm_cb_getvm"}

AccountNames ==
  {"addPlatform", "addToUserGroup", "addToUserGroupByName",
   "addToUserGroupByNameAndUsername", "addUser", "addUserGroup", "createDisk",
   "createNetIf", "disableControlModule", "disablePlatform",
   "enableControlModule", "enablePlatform", "getActiveUserUID",
   "getAllPlugins", "getAllUserGroupNames", "getAllUserGroups",
   "getAllUserGroupsFull", "getAllUsers", "getAllUsersFull", "getConfigValue",
   "getConfigsFull", "getControlModule", "getControlModuleByName",
   "getControlModuleConfig", "getControlModuleNameByNetwork",
   "getControlModules", "getControlModulesByPlatform", "getControlModulesFull",
   "getFrontendPlugins", "getLanguageCode", "getLanguages",
   "getLatestRevision", "getLoggedInUsernames", "getLoggedInUsers",
   "getNodeLogs", "getNumVMdisks", "getNumVMvifs", "getOperatingSystems",
   "getPlatform", "getPlatformByName", "getPlatformConfig",
   "getPlatformFeatures", "getPlatformIdByVm", "getPlatforms",
   "getPlatformsFull", "getUser", "getUserByName", "getUserCount",
   "getUserGroup", "getUserGroupByName", "getUserGroupCount", "getUserGroupId",
   "getUserGroupMembers", "getUserGroupMembersByName",
   "getUserGroupMembersFull", "getUserGroupName", "getUserGroupNamesByName",
   "getUserGroupNamesByUID", "getUserGroupsByName", "getUserGroupsByUID",
   "getUserType", "getUserTypeByName", "getUserUID", "getUsername",
   "getVMdisks", "getVMvifByMac", "getVMvifs", "getVmDisk", "getVmLogs",
   "isActive", "isActiveByName", "isControlModule", "isControlModuleByName",
   "isControlModuleForPlatform", "isControlModuleForPlatformByName", "isDisk",
   "isFrontendPluginEnabled", "isNetIf", "isNetIfByMAC", "isPlatform",
   "isPlatformByName", "isUserGroup", "isUserGroupByName", "isUserGroupMember",
   "isUserGroupMemberByName", "isUserGroupMemberByNameAndUsername",
   "isUserName", "isUserUID", "modifyPlatform", "modifyPlugin", "modifyUser",
   "modifyUserByName", "modifyUserGroup", "modifyUserGroupByName",
   "platform_get", "removeFromUserGroup", "removeFromUserGroupByName",
   "removeFromUserGroupByNameAndUsername", "removeUser", "removeUserByName",
   "removeUserGroup", "removeUserGroupByName", "renameUserGroup",
   "renameUserGroupByName", "setBlobConfig", "setConfig",
   "setControlModuleConfig", "setPassword", "setPasswordByName",
   "setPlatformConfig", "setUserAttribute", "updateDiskStats",
   "updateNetIfStats"}

JobNames ==
  {"addJob", "getJob", "getJobStatus", "getJobs", "getJobsByIds",
   "getJobsByUID", "getJobsByUUID", "getJobsStatus", "getRecentJobs",
   "getRecentJobsByUID", "isJob"}

LEMMA StorageNamesKnown == StorageNames \subseteq Asks
<1>1. {"getDisksByStorage", "isDiskInUse"} \subseteq Queries
  <2>1. DiskQueries1 \in QueryFiles BY DEF QueryFiles
  <2> QED BY <2>1, InFile DEF DiskQueries1, Kinds
<1>2. {"getDiskByStorage", "getVmByDisk"} \subseteq Queries
  <2>1. DiskQueries2 \in QueryFiles BY DEF QueryFiles
  <2> QED BY <2>1, InFile DEF DiskQueries2, Kinds
<1>3. {"getNodeConfiguredHost"} \subseteq Queries
  <2>1. NodeQueries2 \in QueryFiles BY DEF QueryFiles
  <2> QED BY <2>1, InFile DEF NodeQueries2, Kinds
<1>4. {"isNode"} \subseteq Queries
  <2>1. NodeQueries3 \in QueryFiles BY DEF QueryFiles
  <2> QED BY <2>1, InFile DEF NodeQueries3, Kinds
<1>5. {"getControlModuleNameByStorage", "getStorageControlModules",
       "getStorageControlModulesFull"} \subseteq Queries
  <2>1. PlatformQueries2 \in QueryFiles BY DEF QueryFiles
  <2> QED BY <2>1, InFile DEF PlatformQueries2, Kinds
<1>6. {"addJob"} \subseteq Queries
  <2>1. JobQueries3 \in QueryFiles BY DEF QueryFiles
  <2> QED BY <2>1, InFile DEF JobQueries3, Kinds
<1>7. {"defineStorage", "getAllStorage", "getAllStorageByType",
       "getAllStorageFull", "getNodesByStorage", "getStorage",
       "getStorageByNode", "isStorage", "isStorageId", "modifyStorage",
       "removeStorage"} \subseteq Queries
  <2>1. StorageQueries1 \in QueryFiles BY DEF QueryFiles
  <2> QED BY <2>1, InFile DEF StorageQueries1, Kinds
<1>8. {"attachStorageToNode", "detachAllDisksByStorage", "detachDisk",
       "detachStorageFromNode", "getAllStorageTypes",
       "getStorageControlModule", "getStorageIdByName", "getVmsByStorage",
       "isStorageInUse", "modifyDisk", "setStorageControlModule"} \subseteq Queries
  <2>1. StorageQueries2 \in QueryFiles BY DEF QueryFiles
  <2> QED BY <2>1, InFile DEF StorageQueries2, Kinds
<1>9. {"getStorageCount", "isDiskByStorage"} \subseteq Queries
  <2>1. StorageQueries3 \in QueryFiles BY DEF QueryFiles
  <2> QED BY <2>1, InFile DEF StorageQueries3, Kinds
<1> QED BY <1>1, <1>2, <1>3, <1>4, <1>5, <1>6, <1>7, <1>8, <1>9
      DEF StorageNames, Asks, Kids, NotLoaded

LEMMA NetworkNamesKnown == NetworkNames \subseteq Asks
<1>1. {"defineNetwork", "getAllNetworks", "getAllNetworksByType",
       "getAllNetworksFull", "getNetwork", "getNetworksByNode",
       "getNodesByNetwork", "removeNetwork"} \subseteq Queries
  <2>1. NetworkQueries1 \in QueryFiles BY DEF QueryFiles
  <2> QED BY <2>1, InFile DEF NetworkQueries1, Kinds
<1>2. {"addNetIf", "attachNetIf", "attachNetworkToNode",
       "detachAllNetIfsByNetwork", "detachNetIf", "detachNetworkFromNode",
       "getNetworkControlModule", "isNetwork", "isNetworkId", "modifyNetIf",
       "modifyNetwork", "removeNetIf", "setNetworkControlModule"} \subseteq Queries
  <2>1. NetworkQueries2 \in QueryFiles BY DEF QueryFiles
  <2> QED BY <2>1, InFile DEF NetworkQueries2, Kinds
<1>3. {"getNetworkCount", "getNetworkIdByName", "isNetworkInUse"} \subseteq Queries
  <2>1. NetworkQueries3 \in QueryFiles BY DEF QueryFiles
  <2> QED BY <2>1, InFile DEF NetworkQueries3, Kinds
<1>4. {"getNodeConfiguredHost"} \subseteq Queries
  <2>1. NodeQueries2 \in QueryFiles BY DEF QueryFiles
  <2> QED BY <2>1, InFile DEF NodeQueries2, Kinds
<1>5. {"getNodeNameAndUuid", "isNode"} \subseteq Queries
  <2>1. NodeQueries3 \in QueryFiles BY DEF QueryFiles
  <2> QED BY <2>1, InFile DEF NodeQueries3, Kinds
<1>6. {"getControlModuleNameByNetwork", "getNetworkControlModules",
       "getNetworkControlModulesFull"} \subseteq Queries
  <2>1. PlatformQueries2 \in QueryFiles BY DEF QueryFiles
  <2> QED BY <2>1, InFile DEF PlatformQueries2, Kinds
<1>7. {"addJob"} \subseteq Queries
  <2>1. JobQueries3 \in QueryFiles BY DEF QueryFiles
  <2> QED BY <2>1, InFile DEF JobQueries3, Kinds
<1>8. {"getVMvifByMac", "getVMvifsByNetwork"} \subseteq Queries
  <2>1. NetIfQueries1 \in QueryFiles BY DEF QueryFiles
  <2> QED BY <2>1, InFile DEF NetIfQueries1, Kinds
<1>9. {"isVM"} \subseteq Queries
  <2>1. VmQueries1 \in QueryFiles BY DEF QueryFiles
  <2> QED BY <2>1, InFile DEF VmQueries1, Kinds
<1>10. {"getVMparentNodeAndAddress"} \subseteq Queries
  <2>1. VmQueries5 \in QueryFiles BY DEF QueryFiles
  <2> QED BY <2>1, InFile DEF VmQueries5, Kinds
<1> QED BY <1>1, <1>2, <1>3, <1>4, <1>5, <1>6, <1>7, <1>8, <1>9, <1>10
      DEF NetworkNames, Asks, Kids, NotLoaded

LEMMA ConsoleNamesKnown == ConsoleNames \subseteq Asks
<1>1. {"acquireConsoleLock", "getConsoleClientHost", "getConsoleLockSession",
       "getConsoleLockVmsBySession", "getConsoleNodeHost", "getConsoleType",
       "getGraphicalConsolePort", "getGraphicalConsoleTunnelPort",
       "getTextConsolePort", "hasConsoleLock", "releaseConsoleLock",
       "saveGraphicalConsolePort", "saveTextConsolePort"} \subseteq Queries
  <2>1. ConsoleQueries \in QueryFiles BY DEF QueryFiles
  <2> QED BY <2>1, InFile DEF ConsoleQueries, Kinds
<1>2. {"getUserNameBySession"} \subseteq Queries
  <2>1. SessionQueries \in QueryFiles BY DEF QueryFiles
  <2> QED BY <2>1, InFile DEF SessionQueries, Kinds
<1>3. {"getVMattribute", "getVMparentAddress"} \subseteq Queries
  <2>1. VmQueries4 \in QueryFiles BY DEF QueryFiles
  <2> QED BY <2>1, InFile DEF VmQueries4, Kinds
<1>4. {"getConfig"} \subseteq Queries
  <2>1. SettingQueries1 \in QueryFiles BY DEF QueryFiles
  <2> QED BY <2>1, InFile DEF SettingQueries1, Kinds
<1> QED BY <1>1, <1>2, <1>3, <1>4
      DEF ConsoleNames, Asks, Kids, NotLoaded

LEMMA NodeNamesKnown == NodeNames \subseteq Asks
<1>1. {"getLatestNodeStat", "getNODEattribute", "getNODEstat",
       "getNodeAddress", "getNodeStats", "updateNodeConfig", "updateNodeStats"} \subseteq Queries
  <2>1. NodeQueries1 \in QueryFiles BY DEF QueryFiles
  <2> QED BY <2>1, InFile DEF NodeQueries1, Kinds
<1>2. {"createNode", "getNodeConfiguredHost", "getNodeControlModule",
       "isNodeEnabled", "removeNode", "setNodeConfiguredHost",
       "setNodeControlModule", "setNodeControlModuleByName", "setNodeStatus"} \subseteq Queries
  <2>1. NodeQueries2 \in QueryFiles BY DEF QueryFiles
  <2> QED BY <2>1, InFile DEF NodeQueries2, Kinds
<1>3. {"getAllNodes", "getAllNodesFull", "getAllNodesFullRangeSorted",
       "getAllUnconfiguredNodes", "getAllUnconfiguredNodesByUID", "getNode",
       "getNodeByName", "getNodeConfiguredState", "getNodeName",
       "getNodePlatform", "isNode", "isNodeEnabledAndConfigured"} \subseteq Queries
  <2>1. NodeQueries3 \in QueryFiles BY DEF QueryFiles
  <2> QED BY <2>1, InFile DEF NodeQueries3, Kinds
<1>4. {"getAllNodesByUID", "getNodeByHostname", "getNodeDefaultVNCpass",
       "getNodeHVM"} \subseteq Queries
  <2>1. NodeQueries4 \in QueryFiles BY DEF QueryFiles
  <2> QED BY <2>1, InFile DEF NodeQueries4, Kinds
<1>5. {"getNodeCount", "getNodeCountByUID"} \subseteq Queries
  <2>1. NodeQueries5 \in QueryFiles BY DEF QueryFiles
  <2> QED BY <2>1, InFile DEF NodeQueries5, Kinds
<1>6. {"isControlModuleByName", "isControlModuleForPlatform",
       "isControlModuleForPlatformById", "isControlModuleForPlatformByMid",
       "isControlModuleForPlatformByName", "isPlatformByName"} \subseteq Queries
  <2>1. PlatformQueries1 \in QueryFiles BY DEF QueryFiles
  <2> QED BY <2>1, InFile DEF PlatformQueries1, Kinds
<1>7. {"getPrivilege", "grantPrivilege", "isNODEowner"} \subseteq Queries
  <2>1. UserQueries1 \in QueryFiles BY DEF QueryFiles
  <2> QED BY <2>1, InFile DEF UserQueries1, Kinds
<1>8. {"revokePrivilege"} \subseteq Queries
  <2>1. UserQueries2 \in QueryFiles BY DEF QueryFiles
  <2> QED BY <2>1, InFile DEF UserQueries2, Kinds
<1> QED BY <1>1, <1>2, <1>3, <1>4, <1>5, <1>6, <1>7, <1>8
      DEF NodeNames, Asks, Kids, NotLoaded

LEMMA VmNamesKnown == VmNames \subseteq Asks
<1>1. {"getVmsByNetwork"} \subseteq Queries
  <2>1. NetworkQueries3 \in QueryFiles BY DEF QueryFiles
  <2> QED BY <2>1, InFile DEF NetworkQueries3, Kinds
<1>2. {"getLatestNodeStat"} \subseteq Queries
  <2>1. NodeQueries1 \in QueryFiles BY DEF QueryFiles
  <2> QED BY <2>1, InFile DEF NodeQueries1, Kinds
<1>3. {"getNodeControlModule"} \subseteq Queries
  <2>1. NodeQueries2 \in QueryFiles BY DEF QueryFiles
  <2> QED BY <2>1, InFile DEF NodeQueries2, Kinds
<1>4. {"isNodeEnabledAndConfigured"} \subseteq Queries
  <2>1. NodeQueries3 \in QueryFiles BY DEF QueryFiles
  <2> QED BY <2>1, InFile DEF NodeQueries3, Kinds
<1>5. {"getPlatformIdByVm"} \subseteq Queries
  <2>1. PlatformQueries3 \in QueryFiles BY DEF QueryFiles
  <2> QED BY <2>1, InFile DEF PlatformQueries3, Kinds
<1>6. {"addJob"} \subseteq Queries
  <2>1. JobQueries3 \in QueryFiles BY DEF QueryFiles
  <2> QED BY <2>1, InFile DEF JobQueries3, Kinds
<1>7. {"getPrivilege", "grantPrivilege", "isVMowner"} \subseteq Queries
  <2>1. UserQueries1 \in QueryFiles BY DEF QueryFiles
  <2> QED BY <2>1, InFile DEF UserQueries1, Kinds
<1>8. {"revokePrivilege"} \subseteq Queries
  <2>1. UserQueries2 \in QueryFiles BY DEF QueryFiles
  <2> QED BY <2>1, InFile DEF UserQueries2, Kinds
<1>9. {"createVM", "createVmTemplate", "getVMparentNode", "getVMs",
       "getVMsByUIDSorted", "getVMsSorted", "isVM", "isVmIgnored",
       "needsReboot", "saveVMrevision", "setVmNeedsReboot"} \subseteq Queries
  <2>1. VmQueries1 \in QueryFiles BY DEF QueryFiles
  <2> QED BY <2>1, InFile DEF VmQueries1, Kinds
<1>10. {"getTopBandwidthConsumers", "getTopCpuConsumers", "getVMsByUID",
       "ignoreVm", "removeVm"} \subseteq Queries
  <2>1. VmQueries2 \in QueryFiles BY DEF QueryFiles
  <2> QED BY <2>1, InFile DEF VmQueries2, Kinds
<1>11. {"getVM", "getVmByRev"} \subseteq Queries
  <2>1. VmQueries3 \in QueryFiles BY DEF QueryFiles
  <2> QED BY <2>1, InFile DEF VmQueries3, Kinds
<1>12. {"getAllTemplates", "getAllTemplatesFull", "getAllUsersByVm",
       "getTemplate", "getTemplateByName", "getTemplateConfig",
       "getTemplateConfigByName", "getVMattribute", "getVMparentAddress",
       "getVMstat", "getVmNotes", "saveVmNotes"} \subseteq Queries
  <2>1. VmQueries4 \in QueryFiles BY DEF QueryFiles
  <2> QED BY <2>1, InFile DEF VmQueries4, Kinds
<1>13. {"addTemplate", "getAllVmsByNode", "getVMparentNodeAndAddress",
       "getVmByName", "getVmCount", "getVmCountByUID", "hasGuestTools",
       "modifyTemplate"} \subseteq Queries
  <2>1. VmQueries5 \in QueryFiles BY DEF QueryFiles
  <2> QED BY <2>1, InFile DEF VmQueries5, Kinds
<1> QED BY <1>1, <1>2, <1>3, <1>4, <1>5, <1>6, <1>7, <1>8, <1>9, <1>10, <1>11, <1>12, <1>13
      DEF VmNames, Asks, Kids, NotLoaded

LEMMA AccountNamesKnown == AccountNames \subseteq Asks
<1>1. {"createDisk", "getNumVMdisks", "getVMdisks", "getVmDisk", "isDisk",
       "updateDiskStats"} \subseteq Queries
  <2>1. DiskQueries1 \in QueryFiles BY DEF QueryFiles
  <2> QED BY <2>1, InFile DEF DiskQueries1, Kinds
<1>2. {"addToUserGroup", "addToUserGroupByName", "getUserGroup",
       "getUserGroupByName", "getUserGroupId", "getUserGroupMembers",
       "getUserGroupMembersByName", "getUserGroupMembersFull",
       "getUserGroupName", "isUserGroup", "isUserGroupByName",
       "isUserGroupMember", "modifyUserGroup", "modifyUserGroupByName",
       "removeFromUserGroup", "removeFromUserGroupByName", "removeUserGroup",
       "removeUserGroupByName", "renameUserGroup", "renameUserGroupByName"} \subseteq Queries
  <2>1. GroupQueries1 \in QueryFiles BY DEF QueryFiles
  <2> QED BY <2>1, InFile DEF GroupQueries1, Kinds
<1>3. {"addToUserGroupByNameAndUsername", "addUserGroup",
       "getAllUserGroupNames", "getAllUserGroups", "getAllUserGroupsFull",
       "getUserGroupCount", "getUserGroupNamesByName",
       "getUserGroupNamesByUID", "getUserGroupsByName", "getUserGroupsByUID",
       "isUserGroupMemberByName", "isUserGroupMemberByNameAndUsername",
       "removeFromUserGroupByNameAndUsername"} \subseteq Queries
  <2>1. GroupQueries2 \in QueryFiles BY DEF QueryFiles
  <2> QED BY <2>1, InFile DEF GroupQueries2, Kinds
<1>4. {"getNodeLogs"} \subseteq Queries
  <2>1. NodeQueries4 \in QueryFiles BY DEF QueryFiles
  <2> QED BY <2>1, InFile DEF NodeQueries4, Kinds
<1>5. {"addPlatform", "disableControlModule", "disablePlatform",
       "enableControlModule", "enablePlatform", "getPlatform",
       "getPlatformByName", "getPlatforms", "getPlatformsFull",
       "isControlModule", "isControlModuleByName",
       "isControlModuleForPlatform", "isControlModuleForPlatformByName",
       "isPlatform", "isPlatformByName", "modifyPlatform"} \subseteq Queries
  <2>1. PlatformQueries1 \in QueryFiles BY DEF QueryFiles
  <2> QED BY <2>1, InFile DEF PlatformQueries1, Kinds
<1>6. {"getControlModule", "getControlModuleByName", "getControlModuleConfig",
       "getControlModuleNameByNetwork", "getControlModules",
       "getControlModulesByPlatform", "getControlModulesFull",
       "getPlatformConfig"} \subseteq Queries
  <2>1. PlatformQueries2 \in QueryFiles BY DEF QueryFiles
  <2> QED BY <2>1, InFile DEF PlatformQueries2, Kinds
<1>7. {"getPlatformFeatures", "getPlatformIdByVm"} \subseteq Queries
  <2>1. PlatformQueries3 \in QueryFiles BY DEF QueryFiles
  <2> QED BY <2>1, InFile DEF PlatformQueries3, Kinds
<1>8. {"getLoggedInUsernames", "getLoggedInUsers"} \subseteq Queries
  <2>1. SessionQueries \in QueryFiles BY DEF QueryFiles
  <2> QED BY <2>1, InFile DEF SessionQueries, Kinds
<1>9. {"getUser", "getUserType", "getUsername", "isActive", "isUserUID",
       "removeUser", "setPassword", "setUserAttribute"} \subseteq Queries
  <2>1. UserQueries1 \in QueryFiles BY DEF QueryFiles
  <2> QED BY <2>1, InFile DEF UserQueries1, Kinds
<1>10. {"getActiveUserUID", "getUserByName", "getUserTypeByName", "getUserUID",
       "isActiveByName", "isUserName", "modifyUser", "removeUserByName",
       "setPasswordByName"} \subseteq Queries
  <2>1. UserQueries2 \in QueryFiles BY DEF QueryFiles
  <2> QED BY <2>1, InFile DEF UserQueries2, Kinds
<1>11. {"addUser", "getAllUsers", "getAllUsersFull", "getLanguageCode",
       "getLanguages", "modifyUserByName"} \subseteq Queries
  <2>1. UserQueries3 \in QueryFiles BY DEF QueryFiles
  <2> QED BY <2>1, InFile DEF UserQueries3, Kinds
<1>12. {"getUserCount"} \subseteq Queries
  <2>1. UserQueries4 \in QueryFiles BY DEF QueryFiles
  <2> QED BY <2>1, InFile DEF UserQueries4, Kinds
<1>13. {"createNetIf", "getNumVMvifs", "getVMvifByMac", "getVMvifs", "isNetIf",
       "isNetIfByMAC", "updateNetIfStats"} \subseteq Queries
  <2>1. NetIfQueries1 \in QueryFiles BY DEF QueryFiles
  <2> QED BY <2>1, InFile DEF NetIfQueries1, Kinds
<1>14. {"getVmLogs"} \subseteq Queries
  <2>1. VmQueries4 \in QueryFiles BY DEF QueryFiles
  <2> QED BY <2>1, InFile DEF VmQueries4, Kinds
<1>15. {"getConfigValue", "getConfigsFull", "getLatestRevision",
       "getOperatingSystems"} \subseteq Queries
  <2>1. SettingQueries1 \in QueryFiles BY DEF QueryFiles
  <2> QED BY <2>1, InFile DEF SettingQueries1, Kinds
<1>16. {"getAllPlugins", "getFrontendPlugins", "isFrontendPluginEnabled",
       "modifyPlugin", "setBlobConfig", "setConfig"} \subseteq Queries
  <2>1. SettingQueries2 \in QueryFiles BY DEF QueryFiles
  <2> QED BY <2>1, InFile DEF SettingQueries2, Kinds
<1> QED BY <1>1, <1>2, <1>3, <1>4, <1>5, <1>6, <1>7, <1>8, <1>9, <1>10, <1>11, <1>12, <1>13, <1>14, <1>15, <1>16
      DEF AccountNames, Asks, Kids, NotLoaded

LEMMA JobNamesKnown == JobNames \subseteq Asks
<1>1. {"getJob", "getJobs", "getJobsByIds", "getJobsByUID", "getJobsByUUID",
       "getJobsStatus", "getRecentJobs", "getRecentJobsByUID", "isJob"} \subseteq Queries
  <2>1. JobQueries1 \in QueryFiles BY DEF QueryFiles
  <2> QED BY <2>1, InFile DEF JobQueries1, Kinds
<1>2. {"getJobStatus"} \subseteq Queries
  <2>1. JobQueries2 \in QueryFiles BY DEF QueryFiles
  <2> QED BY <2>1, InFile DEF JobQueries2, Kinds
<1>3. {"addJob"} \subseteq Queries
  <2>1. JobQueries3 \in QueryFiles BY DEF QueryFiles
  <2> QED BY <2>1, InFile DEF JobQueries3, Kinds
<1> QED BY <1>1, <1>2, <1>3
      DEF JobNames, Asks, Kids, NotLoaded

LEMMA StorageSteps ==
  ASSUME NEW m \in StorageAll, NEW n \in Int, NEW e, NEW v \in Int, NEW o
  PROVE  /\ StorageStep(m, n, e, v, o) \subseteq Typed \cup {Crash}
         /\ m \notin Excepted => StorageStep(m, n, e, v, o) \subseteq Plain
<1>1. Steady(Plain, StorageNames \ NotLoaded)
  BY StorageNamesKnown, PlainSteps
<1>2. /\ Steady(Typed, StorageNames) /\ JobAdd \in Typed
      /\ \A q \in StorageNames : Value(q) \in Typed
  BY StorageNamesKnown, TypedSteps
<1>21. /\ AskCb("getControlModuleNameByStorage", "job_module_of_none") \in Typed
      /\ AskCb("getNodeConfiguredHost", "job_node_addr") \in Typed
  BY StorageNamesKnown, TypedSteps DEF StorageNames, Callbacks
<1>22. /\ HoldValue(Value("getDiskByStorage"), v) \in Typed /\ Hold(Nothing) \in Typed
      /\ Counting(Ask("storage_cb_vmjob"), 5) \in Typed
      /\ Hold(Again("modifyDisk")) \in Typed
      /\ \A s \in Typed : /\ Both(s, AskCb("getControlModuleNameByStorage", "job_module_of_none")) \in Typed
                          /\ Both(s, Value("getVmByDisk")) \in Typed
      /\ HoldValue(Again("attachStorageToNode"), v) \in Typed
      /\ HoldValue(Again("detachStorageFromNode"), v) \in Typed
  <2>1. ASSUME NEW s \in {Value("getDiskByStorage"), Nothing, Ask("storage_cb_vmjob"), Again("modifyDisk"),
              Again("attachStorageToNode"), Again("detachStorageFromNode"), Value("getVmByDisk")}
        PROVE s \in Typed
    BY <1>2 DEF Steady, StorageNames
  <2>2. \A s \in Typed : Hold(s) \in Typed BY Combined
  <2>3. \A s \in Typed : HoldValue(s, v) \in Typed BY Combined
  <2>4. \A s \in Typed : Counting(s, 5) \in Typed BY Combined
  <2>5. \A s \in Typed : \A t \in Typed : Both(s, t) \in Typed BY Combined
  <2> QED BY <2>1, <2>2, <2>3, <2>4, <2>5, <1>21
<1>23. Cleared(Ask("defineStorage")) \in Plain
  <2>1. Ask("defineStorage") \in Plain BY <1>1 DEF Steady, StorageNames, NotLoaded
  <2> QED BY <2>1, Combined
<1> USE DEF Steady, StorageNames, NotLoaded, Errors, Checked
<1>3. defineStorage(n, e, v, o) \subseteq Plain BY <1>1, <1>23 DEF defineStorage
<1>4. removeStorage(n, e, v, o) \subseteq Plain BY <1>1 DEF removeStorage
<1>5. removeDiskFromStorage(n, e, v, o) \subseteq Plain BY <1>1 DEF removeDiskFromStorage
<1>6. modifyStorage(n, e, v, o) \subseteq Typed \cup {Crash} BY <1>2, <1>22 DEF modifyStorage
<1>7. modifyDiskByStorage(n, e, v, o) \subseteq Typed \cup {Crash}
  <2>1. CASE n = 0 BY <1>2, <1>22, <2>1 DEF modifyDiskByStorage
  <2>2. CASE n = 1 BY <1>2, <1>22, <2>2 DEF modifyDiskByStorage
  <2>3. CASE n \notin {0, 1} 
    <3>1. ModuleThenJob(2, n, e, v, "getControlModuleNameByStorage") \subseteq Typed
      BY <1>2, <1>22 DEF ModuleThenJob
    <3> QED BY <3>1, <2>3 DEF modifyDiskByStorage
  <2> QED BY <2>1, <2>2, <2>3
<1>8. storage_cb_setup_disk(n, e, v, o) \subseteq Typed \cup {Crash} BY <1>2, <1>22 DEF storage_cb_setup_disk
<1>9. diskAction(n, e, v, o) \subseteq Typed \cup {Crash}
  BY <1>8, <1>22, Survives DEF diskAction
<1>10. detachDiskFromStorage(n, e, v, o) \subseteq Typed \cup {Crash}
  <2>2. CASE n \in 0..1 BY <1>8, <2>2 DEF detachDiskFromStorage
  <2>3. CASE n = 2
    <3>1. ASSUME NEW s \in detachDiskFromStorage(n, e, v, o) PROVE s \in Typed \cup {Crash}
      <4>1. PICK t \in storage_cb_setup_disk(n, e, v, o) : s = IF t.crash THEN t ELSE Both(t, Value("getVmByDisk"))
        BY <2>3, <3>1 DEF detachDiskFromStorage
      <4> QED BY <4>1, <1>8, <1>22, Survives
    <3> QED BY <3>1
  <2>4. CASE n = 3 BY <1>2, <1>22, <2>4 DEF detachDiskFromStorage
  <2>5. CASE n \notin 0..3 BY <1>2, <1>22, <2>5 DEF detachDiskFromStorage
  <2> QED BY <2>2, <2>3, <2>4, <2>5
<1>11. \A a \in {"attachStorageToNode", "detachStorageFromNode"} :
        storage_cb_setup_storage(a, n, e, v, o) \subseteq Typed \cup {Crash}
  <2> TAKE a \in {"attachStorageToNode", "detachStorageFromNode"}
  <2>1. HoldValue(Again(a), v) \in Typed BY <1>22
  <2> QED BY <1>2, <1>22, <1>21, <2>1 DEF storage_cb_setup_storage
<1>12. /\ detachAllNodesByStorage(n, e, v, o) \subseteq Typed \cup {Crash}
       /\ detachAllDisksByStorage(n, e, v, o) \subseteq Typed \cup {Crash}
       /\ addDiskToStorage(n, e, v, o) \subseteq Typed \cup {Crash}
       /\ defineDisk(n, e, v, o) \subseteq Typed \cup {Crash}
  BY <1>2, <1>22 DEF detachAllNodesByStorage, detachAllDisksByStorage, addDiskToStorage, defineDisk
<1>13. getDiskByStorage \subseteq Plain BY <1>1 DEF getDiskByStorage
<1> HIDE DEF Steady, StorageNames, NotLoaded, Errors, Checked
<1>14. CASE m \in StorageMethods
  BY <1>14, <1>3, <1>4, <1>5, <1>6, <1>7, <1>9, <1>10, <1>11, <1>12, PlainIsTyped
     DEF StorageStep, StorageMethods, attachDiskToStorage, enableDiskByStorage,
         disableDiskByStorage, attachStorageToNode, detachStorageFromNode, Excepted, Crashes, Internal, Staged
<1>15. CASE m = "getDiskByStorage"
  BY <1>15, <1>13, PlainIsTyped DEF StorageStep
<1>16. CASE m \notin StorageMethods \cup {"getDiskByStorage"}
  <2>1. m \in StorageNames
    BY <1>16 DEF StorageAll, StorageReads, StorageModuleReads, StorageRelationReads,
      NodesAndVmsReads, StorageDiskReads, StorageNames
  <2>2. Ask(m) \in Typed BY <2>1, <1>2 DEF Steady
  <2>3. m \notin NotLoaded => Ask(m) \in Plain BY <2>1, <1>1 DEF Steady
  <2>4. m \in NotLoaded => m \in Excepted BY <2>1 DEF StorageNames, NotLoaded, Excepted, Internal, Crashes
  <2>5. StorageStep(m, n, e, v, o) = {Ask(m)} BY <1>16 DEF StorageStep, StorageMethods
  <2> QED BY <2>2, <2>3, <2>4, <2>5
<1> QED BY <1>14, <1>15, <1>16

LEMMA ConsoleSteps ==
  ASSUME NEW m \in ConsoleAll, NEW n \in Int, NEW e, NEW v \in Int, NEW o
  PROVE  /\ ConsoleStep(m, n, e, v, o) \subseteq Typed \cup {Crash}
         /\ m \notin Excepted => ConsoleStep(m, n, e, v, o) \subseteq Plain
<1>1. Steady(Plain, ConsoleNames \ NotLoaded)
  BY ConsoleNamesKnown, PlainSteps
<1>2. /\ Steady(Typed, ConsoleNames)
      /\ \A q \in ConsoleNames : Value(q) \in Typed
  BY ConsoleNamesKnown, TypedSteps
<1> USE DEF Steady, ConsoleNames, NotLoaded, Errors, Checked
<1>3. connectTextConsole(n, e, v, o) \subseteq Plain BY <1>1 DEF connectTextConsole
<1>4. connectGraphicalConsole(n, e, v, o) \subseteq Typed BY <1>2 DEF connectGraphicalConsole
<1>5. disconnectConsole(n, e, v, o) \subseteq Plain
  <2>1. Ask("console_disconnect_text") \in Plain BY <1>1
  <2>2. \A s \in Plain : Counting(s, 3) \in Plain BY Combined
  <2>3. Counting(Ask("console_disconnect_text"), 3) \in Plain BY <2>1, <2>2
  <2> QED BY <1>1, <2>3 DEF disconnectConsole
<1>6. getConsoleLockUser(n, e, v, o) \subseteq Typed BY <1>2 DEF getConsoleLockUser
<1>7. acquireConsoleLock(n, e, v, o) \subseteq Typed BY <1>2 DEF acquireConsoleLock
<1>8. getSupportedConsoles(n, e, v, o) \subseteq Typed BY <1>2 DEF getSupportedConsoles
<1>9. hasConsoleLock \subseteq Plain BY <1>1 DEF hasConsoleLock
<1> HIDE DEF Steady, ConsoleNames, NotLoaded, Errors, Checked
<1>10. CASE m \in ConsoleMethods \cup {"hasConsoleLock"}
  BY <1>10, <1>3, <1>4, <1>5, <1>6, <1>7, <1>8, <1>9, PlainIsTyped
     DEF ConsoleStep, ConsoleMethods, Excepted, Staged, Internal
<1>11. CASE m \notin ConsoleMethods \cup {"hasConsoleLock"}
  <2>1. m \in ConsoleNames \ NotLoaded
    BY <1>11 DEF ConsoleAll, PortReads, LockReads, SessionLockReads, ConsoleNames, NotLoaded
  <2>2. ConsoleStep(m, n, e, v, o) = {Ask(m)} BY <1>11 DEF ConsoleStep, ConsoleMethods
  <2> QED BY <2>1, <2>2, <1>1, PlainIsTyped DEF Steady
<1> QED BY <1>10, <1>11

LEMMA JobSteps ==
  ASSUME NEW m \in JobAll, NEW n \in Int, NEW e, NEW v \in Int, NEW o
  PROVE  /\ JobStep(m, n, e, v, o) \subseteq Typed \cup {Crash}
         /\ m \notin Excepted => JobStep(m, n, e, v, o) \subseteq Plain
<1>1. /\ Steady(Plain, JobNames \ NotLoaded)
      /\ \A q \in JobNames \ NotLoaded : \A cb \in Meek : AskCb(q, cb) \in Plain
  BY JobNamesKnown, PlainSteps
<1>2. /\ Steady(Typed, JobNames) /\ JobAdd \in Typed
      /\ \A q \in JobNames : Value(q) \in Typed
      /\ \A q \in JobNames : \A k \in Int : \A cb \in Callbacks : TimesCb(k, q, cb) \in Typed
  BY JobNamesKnown, TypedSteps
<1> USE DEF Steady, JobNames, NotLoaded, Errors, Checked
<1>3. /\ getJob(n, e, v, o) \subseteq Plain
      /\ getRecentJobs(n, e, v, o) \subseteq Plain
      /\ getRecentJobsByUID(n, e, v, o) \subseteq Plain
      /\ getJobsByJIDs(n, e, v, o) \subseteq Plain
      /\ getJobsStatus(n, e, v, o) \subseteq Plain
      /\ getJobStatus(n, e, v, o) \subseteq Plain
  BY <1>1 DEF getJob, getRecentJobs, getRecentJobsByUID, getJobsByJIDs, getJobsStatus, getJobStatus, Meek
<1>4. getJobsByUID \subseteq Plain /\ isJob \subseteq Plain /\ addJob \subseteq Plain
  BY <1>1 DEF getJobsByUID, isJob, addJob
<1>5. \A q \in {"getJobsByUUID", "getJobsByUID"} : jobs_cancel(q, n, e, v) \subseteq Typed
  <2>1. Cleared(Answer) \in Typed BY <1>2, Combined
  <2>2. TimesCb(v, "addJob", "jobs_cb_add") \in Typed BY <1>2 DEF Callbacks
  <2> QED BY <1>2, <2>1, <2>2 DEF jobs_cancel
<1>6. /\ cancelJob(n, e, v, o) \subseteq Typed
      /\ cancelJobsByUUID(n, e, v, o) \subseteq Typed
      /\ cancelJobsByUID(n, e, v, o) \subseteq Typed
  BY <1>2, <1>5 DEF cancelJob, cancelJobsByUUID, cancelJobsByUID
<1> HIDE DEF Steady, JobNames, NotLoaded, Errors, Checked
<1>7. CASE m \in JobMethods \cup {"getJobsByUID", "isJob", "addJob"}
  BY <1>7, <1>3, <1>4, <1>6, PlainIsTyped
     DEF JobStep, JobMethods, Excepted, Crashes
<1>8. CASE m \notin JobMethods \cup {"getJobsByUID", "isJob", "addJob"}
  <2>1. m \in JobNames \ NotLoaded
    BY <1>8 DEF JobAll, JobReads, JobNames, NotLoaded
  <2>2. JobStep(m, n, e, v, o) = {Ask(m)} BY <1>8 DEF JobStep, JobMethods
  <2> QED BY <2>1, <2>2, <1>1, PlainIsTyped DEF Steady
<1> QED BY <1>7, <1>8

LEMMA NetworkSteps ==
  ASSUME NEW m \in NetworkAll, NEW n \in Int, NEW e, NEW v \in Int, NEW o
  PROVE  /\ NetworkStep(m, n, e, v, o) \subseteq Typed \cup {Crash}
         /\ m \notin Excepted => NetworkStep(m, n, e, v, o) \subseteq Plain
<1>1. Steady(Plain, NetworkNames \ NotLoaded)
  BY NetworkNamesKnown, PlainSteps
<1>2. /\ Steady(Typed, NetworkNames) /\ JobAdd \in Typed
      /\ \A q \in NetworkNames : Value(q) \in Typed
  BY NetworkNamesKnown, TypedSteps
<1>3. /\ AskCb("getNodeConfiguredHost", "job_node_addr_wild") \in Typed
      /\ AskCb("getVMparentNodeAndAddress", "job_node_addr") \in Typed
      /\ AskCb("getControlModuleNameByNetwork", "job_module") \in Typed
  BY NetworkNamesKnown, TypedSteps DEF NetworkNames, Callbacks
<1>4. \A k \in Int :
        /\ PerNode(k) \in Typed
        /\ Counting(TimesCb(k, "getVMparentNodeAndAddress", "net_target_addr"), 10) \in Typed
  <2> TAKE k \in Int
  <2>1. /\ TimesCb(k, "getNodeNameAndUuid", "net_target_host") \in Typed
        /\ TimesCb(k, "getVMparentNodeAndAddress", "net_target_addr") \in Typed
    BY NetworkNamesKnown, TypedSteps DEF NetworkNames, Callbacks
  <2>2. \A s \in Typed : Counting(s, 10 + k) \in Typed /\ Counting(s, 10) \in Typed
    BY Combined
  <2> QED BY <2>1, <2>2 DEF PerNode
<1>5. /\ Both(Again("isVM"), Again("isNetworkId")) \in Typed
      /\ Both(Again("isVM"), Value("getNetwork")) \in Typed
  <2>1. Again("isVM") \in Typed /\ Again("isNetworkId") \in Typed /\ Value("getNetwork") \in Typed
    BY <1>2 DEF Steady, NetworkNames
  <2>2. \A s \in Typed : \A t \in Typed : Both(s, t) \in Typed
    BY Combined
  <2> QED BY <2>1, <2>2
<1> USE DEF Steady, NetworkNames, NotLoaded, Errors, Checked
<1>6. \A q \in {"attachNetworkToNode", "detachNetworkFromNode"} :
        networkOfNode(q, n, e, v, o) \subseteq Typed
  BY <1>2, <1>3 DEF networkOfNode
<1>7. \A q \in {"attachNetIf", "detachNetIf", "addNetIf", "modifyNetIf"} :
        network_job_create_vm(q, n, e, v, o) \subseteq Typed \cup {Crash}
  BY <1>2, <1>3, <1>5 DEF network_job_create_vm
<1>8. modifyNetIf(n, e, v, o) \subseteq Typed \cup {Crash}
  <2>1. CASE n = 0 BY <2>1, <1>2 DEF modifyNetIf
  <2>2. CASE n = 1 BY <2>2, <1>2 DEF modifyNetIf
  <2>3. CASE n \notin {0, 1} BY <2>3, <1>7 DEF modifyNetIf
  <2> QED BY <2>1, <2>2, <2>3
<1>9. removeNetIf(n, e, v, o) \subseteq Plain BY <1>1 DEF removeNetIf
<1>10. removeNetwork(n, e, v, o) \subseteq Plain BY <1>1 DEF removeNetwork
<1>11. modifyNetwork(n, e, v, o) \subseteq Typed BY <1>2, <1>4 DEF modifyNetwork
<1>12. detachAllNodesByNetwork(n, e, v, o) \subseteq Typed
  <2>1. PerNode(1) \in Typed BY <1>4
  <2>2. CASE n \in {0, 1} BY <2>2, <1>2 DEF detachAllNodesByNetwork
  <2>3. CASE n = 2 BY <2>3, <1>2 DEF detachAllNodesByNetwork
  <2>4. CASE n \notin {0, 1, 2} BY <2>1, <2>4 DEF detachAllNodesByNetwork
  <2> QED BY <2>2, <2>3, <2>4
<1>13. detachAllNetIfsByNetwork(n, e, v, o) \subseteq Typed BY <1>2, <1>4 DEF detachAllNetIfsByNetwork
<1>14. isNetworkId \subseteq Plain BY <1>1 DEF isNetworkId
<1> HIDE DEF Steady, NetworkNames, NotLoaded, Errors, Checked
<1>15. CASE m \in NetworkMethods \cup {"isNetworkId"}
  BY <1>15, <1>6, <1>7, <1>8, <1>9, <1>10, <1>11, <1>12, <1>13, <1>14, PlainIsTyped
     DEF NetworkStep, NetworkMethods, attachNetworkToNode, detachNetworkFromNode,
         attachNetIf, detachNetIf, addNetIf, Excepted, Crashes, VmJobs, Staged
<1>16. CASE m \notin NetworkMethods \cup {"isNetworkId"}
  <2>1. m \in NetworkNames
    BY <1>16 DEF NetworkAll, NetworkReads, DefineReads, NetworkModuleReads,
                 NodesByNetworkReads, NetworkOtherReads, NetworkNames
  <2>2. m \in NotLoaded => m \in Excepted
    BY <2>1 DEF NetworkNames, NotLoaded, Excepted, Crashes
  <2>3. NetworkStep(m, n, e, v, o) = {Ask(m)} BY <1>16 DEF NetworkStep, NetworkMethods
  <2> QED BY <2>1, <2>2, <2>3, <1>1, <1>2, PlainIsTyped DEF Steady
<1> QED BY <1>15, <1>16

LEMMA NodeSteps ==
  ASSUME NEW m \in NodeAll, NEW n \in Int, NEW e, NEW v \in Int, NEW o
  PROVE  /\ NodeStep(m, n, e, v, o) \subseteq Typed \cup {Crash}
         /\ m \notin Excepted => NodeStep(m, n, e, v, o) \subseteq Plain
<1>1. Steady(Plain, NodeNames \ NotLoaded)
  BY NodeNamesKnown, PlainSteps
<1>2. /\ Steady(Typed, NodeNames)
      /\ \A q \in NodeNames : Value(q) \in Typed
  BY NodeNamesKnown, TypedSteps
<1>3. \A s \in Typed : /\ Cleared(s) \in Typed /\ Answering(s) \in Typed
                       /\ \A k \in Int : Counting(s, k) \in Typed
                       /\ \A t \in Typed : Both(s, t) \in Typed
  BY Combined
<1>4. /\ Both(AgainInt("createNode"), Value("getNode")) \in Typed
      /\ Counting(Cleared(Both(Answer, Value("getNode"))), 3) \in Typed
      /\ Counting(AgainInt("createNode"), 2) \in Typed
      /\ Cleared(Counting(Value("getNodeConfiguredState"), 9)) \in Typed
      /\ Counting(AgainInt("setNodeStatus"), 2) \in Typed
      /\ Cleared(Again("isControlModuleByName")) \in Typed
      /\ Cleared(AgainInt("isPlatformByName")) \in Typed
      /\ \A q \in {"setNodeControlModuleByName", "setNodeControlModule"} :
           Both(Ask("setNodeStatus"), AgainInt("setNodeControlModuleByName")) \in Typed
  <2>1. ASSUME NEW s \in {AgainInt("createNode"), Value("getNode"), Answer, AgainInt("setNodeStatus"),
              Value("getNodeConfiguredState"), Again("isControlModuleByName"), Ask("setNodeStatus"),
              AgainInt("isPlatformByName"), AgainInt("setNodeControlModuleByName")}
        PROVE s \in Typed
    BY <1>2 DEF Steady, NodeNames
  <2>2. \A s \in Typed : \A t \in Typed : Both(s, t) \in Typed BY <1>3
  <2>3. /\ Both(AgainInt("createNode"), Value("getNode")) \in Typed
        /\ Both(Answer, Value("getNode")) \in Typed
        /\ Both(Ask("setNodeStatus"), AgainInt("setNodeControlModuleByName")) \in Typed
    BY <2>1, <2>2
  <2>4. \A s \in Typed : Cleared(s) \in Typed BY <1>3
  <2>5. \A s \in Typed : \A k \in Int : Counting(s, k) \in Typed BY <1>3
  <2>6. /\ Counting(AgainInt("createNode"), 2) \in Typed
        /\ Counting(AgainInt("setNodeStatus"), 2) \in Typed
        /\ Counting(Value("getNodeConfiguredState"), 9) \in Typed
        /\ Cleared(Both(Answer, Value("getNode"))) \in Typed
    BY <2>1, <2>3, <2>4, <2>5
  <2> QED BY <2>1, <2>3, <2>4, <2>5, <2>6
<1> USE DEF Steady, NodeNames, NotLoaded, Errors, Checked
<1>5. nodeconfig_update(n, v) \subseteq Typed \cup {Crash}
  BY <1>2, <1>4 DEF nodeconfig_update
<1>6. nodeconfig_update(2, v) \subseteq Typed
  BY <1>2, <1>4 DEF nodeconfig_update
<1>7. registerNode(n, e, v, o) \subseteq Typed \cup {Crash}
  <2>1. CASE n = 4
    <3>1. ASSUME NEW s \in registerNode(n, e, v, o) PROVE s \in Typed \cup {Crash}
      <4>1. PICK t \in nodeconfig_update(n, v) : s = IF t.crash THEN t ELSE Answering(t)
        BY <2>1, <3>1 DEF registerNode
      <4>2. t \in Typed => Answering(t) \in Typed BY <1>3
      <4> QED BY <4>1, <4>2, <1>5, Survives
    <3> QED BY <3>1
  <2>2. CASE n = 11 BY <2>2, <1>2, <1>4 DEF registerNode
  <2>3. CASE n = 3 BY <2>3, <1>5 DEF registerNode
  <2>4. CASE n \in {0, 1, 12} BY <2>4, <1>2, <1>4 DEF registerNode
  <2>5. CASE n = 10 BY <2>5, <1>2, <1>4 DEF registerNode
  <2>6. CASE n \notin {0, 1, 3, 4, 10, 11, 12} BY <2>6, <1>2 DEF registerNode
  <2> QED BY <2>1, <2>2, <2>3, <2>4, <2>5, <2>6
<1>8. updateNodeStats(n, e, v, o) \subseteq Plain BY <1>1 DEF updateNodeStats
<1>9. addNode(n, e, v, o) \subseteq Typed \cup {Crash}
  <2>1. CASE n \in {0, 1} BY <2>1, <1>2, <1>4 DEF addNode
  <2>2. CASE n = 2
    <3>1. \A s \in Typed : Cleared(s) \in Typed BY <1>3
    <3>2. ASSUME NEW s \in addNode(n, e, v, o) PROVE s \in Typed
      <4>1. PICK t \in nodeconfig_update(2, v) : s = Cleared(t) BY <2>2, <3>2 DEF addNode
      <4> QED BY <4>1, <3>1, <1>6
    <3> QED BY <3>2
  <2>3. CASE n \notin {0, 1, 2} BY <2>3, <1>2, <1>5 DEF addNode
  <2> QED BY <2>1, <2>2, <2>3
<1>10. /\ setNodeControlModuleByName(n, e, v, o) \subseteq Typed
       /\ setNodeControlModule(n, e, v, o) \subseteq Typed
  BY <1>2, <1>4 DEF setNodeControlModuleByName, setNodeControlModule, setModule
<1>11. isNODEowner \subseteq Plain /\ getNodeStats \subseteq Plain /\ isNODE \subseteq Plain
  BY <1>1 DEF isNODEowner, getNodeStats, isNODE
<1>12. getNodeCount \subseteq Typed
  BY <1>2 DEF getNodeCount
<1> HIDE DEF Steady, NodeNames, NotLoaded, Errors, Checked
<1>13. CASE m \in NodeMethods \cup {"isNODEowner", "getNodeStats", "isNODE", "getNodeCount"}
  BY <1>13, <1>7, <1>8, <1>9, <1>10, <1>11, <1>12, PlainIsTyped
     DEF NodeStep, NodeMethods, Excepted, Crashes, Staged
<1>14. CASE m \notin NodeMethods \cup {"isNODEowner", "getNodeStats", "isNODE", "getNodeCount"}
  <2>1. m \in NodeNames
    BY <1>14 DEF NodeAll, AttributeReads, StateReads, NodeListReads, RemoveReads, NodeOtherReads, NodeNames
  <2>2. m \in NotLoaded => m \in Excepted
    BY <1>14 DEF NodeAll, AttributeReads, StateReads, NodeListReads, RemoveReads, NodeOtherReads,
                 NotLoaded, Excepted, Crashes
  <2>3. NodeStep(m, n, e, v, o) = {Ask(m)} BY <1>14 DEF NodeStep, NodeMethods
  <2> QED BY <2>1, <2>2, <2>3, <1>1, <1>2, PlainIsTyped DEF Steady
<1> QED BY <1>13, <1>14

LEMMA VmSteps ==
  ASSUME NEW m \in VmAll, NEW n \in Int, NEW e, NEW v \in Int, NEW o
  PROVE  /\ VmStep(m, n, e, v, o) \subseteq Typed \cup {Crash}
         /\ m \notin Excepted => VmStep(m, n, e, v, o) \subseteq Plain
<1>1. Steady(Plain, VmNames \ NotLoaded)
  BY VmNamesKnown, PlainSteps
<1>2. /\ Steady(Typed, VmNames) /\ JobAdd \in Typed
      /\ \A q \in VmNames : Value(q) \in Typed
  BY VmNamesKnown, TypedSteps
<1>3. /\ AskCb("getVMparentNodeAndAddress", "job_node_addr") \in Typed
      /\ AskCb("getNodeControlModule", "job_module") \in Typed
  BY VmNamesKnown, TypedSteps DEF VmNames, Callbacks
<1>4. /\ Counting(Times(v, "vm_cb_getvm"), 2 + v) \in Typed
      /\ Cleared(Value("getNodeControlModule")) \in Typed
      /\ Hold(Value("getLatestNodeStat")) \in Typed
  <2>1. /\ Times(v, "vm_cb_getvm") \in Typed /\ Value("getNodeControlModule") \in Typed
        /\ Value("getLatestNodeStat") \in Typed
    BY <1>2 DEF Steady, VmNames
  <2>2. \A s \in Typed : Cleared(s) \in Typed /\ Hold(s) \in Typed /\ Counting(s, 2 + v) \in Typed
    BY Combined
  <2> QED BY <2>1, <2>2
<1> USE DEF Steady, VmNames, NotLoaded, Errors, Checked
<1>5. ASSUME NEW first \in SUBSET Typed
      PROVE  vm_cb_getallvmsfull(first, n, e, v) \subseteq Typed
  BY <1>2, <1>4 DEF vm_cb_getallvmsfull
<1>6. /\ getVmsByNetworkFull(n, e, v, o) \subseteq Typed
      /\ getAllVmsFullByNode(n, e, v, o) \subseteq Typed
  BY <1>2, <1>5 DEF getVmsByNetworkFull, getAllVmsFullByNode
<1>7. /\ getVMsFullUID(n, e, v, o) \subseteq Typed
      /\ getVMsFull(n, e, v, o) \subseteq Typed
  <2>1. \A uid \in BOOLEAN :
          {Fail("INVALID_PARAMETER")} \cup {Value(q) : q \in vmLists(uid)} \subseteq Typed
    BY <1>2 DEF vmLists
  <2> QED BY <2>1, <1>5 DEF getVMsFullUID, getVMsFull, vmListFull
<1>8. addVmToNode(n, e, v, o) \subseteq Typed BY <1>2, <1>4 DEF addVmToNode
<1>9. saveVM(n, e, v, o) \subseteq Typed \cup {Crash} BY <1>2 DEF saveVM
<1>10. vmAction(n, e, v, o) \subseteq Typed BY <1>2, <1>3 DEF vmAction
<1>11. \A uid \in BOOLEAN : vmList(uid) \subseteq Plain BY <1>1 DEF vmList, vmLists
<1>12. isVM \subseteq Plain /\ ztoolsUpdate \subseteq Plain /\ removeVm \subseteq Plain
  BY <1>1 DEF isVM, ztoolsUpdate, removeVm
<1>13. getVmByRev \subseteq Typed /\ getVmCount \subseteq Typed
  BY <1>2 DEF getVmByRev, getVmCount
<1>14. {Fail("NOT_IMPLEMENTED")} \subseteq Plain BY <1>1
<1> HIDE DEF Steady, VmNames, NotLoaded, Errors, Checked
<1> DEFINE Own == VmMethods \cup VmUnimplemented \cup
                  {"getVMs", "getVMsUID", "isVM", "getVmByRev", "ztoolsUpdate", "removeVm", "getVmCount"}
<1>15. CASE m \in Own
  <2>1. CASE m \in VmActions
    <3>0. /\ m # "getVmsByNetworkFull" /\ m # "getAllVmsFullByNode" /\ m # "getVMsFullUID"
          /\ m # "getVMsFull" /\ m # "addVmToNode" /\ m # "saveVM"
      BY <2>1 DEF VmActions
    <3>1. VmStep(m, n, e, v, o) = vmAction(n, e, v, o) BY <2>1, <3>0 DEF VmStep, VmActions, VmUnimplemented
    <3> QED BY <2>1, <3>1, <1>10 DEF Excepted, Crashes, VmJobs
  <2>2. CASE m \notin VmActions
    BY <1>15, <2>2, <1>6, <1>7, <1>8, <1>9, <1>11, <1>12, <1>13, <1>14, PlainIsTyped
       DEF VmStep, VmMethods, VmUnimplemented, Excepted, Crashes, Staged
  <2> QED BY <2>1, <2>2
<1>16. CASE m \notin Own
  <2>1. m \in VmNames \ NotLoaded
    BY <1>16 DEF VmAll, TopReads, PrivilegeReads, VmReads, VmRowReads, TemplateReads, VmNames, NotLoaded
  <2>2. VmStep(m, n, e, v, o) = {Ask(m)} BY <1>16 DEF VmStep, VmMethods, VmUnimplemented
  <2> QED BY <2>1, <2>2, <1>1, PlainIsTyped DEF Steady
<1> QED BY <1>15, <1>16

LEMMA AccountSteps ==
  ASSUME NEW m \in AccountAll, NEW n \in Int, NEW e, NEW v \in Int, NEW o
  PROVE  /\ AccountStep(m, n, e, v, o) \subseteq Typed \cup {Crash}
         /\ m \notin Excepted => AccountStep(m, n, e, v, o) \subseteq Plain
<1>1. Steady(Plain, AccountNames \ NotLoaded)
  BY AccountNamesKnown, PlainSteps
<1>2. /\ Steady(Typed, AccountNames)
      /\ \A q \in AccountNames : Value(q) \in Typed
  BY AccountNamesKnown, TypedSteps
<1>3. /\ \A q \in {"setPassword", "setPasswordByName", "getUserType", "getUserTypeByName"} :
           AskCb(q, "answer") \in Plain
      /\ AskCb("isUserName", "user_name") \in Plain
      /\ AskCb("getLanguageCode", "user_lang") \in Plain
      /\ AskCb("getUserGroupId", "group_modify") \in Plain
      /\ AskCb("isUserGroupByName", "group_add") \in Plain
      /\ AskCb("isNetIfByMAC", "generatemac") \in Plain
  <2>1. {"setPassword", "setPasswordByName", "getUserType", "getUserTypeByName", "isUserName",
         "getLanguageCode", "getUserGroupId", "isUserGroupByName", "isNetIfByMAC"}
          \subseteq AccountNames \ NotLoaded
    BY DEF AccountNames, NotLoaded
  <2>2. \A q \in AccountNames \ NotLoaded : \A cb \in Meek : AskCb(q, cb) \in Plain
    BY AccountNamesKnown, PlainSteps
  <2> QED BY <2>1, <2>2 DEF Meek
<1>4. \A k \in Int : TimesCb(k, "setConfig", "null") \in Typed
  BY AccountNamesKnown, TypedSteps DEF AccountNames, Callbacks
<1> DEFINE Writes2 == {"renameUserGroup", "renameUserGroupByName", "modifyUserGroupByName"}
<1>5. /\ Both(AskCb("isUserName", "user_name"), Ask("setUserAttribute")) \in Plain
      /\ Both(AskCb("getLanguageCode", "user_lang"), Ask("setUserAttribute")) \in Plain
      /\ \A q \in Writes2 : Cleared(Ask(q)) \in Plain
      /\ Counting(Ask("platform_get"), 2) \in Typed
      /\ Counting(Times(v, "platform_get"), 2 + v) \in Typed
      /\ Cleared(Answer) \in Typed
  <2>1. /\ Ask("setUserAttribute") \in Plain
        /\ \A q \in Writes2 : Ask(q) \in Plain
        /\ Ask("platform_get") \in Typed /\ Times(v, "platform_get") \in Typed /\ Answer \in Typed
    BY <1>1, <1>2 DEF Steady, AccountNames, NotLoaded
  <2>2. \A s \in Plain : \A t \in Plain : Both(s, t) \in Plain BY Combined
  <2>3. \A s \in Plain : Cleared(s) \in Plain BY Combined
  <2>4. \A s \in Typed : Cleared(s) \in Typed BY Combined
  <2>5. \A s \in Typed : Counting(s, 2) \in Typed /\ Counting(s, 2 + v) \in Typed BY Combined
  <2> QED BY <2>1, <2>2, <2>3, <2>4, <2>5, <1>3
<1> USE DEF Steady, AccountNames, NotLoaded, Errors, Checked
<1>6. /\ setPassword(n, e, v, o) \subseteq Plain
      /\ setPasswordByName(n, e, v, o) \subseteq Plain
      /\ setSecureControlModuleConfig(n, e, v, o) \subseteq Plain
      /\ setUserAttribute(n, e, v, o) \subseteq Plain
      /\ addToUserGroup(n, e, v, o) \subseteq Plain
      /\ addPlatform(n, e, v, o) \subseteq Plain
      /\ modifyPlatform(n, e, v, o) \subseteq Plain
      /\ cleanDB \subseteq Plain
  BY <1>1 DEF setPassword, setPasswordByName, setSecureControlModuleConfig, setUserAttribute,
              addToUserGroup, addPlatform, modifyPlatform, ifPlatformIsFree, cleanDB
<1>7. /\ generatePassword(n, e, v, o) \subseteq Plain
      /\ generatePasswordByName(n, e, v, o) \subseteq Plain
      /\ isSuperUser(n, e, v, o) \subseteq Plain
      /\ isSuperUserByName(n, e, v, o) \subseteq Plain
      /\ modifyUserGroup(n, e, v, o) \subseteq Plain
      /\ addUserGroup(n, e, v, o) \subseteq Plain
      /\ generateMAC(n, e, v, o) \subseteq Plain
  BY <1>3 DEF generatePassword, generatePasswordByName, isSuperUser, isSuperUserByName,
              modifyUserGroup, addUserGroup, generateMAC
<1>8. /\ setUserAttribute_name(n, e, v, o) \subseteq Plain
      /\ setUserAttribute_language(n, e, v, o) \subseteq Plain
      /\ addUser(n, e, v, o) \subseteq Plain
  BY <1>1, <1>3, <1>5 DEF setUserAttribute_name, setUserAttribute_language, attributeName,
                          attributeLanguage, addUser
<1>9. /\ renameUserGroup(n, e, v, o) \subseteq Plain
      /\ renameUserGroupByName(n, e, v, o) \subseteq Plain
      /\ modifyUserGroupByName(n, e, v, o) \subseteq Plain
  BY <1>1, <1>5 DEF renameUserGroup, renameUserGroupByName, modifyUserGroupByName, ifNameIsFree
<1>10. /\ getPlatform(n, e, v, o) \subseteq Typed \cup {Crash}
       /\ getPlatformByName(n, e, v, o) \subseteq Typed \cup {Crash}
       /\ getPlatformsFull(n, e, v, o) \subseteq Typed
       /\ setConfigs(n, e, v, o) \subseteq Typed
  BY <1>2, <1>4, <1>5 DEF getPlatform, getPlatformByName, getPlatformsFull, setConfigs
<1> HIDE DEF Steady, AccountNames, NotLoaded, Errors, Checked
<1>11. CASE m \in AccountMethods \cup {"cleanDB"}
  <2>1. CASE m = "getPlatform"
    BY <2>1, <1>10 DEF AccountStep, CheckedReads, Excepted, Crashes
  <2>2. CASE m = "getPlatformByName"
    BY <2>2, <1>10 DEF AccountStep, CheckedReads, Excepted, Crashes
  <2>3. CASE m = "getPlatformsFull"
    BY <2>3, <1>10 DEF AccountStep, CheckedReads, Excepted, Staged
  <2>4. CASE m = "setConfigs"
    BY <2>4, <1>10 DEF AccountStep, CheckedReads, Excepted, Staged
  <2>5. CASE m \in {"setPassword", "setPasswordByName", "setSecureControlModuleConfig", "setUserAttribute",
                  "addToUserGroup", "addPlatform", "modifyPlatform", "cleanDB"}
    BY <2>5, <1>6, PlainIsTyped DEF AccountStep, CheckedReads
  <2>6. CASE m \in {"generatePassword", "generatePasswordByName", "isSuperUser", "isSuperUserByName",
                  "modifyUserGroup", "addUserGroup", "generateMAC"}
    BY <2>6, <1>7, PlainIsTyped DEF AccountStep, CheckedReads
  <2>7. CASE m \in {"setUserAttribute_name", "setUserAttribute_language", "addUser",
                  "renameUserGroup", "renameUserGroupByName", "modifyUserGroupByName"}
    BY <2>7, <1>8, <1>9, PlainIsTyped DEF AccountStep, CheckedReads
  <2> QED BY <1>11, <2>1, <2>2, <2>3, <2>4, <2>5, <2>6, <2>7 DEF AccountMethods
<1>12. CASE m \notin AccountMethods \cup {"cleanDB"}
  <2>1. m \in AccountNames
    BY <1>12 DEF AccountAll, AccountMethods, UserReads, UserByNameReads, UserListReads, GroupReads, GroupByNameReads,
                 GroupListReads, PlatformReads, ModuleReads, SettingReads, DiskReads, NetIfReads,
                 LogReads, ConfigWrites, AccountNames
  <2>2. m \in NotLoaded => m \in ConfigWrites
    BY <2>1 DEF NotLoaded, AccountNames, ConfigWrites
  <2>3. AccountStep(m, n, e, v, o) \in {{Ask(m)}, Checked(Ask(m))}
    BY <1>12 DEF AccountStep, AccountMethods
  <2>4. /\ Ask(m) \in Typed /\ Fail("INVALID_PARAMETER") \in Plain
        /\ m \notin NotLoaded => Ask(m) \in Plain
    BY <2>1, <1>1, <1>2 DEF Steady, Errors
  <2> QED BY <2>2, <2>3, <2>4, PlainIsTyped DEF Checked, Excepted, Crashes
<1> QED BY <1>11, <1>12

\* What one entry of any method does.
LEMMA MethodSteps ==
  ASSUME NEW m \in Remote, NEW n \in Int, NEW e, NEW v \in Int, NEW o
  PROVE  /\ StepOf(m, n, e, v, o) \subseteq Typed \cup {Crash}
         /\ m \notin Excepted => StepOf(m, n, e, v, o) \subseteq Plain
<1> DEFINE Good(S) == /\ S \subseteq Typed \cup {Crash}
                      /\ m \notin Excepted => S \subseteq Plain
<1>1. m \in StorageAll => Good(StorageStep(m, n, e, v, o)) BY StorageSteps
<1>2. m \in NetworkAll => Good(NetworkStep(m, n, e, v, o)) BY NetworkSteps
<1>3. m \in ConsoleAll => Good(ConsoleStep(m, n, e, v, o)) BY ConsoleSteps
<1>4. m \in NodeAll => Good(NodeStep(m, n, e, v, o)) BY NodeSteps
<1>5. m \in VmAll => Good(VmStep(m, n, e, v, o)) BY VmSteps
<1>6. m \in AccountAll => Good(AccountStep(m, n, e, v, o)) BY AccountSteps
<1>7. m \in JobAll => Good(JobStep(m, n, e, v, o)) BY JobSteps
<1>8. m \in StorageAll \cup NetworkAll \cup ConsoleAll \cup NodeAll \cup VmAll \cup AccountAll \cup JobAll
  BY DEF Remote
<1> HIDE DEF Good
<1>9. Good(StepOf(m, n, e, v, o))
  BY <1>1, <1>2, <1>3, <1>4, <1>5, <1>6, <1>7, <1>8 DEF StepOf
<1> QED BY <1>9 DEF Good

-----------------------------------------------------------------------------
(* The methods that expect an object from one query and from no other.       *)

\* Where such a method waits: at count n, with one callback, for one query.
At(m, n, cb, q) == [m |-> m, n |-> n, cb |-> cb, q |-> q]
Stages ==
  {At("modifyNetIf", 0, "value", "getVMvifByMac"),
   At("modifyNetIf", 1, "value", "getNetworkOfNone"),
   At("modifyDiskByStorage", 0, "value", "getDiskByStorage"),
   At("modifyDiskByStorage", 1, "rewind", "modifyDisk"),
   At("detachStorageFromNode", 0, "rewind", "isNode"),
   At("detachStorageFromNode", 1, "value", "getStorage"),
   At("detachStorageFromNode", 2, "rewind", "detachStorageFromNode"),
   At("detachAllNodesByNetwork", 0, "rewind", "isNetworkId"),
   At("detachAllNodesByNetwork", 1, "value", "getNodesByNetwork"),
   At("detachAllNodesByNetwork", 2, "value", "getNetwork"),
   At("detachAllNodesByNetwork", 11, "net_target_host", "getNodeNameAndUuid"),
   At("getConsoleLockUser", 0, "value", "getConsoleLockSession"),
   At("getSupportedConsoles", 0, "value", "getVMattribute"),
   At("setNodeControlModuleByName", 0, "value", "getNodePlatform"),
   At("setNodeControlModule", 0, "value", "getNodePlatform"),
   At("getVmsByNetworkFull", 0, "value", "getVmsByNetwork"),
   At("getAllVmsFullByNode", 0, "value", "getAllVmsByNode"),
   At("getVMsFullUID", 0, "value", "getVMsByUID"),
   At("getVMsFullUID", 0, "value", "getVMsByUIDSorted"),
   At("getVMsFull", 0, "value", "getVMs"),
   At("getVMsFull", 0, "value", "getVMsSorted"),
   At("getPlatformsFull", 0, "value", "getPlatformsFull")}

Readers ==
  {"getConsoleLockUser", "getSupportedConsoles", "getVmsByNetworkFull",
   "getAllVmsFullByNode", "getVMsFullUID", "getVMsFull", "getPlatformsFull"}
Chains == {"modifyDiskByStorage", "detachStorageFromNode",
           "detachAllNodesByNetwork", "modifyNetIf"}
Setters == {"setNodeControlModuleByName", "setNodeControlModule"}

\* The queries that come back to the method itself.
Calm == Asks \ (NotLoaded \cup Kids)

\* An entry at count n, asking for members of A, that pushes callbacks of C
\* alone, or is answered with an error, or waits at a stage of m.
Leading(m, n, e, A, C) ==
  {s \in Shape(A, Callbacks) :
     \/ s.cb \in Seq(C)
     \/ After(s, e) # OK
     \/ \E t \in Stages : /\ t.m = m /\ t.n = (IF s.count = NoCount THEN n ELSE s.count)
                          /\ s.ask = <<t.q>> /\ s.cb = <<t.cb>>}

LEMMA Leads ==
  ASSUME NEW m, NEW n, NEW e, NEW A, NEW C, C \subseteq Callbacks
  PROVE  /\ Shape(A, C) \subseteq Leading(m, n, e, A, C)
         /\ \A q \in A : \A cb \in Callbacks :
              At(m, n, cb, q) \in Stages =>
                /\ AskCb(q, cb) \in Leading(m, n, e, A, C)
                /\ Hold(AskCb(q, cb)) \in Leading(m, n, e, A, C)
                /\ \A k \in Int : HoldValue(AskCb(q, cb), k) \in Leading(m, n, e, A, C)
<1>1. Shape(A, C) \subseteq Leading(m, n, e, A, C)
  <2>1. Shape(A, C) \subseteq Shape(A, Callbacks) BY LargerShape
  <2>2. \A s \in Shape(A, C) : s.cb \in Seq(C) BY DEF Shape
  <2> QED BY <2>1, <2>2 DEF Leading
<1>2. ASSUME NEW q \in A, NEW cb \in Callbacks, At(m, n, cb, q) \in Stages, NEW k \in Int,
             NEW s \in {AskCb(q, cb), Hold(AskCb(q, cb)), HoldValue(AskCb(q, cb), k)}
      PROVE  s \in Leading(m, n, e, A, C)
  <2>1. s \in Shape(A, Callbacks)
    <3>1. Vocabulary(Shape(A, Callbacks), A, Callbacks) BY ShapeVocabulary
    <3> QED BY <3>1, <1>2 DEF Vocabulary
  <2>2. s.count = NoCount /\ s.ask = <<q>> /\ s.cb = <<cb>>
    BY <1>2 DEF AskCb, Hold, HoldValue, Nothing
  <2>3. \E t \in Stages : /\ t.m = m /\ t.n = n /\ s.ask = <<t.q>> /\ s.cb = <<t.cb>>
    BY <1>2, <2>2 DEF At
  <2> QED BY <2>1, <2>2, <2>3 DEF Leading
<1> QED BY <1>1, <1>2

LEMMA CalmNames ==
  {"getDiskByStorage", "modifyDisk", "isNode", "getStorage", "detachStorageFromNode",
   "isNetworkId", "getNodesByNetwork", "getNetwork", "getNodeNameAndUuid", "getVMvifByMac",
   "getNetworkOfNone", "getNodePlatform", "setNodeStatus", "setNodeControlModuleByName",
   "setNodeControlModule", "isControlModuleForPlatformByName", "isControlModuleForPlatform",
   "isControlModuleForPlatformById", "isControlModuleForPlatformByMid"} \subseteq Calm
BY StorageNamesKnown, NetworkNamesKnown, NodeNamesKnown
   DEF StorageNames, NetworkNames, NodeNames, Calm, NotLoaded, Kids

\* The interface of a machine and the disk, storage or network that is changed
\* step by step.
LEMMA ChainSteps ==
  ASSUME NEW e, NEW v \in Int, NEW o
  PROVE  /\ \A n \in 0..1 : modifyDiskByStorage(n, e, v, o)
                              \subseteq Leading("modifyDiskByStorage", n, e, Calm, {})
         /\ \A n \in 0..2 : detachStorageFromNode(n, e, v, o)
                              \subseteq Leading("detachStorageFromNode", n, e, Calm, {})
         /\ \A n \in 0..3 : detachAllNodesByNetwork(n, e, v, o)
                              \subseteq Leading("detachAllNodesByNetwork", n, e, Calm, {})
         /\ \A n \in 0..2 : (n = 2 => v = 0) =>
              modifyNetIf(n, e, v, o) \subseteq Leading("modifyNetIf", n, e, Calm, {})
<1>1. \A m, n : /\ Nothing \in Leading(m, n, e, Calm, {}) /\ Answer \in Leading(m, n, e, Calm, {})
                /\ \A x \in Errors : Fail(x) \in Leading(m, n, e, Calm, {})
  <2>1. Vocabulary(Shape(Calm, {}), {}, {}) BY ShapeVocabulary
  <2> QED BY <2>1, Leads DEF Vocabulary
<1>2. \A m, n : \A q \in Calm : \A cb \in Callbacks :
        At(m, n, cb, q) \in Stages =>
          /\ AskCb(q, cb) \in Leading(m, n, e, Calm, {})
          /\ Hold(AskCb(q, cb)) \in Leading(m, n, e, Calm, {})
          /\ \A k \in Int : HoldValue(AskCb(q, cb), k) \in Leading(m, n, e, Calm, {})
  BY Leads
<1>3. "value" \in Callbacks /\ "rewind" \in Callbacks BY DEF Callbacks, Meek
<1>4. ASSUME NEW n \in 0..1
      PROVE  modifyDiskByStorage(n, e, v, o) \subseteq Leading("modifyDiskByStorage", n, e, Calm, {})
  <2>1. CASE n = 0
    <3>1. Value("getDiskByStorage") \in Leading("modifyDiskByStorage", 0, e, Calm, {})
      BY <1>2, <1>3, CalmNames DEF Stages, Value
    <3> QED BY <3>1, <1>1, <2>1 DEF modifyDiskByStorage, Errors
  <2>2. CASE n = 1
    <3>1. Hold(Again("modifyDisk")) \in Leading("modifyDiskByStorage", 1, e, Calm, {})
      BY <1>2, <1>3, CalmNames DEF Stages, Again
    <3> QED BY <3>1, <1>1, <2>2 DEF modifyDiskByStorage, Errors
  <2> QED BY <2>1, <2>2
<1>5. ASSUME NEW n \in 0..2
      PROVE  detachStorageFromNode(n, e, v, o) \subseteq Leading("detachStorageFromNode", n, e, Calm, {})
  <2>1. /\ Again("isNode") \in Leading("detachStorageFromNode", 0, e, Calm, {})
        /\ Value("getStorage") \in Leading("detachStorageFromNode", 1, e, Calm, {})
        /\ HoldValue(Again("detachStorageFromNode"), v) \in Leading("detachStorageFromNode", 2, e, Calm, {})
    BY <1>2, <1>3, CalmNames DEF Stages, Again, Value
  <2> QED BY <2>1, <1>1 DEF detachStorageFromNode, storage_cb_setup_storage, Checked, Errors
<1>6. ASSUME NEW n \in 0..3
      PROVE  detachAllNodesByNetwork(n, e, v, o) \subseteq Leading("detachAllNodesByNetwork", n, e, Calm, {})
  <2>1. /\ Again("isNetworkId") \in Leading("detachAllNodesByNetwork", 0, e, Calm, {})
        /\ Value("getNodesByNetwork") \in Leading("detachAllNodesByNetwork", 1, e, Calm, {})
        /\ Value("getNetwork") \in Leading("detachAllNodesByNetwork", 2, e, Calm, {})
    BY <1>2, <1>3, CalmNames DEF Stages, Again, Value
  <2>2. PerNode(1) \in Leading("detachAllNodesByNetwork", 3, e, Calm, {})
    <3>1. PerNode(1) \in Shape(Calm, Callbacks)
      <4>1. Vocabulary(Shape(Calm, Callbacks), Calm, Callbacks) BY ShapeVocabulary
      <4>2. "net_target_host" \in Callbacks BY DEF Callbacks
      <4>3. TimesCb(1, "getNodeNameAndUuid", "net_target_host") \in Shape(Calm, Callbacks)
        <5>1. "getNodeNameAndUuid" \in Calm BY CalmNames
        <5> QED BY <4>1, <4>2, <5>1 DEF Vocabulary
      <4>4. \A s \in Shape(Calm, Callbacks) : \A k \in Int : Counting(s, k) \in Shape(Calm, Callbacks)
        BY <4>1 DEF Vocabulary
      <4>5. PerNode(1) = Counting(TimesCb(1, "getNodeNameAndUuid", "net_target_host"), 11) /\ 11 \in Int
        BY DEF PerNode
      <4> QED BY <4>3, <4>4, <4>5
    <3>2. /\ PerNode(1).count = 11
          /\ PerNode(1).ask = [i \in 1..1 |-> "getNodeNameAndUuid"]
          /\ PerNode(1).cb = [i \in 1..1 |-> "net_target_host"]
      BY DEF PerNode, Counting, TimesCb, Times, Nothing
    <3>3. \A x : [i \in 1..1 |-> x] = <<x>>
      OBVIOUS
    <3>4. At("detachAllNodesByNetwork", 11, "net_target_host", "getNodeNameAndUuid") \in Stages
      BY DEF Stages
    <3> QED BY <3>1, <3>2, <3>3, <3>4 DEF Leading, At, NoCount
  <2>3. CASE n \in {0, 1} BY <2>1, <2>3, <1>1 DEF detachAllNodesByNetwork, Checked, Errors
  <2>4. CASE n = 2 BY <2>1, <2>4, <1>1 DEF detachAllNodesByNetwork, Errors
  <2>5. CASE n = 3 BY <2>2, <2>5 DEF detachAllNodesByNetwork
  <2> QED BY <2>3, <2>4, <2>5
<1>7. ASSUME NEW n \in 0..2, n = 2 => v = 0
      PROVE  modifyNetIf(n, e, v, o) \subseteq Leading("modifyNetIf", n, e, Calm, {})
  <2>1. /\ Value("getVMvifByMac") \in Leading("modifyNetIf", 0, e, Calm, {})
        /\ Value("getNetworkOfNone") \in Leading("modifyNetIf", 1, e, Calm, {})
    BY <1>2, <1>3, CalmNames DEF Stages, Value
  <2>2. CASE n \in {0, 1} BY <2>1, <2>2, <1>1 DEF modifyNetIf, Errors
  <2>3. CASE n = 2
    <3>1. network_job_create_vm("modifyNetIf", n, e, v, o) \subseteq {Fail("UNKNOWN_RESOURCE"), Nothing}
      <4>1. n = 2 /\ v = 0 /\ v # Wild BY <2>3, <1>7 DEF Wild
      <4>2. ASSUME NEW s \in network_job_create_vm("modifyNetIf", n, e, v, o)
            PROVE  s = Fail("UNKNOWN_RESOURCE") \/ s = Nothing
        BY <4>1, <4>2 DEF network_job_create_vm
      <4> QED BY <4>2
    <3>2. modifyNetIf(n, e, v, o) \subseteq {Fail("UNKNOWN_RESOURCE"), Nothing}
      BY <2>3, <3>1 DEF modifyNetIf
    <3> QED BY <3>2, <1>1 DEF Errors
  <2> QED BY <2>2, <2>3
<1> QED BY <1>4, <1>5, <1>6, <1>7

\* Which service a staged method belongs to.
LEMMA StagedServices ==
  /\ Staged \cap StorageAll = {"modifyDiskByStorage", "detachStorageFromNode"}
  /\ Staged \cap NetworkAll = {"detachAllNodesByNetwork", "addNetIf", "modifyNetIf"}
  /\ Staged \cap ConsoleAll = {"connectGraphicalConsole", "getConsoleLockUser", "getSupportedConsoles"}
  /\ Staged \cap NodeAll = {"setNodeControlModuleByName", "setNodeControlModule"}
  /\ Staged \cap VmAll = {"getVmsByNetworkFull", "getAllVmsFullByNode", "getVMsFullUID", "getVMsFull",
                          "addVmToNode"}
  /\ Staged \cap AccountAll = {"getPlatformsFull", "setConfigs"}
<1> USE DEF Staged
<1>1. Staged \cap StorageAll = {"modifyDiskByStorage", "detachStorageFromNode"}
  BY DEF StorageAll, StorageMethods, StorageReads, StorageModuleReads, StorageRelationReads,
         NodesAndVmsReads, StorageDiskReads
<1>2. Staged \cap NetworkAll = {"detachAllNodesByNetwork", "addNetIf", "modifyNetIf"}
  BY DEF NetworkAll, NetworkMethods, NetworkReads, DefineReads, NetworkModuleReads,
         NodesByNetworkReads, NetworkOtherReads
<1>3. Staged \cap ConsoleAll = {"connectGraphicalConsole", "getConsoleLockUser", "getSupportedConsoles"}
  BY DEF ConsoleAll, ConsoleMethods, PortReads, LockReads, SessionLockReads
<1>4. Staged \cap NodeAll = {"setNodeControlModuleByName", "setNodeControlModule"}
  BY DEF NodeAll, NodeMethods, AttributeReads, StateReads, NodeListReads, RemoveReads, NodeOtherReads
<1>5. Staged \cap VmAll = {"getVmsByNetworkFull", "getAllVmsFullByNode", "getVMsFullUID", "getVMsFull",
                           "addVmToNode"}
  BY DEF VmAll, VmMethods, VmActions, VmUnimplemented, TopReads, PrivilegeReads, VmReads, VmRowReads,
         TemplateReads
<1>6. Staged \cap AccountAll = {"getPlatformsFull", "setConfigs"}
  BY DEF AccountAll, AccountMethods, UserReads, UserByNameReads, UserListReads, GroupReads, GroupByNameReads,
         GroupListReads, PlatformReads, ModuleReads, SettingReads, DiskReads, NetIfReads, LogReads, ConfigWrites
<1> QED BY <1>1, <1>2, <1>3, <1>4, <1>5, <1>6

\* What StepOf is for them.
LEMMA StagedStepOf ==
  ASSUME NEW n, NEW e, NEW v, NEW o
  PROVE  /\ StepOf("modifyDiskByStorage", n, e, v, o) = modifyDiskByStorage(n, e, v, o)
         /\ StepOf("detachStorageFromNode", n, e, v, o) = detachStorageFromNode(n, e, v, o)
         /\ StepOf("detachAllNodesByNetwork", n, e, v, o) = detachAllNodesByNetwork(n, e, v, o)
         /\ StepOf("addNetIf", n, e, v, o) = addNetIf(n, e, v, o)
         /\ StepOf("modifyNetIf", n, e, v, o) = modifyNetIf(n, e, v, o)
         /\ StepOf("connectGraphicalConsole", n, e, v, o) = connectGraphicalConsole(n, e, v, o)
         /\ StepOf("getConsoleLockUser", n, e, v, o) = getConsoleLockUser(n, e, v, o)
         /\ StepOf("getSupportedConsoles", n, e, v, o) = getSupportedConsoles(n, e, v, o)
         /\ StepOf("setNodeControlModuleByName", n, e, v, o) = setNodeControlModuleByName(n, e, v, o)
         /\ StepOf("setNodeControlModule", n, e, v, o) = setNodeControlModule(n, e, v, o)
         /\ StepOf("getVmsByNetworkFull", n, e, v, o) = getVmsByNetworkFull(n, e, v, o)
         /\ StepOf("getAllVmsFullByNode", n, e, v, o) = getAllVmsFullByNode(n, e, v, o)
         /\ StepOf("getVMsFullUID", n, e, v, o) = getVMsFullUID(n, e, v, o)
         /\ StepOf("getVMsFull", n, e, v, o) = getVMsFull(n, e, v, o)
         /\ StepOf("addVmToNode", n, e, v, o) = addVmToNode(n, e, v, o)
         /\ StepOf("getPlatformsFull", n, e, v, o) = getPlatformsFull(n, e, v, o)
         /\ StepOf("setConfigs", n, e, v, o) = setConfigs(n, e, v, o)
<1>1. ASSUME NEW m \in Staged
      PROVE  StepOf(m, n, e, v, o) =
               CASE m \in {"modifyDiskByStorage", "detachStorageFromNode"} -> StorageStep(m, n, e, v, o)
                 [] m \in {"detachAllNodesByNetwork", "addNetIf", "modifyNetIf"} -> NetworkStep(m, n, e, v, o)
                 [] m \in {"connectGraphicalConsole", "getConsoleLockUser", "getSupportedConsoles"} ->
                      ConsoleStep(m, n, e, v, o)
                 [] m \in {"setNodeControlModuleByName", "setNodeControlModule"} -> NodeStep(m, n, e, v, o)
                 [] m \in {"getVmsByNetworkFull", "getAllVmsFullByNode", "getVMsFullUID", "getVMsFull",
                           "addVmToNode"} -> VmStep(m, n, e, v, o)
                 [] m \in {"getPlatformsFull", "setConfigs"} -> AccountStep(m, n, e, v, o)
  BY <1>1, StagedServices DEF StepOf, Staged
<1>2. \A m \in {"modifyDiskByStorage", "detachStorageFromNode"} : StepOf(m, n, e, v, o) = StorageStep(m, n, e, v, o)
  BY <1>1 DEF Staged
<1>3. \A m \in {"detachAllNodesByNetwork", "addNetIf", "modifyNetIf"} : StepOf(m, n, e, v, o) = NetworkStep(m, n, e, v, o)
  BY <1>1 DEF Staged
<1>4. \A m \in {"connectGraphicalConsole", "getConsoleLockUser", "getSupportedConsoles"} :
        StepOf(m, n, e, v, o) = ConsoleStep(m, n, e, v, o)
  BY <1>1 DEF Staged
<1>5. \A m \in {"setNodeControlModuleByName", "setNodeControlModule"} : StepOf(m, n, e, v, o) = NodeStep(m, n, e, v, o)
  BY <1>1 DEF Staged
<1>6. \A m \in {"getVmsByNetworkFull", "getAllVmsFullByNode", "getVMsFullUID", "getVMsFull", "addVmToNode"} :
        StepOf(m, n, e, v, o) = VmStep(m, n, e, v, o)
  BY <1>1 DEF Staged
<1>7. \A m \in {"getPlatformsFull", "setConfigs"} : StepOf(m, n, e, v, o) = AccountStep(m, n, e, v, o)
  BY <1>1 DEF Staged
<1>8. /\ StorageStep("modifyDiskByStorage", n, e, v, o) = modifyDiskByStorage(n, e, v, o)
      /\ StorageStep("detachStorageFromNode", n, e, v, o) = detachStorageFromNode(n, e, v, o)
  BY DEF StorageStep
<1>9. /\ NetworkStep("detachAllNodesByNetwork", n, e, v, o) = detachAllNodesByNetwork(n, e, v, o)
      /\ NetworkStep("addNetIf", n, e, v, o) = addNetIf(n, e, v, o)
      /\ NetworkStep("modifyNetIf", n, e, v, o) = modifyNetIf(n, e, v, o)
  BY DEF NetworkStep
<1>10. /\ ConsoleStep("connectGraphicalConsole", n, e, v, o) = connectGraphicalConsole(n, e, v, o)
       /\ ConsoleStep("getConsoleLockUser", n, e, v, o) = getConsoleLockUser(n, e, v, o)
       /\ ConsoleStep("getSupportedConsoles", n, e, v, o) = getSupportedConsoles(n, e, v, o)
  BY DEF ConsoleStep
<1>11. /\ NodeStep("setNodeControlModuleByName", n, e, v, o) = setNodeControlModuleByName(n, e, v, o)
       /\ NodeStep("setNodeControlModule", n, e, v, o) = setNodeControlModule(n, e, v, o)
  BY DEF NodeStep
<1>12. /\ VmStep("getVmsByNetworkFull", n, e, v, o) = getVmsByNetworkFull(n, e, v, o)
       /\ VmStep("getAllVmsFullByNode", n, e, v, o) = getAllVmsFullByNode(n, e, v, o)
       /\ VmStep("getVMsFullUID", n, e, v, o) = getVMsFullUID(n, e, v, o)
       /\ VmStep("getVMsFull", n, e, v, o) = getVMsFull(n, e, v, o)
       /\ VmStep("addVmToNode", n, e, v, o) = addVmToNode(n, e, v, o)
  BY DEF VmStep, VmActions, VmUnimplemented
<1>13. /\ AccountStep("getPlatformsFull", n, e, v, o) = getPlatformsFull(n, e, v, o)
       /\ AccountStep("setConfigs", n, e, v, o) = setConfigs(n, e, v, o)
  BY DEF AccountStep, CheckedReads
<1> QED BY <1>2, <1>3, <1>4, <1>5, <1>6, <1>7, <1>8, <1>9, <1>10, <1>11, <1>12, <1>13

LEMMA ReaderSteps ==
  ASSUME NEW m \in Readers, NEW n \in Int, NEW e, NEW v \in Nat, NEW o
  PROVE  /\ n = 0 => StepOf(m, n, e, v, o) \subseteq Leading(m, 0, e, Asks \ NotLoaded, {})
         /\ n # 0 => StepOf(m, n, e, v, o) \subseteq Silent
<1> DEFINE Lists == {"getConsoleLockSession", "getVMattribute", "getVmsByNetwork", "getAllVmsByNode",
                     "getVMsByUID", "getVMsByUIDSorted", "getVMs", "getVMsSorted", "getPlatformsFull"}
           L(k) == Leading(k, 0, e, Asks \ NotLoaded, {})
<1>1. /\ Nothing \in Silent /\ Answer \in Silent /\ Fail("INVALID_PARAMETER") \in Silent
      /\ Ask("getUserNameBySession") \in Silent
      /\ Times(v, "vm_cb_getvm") \in Silent /\ Times(v, "platform_get") \in Silent
  <2>1. {"getUserNameBySession", "vm_cb_getvm", "platform_get"} \subseteq Asks \ NotLoaded
    BY ConsoleNamesKnown, VmNamesKnown, AccountNamesKnown DEF ConsoleNames, VmNames, AccountNames, NotLoaded
  <2>2. Vocabulary(Silent, {"getUserNameBySession", "vm_cb_getvm", "platform_get"}, {})
    BY <2>1, ShapeVocabulary DEF Silent
  <2> QED BY <2>2 DEF Vocabulary, Errors
<1>2. /\ Counting(Times(v, "vm_cb_getvm"), 2 + v) \in Silent
      /\ Counting(Times(v, "platform_get"), 2 + v) \in Silent
      /\ Cleared(Answer) \in Silent
  <2>1. \A s \in Silent : Cleared(s) \in Silent BY Combined
  <2>2. \A s \in Silent : \A k \in Int : Counting(s, k) \in Silent BY Combined
  <2>3. 2 + v \in Int OBVIOUS
  <2> QED BY <2>1, <2>2, <2>3, <1>1
<1>3. Lists \subseteq Asks \ NotLoaded
  BY ConsoleNamesKnown, VmNamesKnown, AccountNamesKnown DEF ConsoleNames, VmNames, AccountNames, NotLoaded
<1>4. \A k : \A q \in Lists : At(k, 0, "value", q) \in Stages => Value(q) \in L(k)
  <2>1. "value" \in Callbacks BY DEF Callbacks
  <2> QED BY <1>3, <2>1, Leads DEF Value
<1>5. \A k : Fail("INVALID_PARAMETER") \in L(k)
  <2>1. \A k : Silent \subseteq L(k) BY Leads DEF Silent
  <2> QED BY <2>1, <1>1
<1> HIDE DEF L
<1>6. CASE n = 0
  <2>1. /\ Value("getConsoleLockSession") \in L("getConsoleLockUser")
        /\ Value("getVMattribute") \in L("getSupportedConsoles")
        /\ Value("getVmsByNetwork") \in L("getVmsByNetworkFull")
        /\ Value("getAllVmsByNode") \in L("getAllVmsFullByNode")
        /\ Value("getVMsByUID") \in L("getVMsFullUID") /\ Value("getVMsByUIDSorted") \in L("getVMsFullUID")
        /\ Value("getVMs") \in L("getVMsFull") /\ Value("getVMsSorted") \in L("getVMsFull")
        /\ Value("getPlatformsFull") \in L("getPlatformsFull")
    BY <1>4 DEF Stages
  <2>2. /\ getConsoleLockUser(0, e, v, o) \subseteq L("getConsoleLockUser")
        /\ getSupportedConsoles(0, e, v, o) \subseteq L("getSupportedConsoles")
        /\ getPlatformsFull(0, e, v, o) \subseteq L("getPlatformsFull")
    BY <2>1 DEF getConsoleLockUser, getSupportedConsoles, getPlatformsFull
  <2>3. /\ getVmsByNetworkFull(0, e, v, o) \subseteq L("getVmsByNetworkFull")
        /\ getAllVmsFullByNode(0, e, v, o) \subseteq L("getAllVmsFullByNode")
    BY <2>1 DEF getVmsByNetworkFull, getAllVmsFullByNode, vm_cb_getallvmsfull
  <2>4. /\ getVMsFullUID(0, e, v, o) \subseteq L("getVMsFullUID")
        /\ getVMsFull(0, e, v, o) \subseteq L("getVMsFull")
    BY <2>1, <1>5 DEF getVMsFullUID, getVMsFull, vmListFull, vmLists, vm_cb_getallvmsfull
  <2>5. m \in {"getConsoleLockUser", "getSupportedConsoles", "getPlatformsFull", "getVmsByNetworkFull",
               "getAllVmsFullByNode", "getVMsFullUID", "getVMsFull"}
    BY DEF Readers
  <2>6. StepOf(m, 0, e, v, o) \subseteq L(m) BY <2>2, <2>3, <2>4, <2>5, StagedStepOf
  <2> QED BY <1>6, <2>6 DEF L
<1>7. CASE n # 0
  <2>1. /\ getConsoleLockUser(n, e, v, o) \subseteq Silent
        /\ getSupportedConsoles(n, e, v, o) \subseteq Silent
        /\ getPlatformsFull(n, e, v, o) \subseteq Silent
    BY <1>7, <1>1, <1>2 DEF getConsoleLockUser, getSupportedConsoles, getPlatformsFull
  <2>2. \A first : vm_cb_getallvmsfull(first, n, e, v) \subseteq Silent
    BY <1>7, <1>1, <1>2 DEF vm_cb_getallvmsfull
  <2>3. /\ getVmsByNetworkFull(n, e, v, o) \subseteq Silent
        /\ getAllVmsFullByNode(n, e, v, o) \subseteq Silent
        /\ getVMsFullUID(n, e, v, o) \subseteq Silent
        /\ getVMsFull(n, e, v, o) \subseteq Silent
    BY <2>2 DEF getVmsByNetworkFull, getAllVmsFullByNode, getVMsFullUID, getVMsFull, vmListFull
  <2> QED BY <1>7, <2>1, <2>3, StagedStepOf DEF Readers
<1> QED BY <1>6, <1>7

LEMMA SetterSteps ==
  ASSUME NEW m \in Setters, NEW n \in Nat, NEW e, NEW v \in Nat, NEW o
  PROVE  /\ \A s \in StepOf(m, n, e, v, o) : s.count = NoCount
         /\ n = 0 => StepOf(m, n, e, v, o) \subseteq Leading(m, 0, e, Calm, Meek)
         /\ n # 0 => StepOf(m, n, e, v, o) \subseteq Shape(Calm, Meek)
<1> DEFINE Tests == {"isControlModuleForPlatformByName", "isControlModuleForPlatform",
                     "isControlModuleForPlatformById", "isControlModuleForPlatformByMid"}
           Set(a, b, k) == setModule(a, b, k, n, e, v, o)
<1>1. /\ Nothing \in Shape(Calm, Meek) /\ Answer \in Shape(Calm, Meek)
      /\ Fail("UNKNOWN_RESOURCE") \in Shape(Calm, Meek)
      /\ \A q \in Calm : Ask(q) \in Shape(Calm, Meek) /\ Again(q) \in Shape(Calm, Meek)
                         /\ AgainInt(q) \in Shape(Calm, Meek)
      /\ \A s \in Shape(Calm, Meek) : \A t \in Shape(Calm, Meek) : Both(s, t) \in Shape(Calm, Meek)
  <2>1. Vocabulary(Shape(Calm, Meek), Calm, Meek) BY ShapeVocabulary
  <2>2. "rewind" \in Meek /\ "int_rewind" \in Meek BY DEF Meek
  <2> QED BY <2>1, <2>2 DEF Vocabulary, Errors, Again, AgainInt
<1>2. Both(Ask("setNodeStatus"), AgainInt("setNodeControlModuleByName")) \in Shape(Calm, Meek)
  <2>1. "setNodeStatus" \in Calm /\ "setNodeControlModuleByName" \in Calm BY CalmNames
  <2> QED BY <2>1, <1>1
<1>3. /\ \A q \in Tests : Again(q) \in Shape(Calm, Meek)
      /\ \A q \in Setters : Ask(q) \in Shape(Calm, Meek)
  BY <1>1, CalmNames DEF Setters
<1>4. /\ Nothing.count = NoCount /\ Answer.count = NoCount /\ Fail("UNKNOWN_RESOURCE").count = NoCount
      /\ \A q : Ask(q).count = NoCount /\ Again(q).count = NoCount /\ Value(q).count = NoCount
      /\ Both(Ask("setNodeStatus"), AgainInt("setNodeControlModuleByName")).count = NoCount
  BY DEF Nothing, Answer, Answering, Fail, Ask, Again, Value, AskCb, Both
<1>5. ASSUME NEW a \in Tests, NEW b \in Tests, NEW k \in Setters
      PROVE  /\ n = 0 => Set(a, b, k) = {Both(Ask("setNodeStatus"), AgainInt("setNodeControlModuleByName")),
                                         Value("getNodePlatform")}
             /\ n # 0 => Set(a, b, k) \subseteq {Again(a), Again(b), Ask(k), Answer, Nothing,
                                                 Fail("UNKNOWN_RESOURCE")}
  <2>1. CASE n = 0 BY <2>1 DEF setModule
  <2>2. CASE n = 1 BY <2>2 DEF setModule
  <2>3. CASE n \notin {0, 1} BY <2>3 DEF setModule
  <2> QED BY <2>1, <2>2, <2>3
<1>6. Value("getNodePlatform") \in Leading(m, 0, e, Calm, Meek)
  <2>1. "getNodePlatform" \in Calm /\ "value" \in Callbacks BY CalmNames DEF Callbacks
  <2>2. At(m, 0, "value", "getNodePlatform") \in Stages BY DEF Setters, Stages
  <2>3. Meek \subseteq Callbacks BY DEF Callbacks
  <2> QED BY <2>1, <2>2, <2>3, Leads DEF Value
<1>7. Shape(Calm, Meek) \subseteq Leading(m, 0, e, Calm, Meek)
  <2>1. Meek \subseteq Callbacks BY DEF Callbacks
  <2> QED BY <2>1, Leads
<1>8. PICK a \in Tests, b \in Tests, k \in Setters : StepOf(m, n, e, v, o) = Set(a, b, k)
  BY StagedStepOf DEF Setters, setNodeControlModuleByName, setNodeControlModule
<1> HIDE DEF Set, Tests
<1>9. CASE n = 0
  <2>1. StepOf(m, n, e, v, o) = {Both(Ask("setNodeStatus"), AgainInt("setNodeControlModuleByName")),
                                 Value("getNodePlatform")}
    BY <1>5, <1>8, <1>9
  <2> QED BY <1>9, <2>1, <1>2, <1>4, <1>6, <1>7
<1>10. CASE n # 0
  <2>1. StepOf(m, n, e, v, o) \subseteq {Again(a), Again(b), Ask(k), Answer, Nothing, Fail("UNKNOWN_RESOURCE")}
    BY <1>5, <1>8, <1>10
  <2> QED BY <1>10, <2>1, <1>1, <1>3, <1>4
<1> QED BY <1>9, <1>10

\* A console's port is only asked for with an error that answers.
LEMMA ConnectSteps ==
  ASSUME NEW n, NEW e, NEW v, NEW o
  PROVE  StepOf("connectGraphicalConsole", n, e, v, o)
           \subseteq Leading("connectGraphicalConsole", n, e, Asks \ NotLoaded, Meek)
<1>1. "hasConsoleLock" \in Asks \ NotLoaded /\ "getConfig" \in Asks \ NotLoaded
  BY ConsoleNamesKnown DEF ConsoleNames, NotLoaded
<1>2. Meek \subseteq Callbacks /\ "rewind" \in Meek /\ "value" \in Callbacks BY DEF Callbacks, Meek
<1>3. /\ Again("hasConsoleLock") \in Plain /\ Fail("CONSOLE_LOCKED") \in Plain
      /\ Value("getConfig") \in Shape(Asks \ NotLoaded, Callbacks)
  <2>1. Vocabulary(Plain, Asks \ NotLoaded, Meek) BY ShapeVocabulary DEF Plain
  <2>2. Vocabulary(Shape(Asks \ NotLoaded, Callbacks), Asks \ NotLoaded, Callbacks) BY ShapeVocabulary
  <2> QED BY <1>1, <1>2, <2>1, <2>2 DEF Vocabulary, Again, Value, Errors
<1>4. Plain \subseteq Leading("connectGraphicalConsole", n, e, Asks \ NotLoaded, Meek)
  BY <1>2, Leads DEF Plain
<1>5. e # OK => Value("getConfig") \in Leading("connectGraphicalConsole", n, e, Asks \ NotLoaded, Meek)
  <2>1. Value("getConfig").err = Same BY DEF Value, AskCb, Nothing
  <2> QED BY <1>3, <2>1 DEF Leading, After
<1> QED BY <1>3, <1>4, <1>5, StagedStepOf DEF connectGraphicalConsole

LEMMA AddVmSteps ==
  ASSUME NEW n, NEW e, NEW v, NEW o
  PROVE  StepOf("addVmToNode", n, e, v, o) \subseteq Shape(Asks \ NotLoaded, {"value"})
<1> DEFINE S == Shape(Asks \ NotLoaded, {"value"})
<1>1. {"isVM", "getNodeControlModule", "getLatestNodeStat", "createVM"} \subseteq Asks \ NotLoaded
  BY VmNamesKnown DEF VmNames, NotLoaded
<1>2. /\ Nothing \in S
      /\ \A x \in {"INVALID_PARAMETER", "ENTITY_ALREADY_EXISTS", "NODE_UNCONFIGURED", "DB_FAIL",
                   "INSUFFICIENT_RESOURCES"} : Fail(x) \in S
      /\ Value("isVM") \in S /\ Value("createVM") \in S
      /\ Cleared(Value("getNodeControlModule")) \in S /\ Hold(Value("getLatestNodeStat")) \in S
  <2>1. Vocabulary(S, Asks \ NotLoaded, {"value"}) BY ShapeVocabulary
  <2>2. \A s \in S : Cleared(s) \in S /\ Hold(s) \in S BY <2>1 DEF Vocabulary
  <2>3. \A q \in {"isVM", "getNodeControlModule", "getLatestNodeStat", "createVM"} : Value(q) \in S
    BY <1>1, <2>1 DEF Vocabulary, Value
  <2>4. Nothing \in S /\ \A x \in Errors : Fail(x) \in S BY <2>1 DEF Vocabulary
  <2> HIDE DEF S
  <2> QED BY <2>2, <2>3, <2>4 DEF Errors
<1> HIDE DEF S
<1>3. addVmToNode(n, e, v, o) \subseteq S
  BY <1>2 DEF addVmToNode, Checked
<1> QED BY <1>3, StagedStepOf DEF S

LEMMA SetConfigsSteps ==
  ASSUME NEW n, NEW e, NEW v, NEW o
  PROVE  StepOf("setConfigs", n, e, v, o) \subseteq Shape({"setConfig"}, {"null"})
<1>1. \A k \in 0..2 : TimesCb(k, "setConfig", "null") \in Shape({"setConfig"}, {"null"})
  <2>1. Vocabulary(Shape({"setConfig"}, {"null"}), {"setConfig"}, {"null"}) BY ShapeVocabulary
  <2> QED BY <2>1 DEF Vocabulary
<1> QED BY <1>1, StagedStepOf DEF setConfigs

LEMMA AddNetIfSteps ==
  ASSUME NEW n \in Int, NEW e, NEW v \in Int, NEW o, n <= 2, n = 2 => v = 0
  PROVE  \A s \in StepOf("addNetIf", n, e, v, o) :
           /\ s \in Shape(Asks \ NotLoaded, {"rewind"})
           /\ s.count = NoCount
           /\ n = 2 => After(s, e) # OK
<1> DEFINE S == Shape(Asks \ NotLoaded, {"rewind"})
<1>1. "isVM" \in Asks \ NotLoaded /\ "isNetworkId" \in Asks \ NotLoaded
  BY NetworkNamesKnown DEF NetworkNames, NotLoaded
<1>2. /\ Nothing \in S /\ Again("isNetworkId") \in S /\ Both(Again("isVM"), Again("isNetworkId")) \in S
      /\ \A x \in {"INVALID_PARAMETER", "UNKNOWN_RESOURCE", "SERVER_FAILURE"} : Fail(x) \in S
  <2>1. Vocabulary(S, Asks \ NotLoaded, {"rewind"}) BY ShapeVocabulary
  <2>2. Again("isNetworkId") \in S /\ Again("isVM") \in S BY <1>1, <2>1 DEF Vocabulary, Again
  <2>3. Nothing \in S /\ \A x \in Errors : Fail(x) \in S BY <2>1 DEF Vocabulary
  <2>4. \A s \in S : \A t \in S : Both(s, t) \in S BY <2>1 DEF Vocabulary
  <2> HIDE DEF S
  <2> QED BY <2>2, <2>3, <2>4 DEF Errors
<1>3. /\ Nothing.count = NoCount /\ Again("isNetworkId").count = NoCount
      /\ Both(Again("isVM"), Again("isNetworkId")).count = NoCount
      /\ \A x : Fail(x).count = NoCount
  BY DEF Nothing, Again, AskCb, Both, Fail
<1>4. After(Nothing, e) = e /\ After(Fail("UNKNOWN_RESOURCE"), e) # OK
  BY DEF After, Nothing, Fail, Same, OK
<1> HIDE DEF S
<1>5. CASE n = 0
  <2>1. addNetIf(n, e, v, o) \subseteq {Fail("INVALID_PARAMETER"), Both(Again("isVM"), Again("isNetworkId"))}
    BY <1>5 DEF addNetIf, network_job_create_vm, Checked
  <2> QED BY <1>5, <2>1, <1>2, <1>3, StagedStepOf DEF S
<1>6. CASE n = 1
  <2>1. addNetIf(n, e, v, o) \subseteq {Again("isNetworkId")}
    BY <1>6 DEF addNetIf, network_job_create_vm
  <2> QED BY <1>6, <2>1, <1>2, <1>3, StagedStepOf DEF S
<1>7. CASE n = 2
  <2>1. addNetIf(n, e, v, o) \subseteq {IF e = OK THEN Fail("UNKNOWN_RESOURCE") ELSE Nothing}
    BY <1>7 DEF addNetIf, network_job_create_vm, Wild
  <2> QED BY <2>1, <1>2, <1>3, <1>4, StagedStepOf DEF S
<1>8. CASE n < 0
  <2>1. addNetIf(n, e, v, o) \subseteq {Fail("SERVER_FAILURE")}
    BY <1>8 DEF addNetIf, network_job_create_vm
  <2> QED BY <1>8, <2>1, <1>2, <1>3, StagedStepOf DEF S
<1>9. n = 0 \/ n = 1 \/ n = 2 \/ n < 0 OBVIOUS
<1> QED BY <1>5, <1>6, <1>7, <1>8, <1>9

-----------------------------------------------------------------------------
(* What the replies to a staged method's queries carry.                      *)

Carried == {"rows", "list", "text", "vm"}
Expected ==
  {"getVMvifByMac", "getDiskByStorage", "getStorage", "getNodesByNetwork", "getNetwork",
   "getConsoleLockSession", "getVMattribute", "getNodePlatform", "getVmsByNetwork",
   "getAllVmsByNode", "getVMsByUID", "getVMsByUIDSorted", "getVMs", "getVMsSorted",
   "getPlatformsFull"}
Refused == {"modifyDisk", "detachStorageFromNode"}
Filed(f) ==
  \A k \in DOMAIN f : \A q \in f[k] :
    /\ q \in Expected => k \in Carried
    /\ q \in Refused => k = "bad"
    /\ q = "setConfig" => k \notin {"rows", "enabled"}

LEMMA AllFiled == \A f \in QueryFiles : Filed(f)
<1> USE DEF Filed, Carried, Expected, Refused
<1>1. Filed(AuthQueries) BY DEF AuthQueries
<1>2. Filed(ConsoleQueries) BY DEF ConsoleQueries
<1>3. Filed(DiskQueries1) BY DEF DiskQueries1
<1>4. Filed(DiskQueries2) BY DEF DiskQueries2
<1>5. Filed(GroupQueries1) BY DEF GroupQueries1
<1>6. Filed(GroupQueries2) BY DEF GroupQueries2
<1>7. Filed(NetworkQueries1) BY DEF NetworkQueries1
<1>8. Filed(NetworkQueries2) BY DEF NetworkQueries2
<1>9. Filed(NetworkQueries3) BY DEF NetworkQueries3
<1>10. Filed(NodeQueries1) BY DEF NodeQueries1
<1>11. Filed(NodeQueries2) BY DEF NodeQueries2
<1>12. Filed(NodeQueries3) BY DEF NodeQueries3
<1>13. Filed(NodeQueries4) BY DEF NodeQueries4
<1>14. Filed(NodeQueries5) BY DEF NodeQueries5
<1>15. Filed(PlatformQueries1) BY DEF PlatformQueries1
<1>16. Filed(PlatformQueries2) BY DEF PlatformQueries2
<1>17. Filed(PlatformQueries3) BY DEF PlatformQueries3
<1>18. Filed(JobQueries1) BY DEF JobQueries1
<1>19. Filed(JobQueries2) BY DEF JobQueries2
<1>20. Filed(JobQueries3) BY DEF JobQueries3
<1>21. Filed(JobQueries4) BY DEF JobQueries4
<1>22. Filed(JobQueries5) BY DEF JobQueries5
<1>23. Filed(SessionQueries) BY DEF SessionQueries
<1>24. Filed(StorageQueries1) BY DEF StorageQueries1
<1>25. Filed(StorageQueries2) BY DEF StorageQueries2
<1>26. Filed(StorageQueries3) BY DEF StorageQueries3
<1>27. Filed(UserQueries1) BY DEF UserQueries1
<1>28. Filed(UserQueries2) BY DEF UserQueries2
<1>29. Filed(UserQueries3) BY DEF UserQueries3
<1>30. Filed(UserQueries4) BY DEF UserQueries4
<1>31. Filed(NetIfQueries1) BY DEF NetIfQueries1
<1>32. Filed(NetIfQueries2) BY DEF NetIfQueries2
<1>33. Filed(VmQueries1) BY DEF VmQueries1
<1>34. Filed(VmQueries2) BY DEF VmQueries2
<1>35. Filed(VmQueries3) BY DEF VmQueries3
<1>36. Filed(VmQueries4) BY DEF VmQueries4
<1>37. Filed(VmQueries5) BY DEF VmQueries5
<1>38. Filed(SettingQueries1) BY DEF SettingQueries1
<1>39. Filed(SettingQueries2) BY DEF SettingQueries2
<1> HIDE DEF Filed, Carried, Expected, Refused
<1> QED
  BY <1>1, <1>2, <1>3, <1>4, <1>5, <1>6, <1>7, <1>8, <1>9, <1>10, <1>11, <1>12, <1>13, <1>14, <1>15, <1>16, <1>17, <1>18, <1>19, <1>20, <1>21, <1>22, <1>23, <1>24, <1>25, <1>26, <1>27, <1>28, <1>29, <1>30, <1>31, <1>32, <1>33, <1>34, <1>35, <1>36, <1>37, <1>38, <1>39
     DEF QueryFiles

LEMMA ExpectedKinds ==
  /\ \A q \in Expected : Kind(q) \in Carried
  /\ Kind("getNetworkOfNone") \in Carried
  /\ \A q \in Refused : Kind(q) = "bad"
  /\ Kind("setConfig") \notin {"rows", "enabled"}
<1>1. \A q \in Queries : KindOf[q] \in Kinds /\ q \in QueriesOf(KindOf[q])
  BY DEF KindOf, Queries
<1>2. \A q \in Queries : \E f \in QueryFiles : KindOf[q] \in DOMAIN f /\ q \in f[KindOf[q]]
  BY <1>1 DEF QueriesOf
<1>3. \A q \in Queries : /\ q \in Expected => KindOf[q] \in Carried
                         /\ q \in Refused => KindOf[q] = "bad"
                         /\ q = "setConfig" => KindOf[q] \notin {"rows", "enabled"}
  BY <1>2, AllFiled DEF Filed
<1>4. Expected \cup Refused \cup {"setConfig"} \subseteq Asks
  <2>1. {"getDiskByStorage", "getStorage", "modifyDisk", "detachStorageFromNode"} \subseteq Asks
    BY StorageNamesKnown DEF StorageNames
  <2>2. {"getVMvifByMac", "getNodesByNetwork", "getNetwork"} \subseteq Asks
    BY NetworkNamesKnown DEF NetworkNames
  <2>3. {"getConsoleLockSession", "getVMattribute"} \subseteq Asks
    BY ConsoleNamesKnown DEF ConsoleNames
  <2>4. {"getVmsByNetwork", "getAllVmsByNode", "getVMsByUID", "getVMsByUIDSorted", "getVMs",
         "getVMsSorted"} \subseteq Asks
    BY VmNamesKnown DEF VmNames
  <2>5. {"getPlatformsFull", "setConfig"} \subseteq Asks
    BY AccountNamesKnown DEF AccountNames
  <2>6. "getNodePlatform" \in Asks BY NodeNamesKnown DEF NodeNames
  <2> QED BY <2>1, <2>2, <2>3, <2>4, <2>5, <2>6 DEF Expected, Refused
<1>5. Expected \cup Refused \cup {"setConfig"} \subseteq Queries
  <2>1. (Expected \cup Refused \cup {"setConfig"}) \cap (Kids \cup NotLoaded \cup {"getNetworkOfNone"}) = {}
    BY DEF Expected, Refused, Kids, NotLoaded
  <2> QED BY <1>4, <2>1 DEF Asks
<1>6. "getNetworkOfNone" \notin Expected \cup Refused \cup {"setConfig"} BY DEF Expected, Refused
<1> QED BY <1>3, <1>5, <1>6 DEF Kind, Carried

\* Where the methods of each class wait, and for what.
LEMMA StagesByClass ==
  \A t \in Stages :
    /\ t.m \in Readers \cup Chains \cup Setters
    /\ t.m \in Readers \cup Setters => t.n = 0 /\ t.cb = "value" /\ t.q \in Expected
    /\ t.m \in Chains =>
         \/ t.n \in {0, 1, 2} /\ t.cb = "value" /\ t.q \in Expected \cup {"getNetworkOfNone"}
         \/ t.n \in {0, 1, 2} /\ t.cb = "rewind"
         \/ t.m = "detachAllNodesByNetwork" /\ t.n = 11 /\ t.cb = "net_target_host"
<1>2. \A t \in Stages : t.m \in Readers \cup Chains \cup Setters
  BY DEF Stages, Readers, Chains, Setters, At
<1>3. \A t \in Stages : t.m \in Readers \cup Setters => t.n = 0 /\ t.cb = "value" /\ t.q \in Expected
  BY DEF Stages, Readers, Setters, Expected, At
<1>4. \A t \in Stages : t.m \in Chains =>
         \/ t.n \in {0, 1, 2} /\ t.cb = "value" /\ t.q \in Expected \cup {"getNetworkOfNone"}
         \/ t.n \in {0, 1, 2} /\ t.cb = "rewind"
         \/ t.m = "detachAllNodesByNetwork" /\ t.n = 11 /\ t.cb = "net_target_host"
  BY DEF Stages, Chains, Expected, At
<1> QED BY <1>2, <1>3, <1>4
=============================================================================
