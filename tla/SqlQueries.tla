----------------------------- MODULE SqlQueries -----------------------------
(* The queries of the database source (src/db_sources/mysql), by the macro   *)
(* they are built with (zrpcdb.h), which decides what a reply does to the    *)
(* call that waits for it:                                                   *)
(*   text, int, bool  one row is expected: ctx->state is set, more rows are  *)
(*                    DB_MULTI, none is UNKNOWN_RESOURCE (QSA, QIA, QIAB)    *)
(*   list             any number of rows, none is UNKNOWN_RESOURCE (QSSA)    *)
(*   rows             a plain QUERY: none is a NULL and no error             *)
(*   write, insert    no row affected is UNKNOWN_RESOURCE (QE, QEJ)          *)
(*   exists           ENTITY_ALREADY_EXISTS, whatever was written: it counts *)
(*                    the rows of a result, and a write has none (QEE)       *)
(*   vm, enabled      a machine with its disks and interfaces (getVM), and   *)
(*                    isNodeEnabledAndConfigured: queries in a row, one here *)
(*   bad              the statement itself is wrong (a column, a table or a  *)
(*                    word that does not exist), so the server refuses it    *)
(* Each definition is a stretch of one source file.                          *)

AuthQueries ==
  [list |-> {"getAuthByName"},
   rows |-> {"getAuth"}]

ConsoleQueries ==
  [text |-> {"getConsoleType", "getConsoleLockSession",
            "getConsoleNodeHost", "getConsoleClientHost"},
   int |-> {"hasConsoleLock", "getGraphicalConsolePort"},
   list |-> {"getConsoleLockVmsBySession", "getGraphicalConsoleTunnelPort",
            "getTextConsolePort"},
   write |-> {"acquireConsoleLock", "saveGraphicalConsolePort",
             "saveTextConsolePort"},
   bad |-> {"releaseConsoleLock"}]

DiskQueries1 ==
  [int |-> {"getNumVMdisks", "isDiskInUse"},
   bool |-> {"isDisk"},
   rows |-> {"getDisksByStorage", "getVMdisksByStorage", "getVMdisks",
            "getVmDisk"},
   write |-> {"updateDiskConfig", "updateDiskStats", "pruneDiskStats"},
   exists |-> {"createDisk"}]

DiskQueries2 ==
  [text |-> {"getVmByDisk"},
   rows |-> {"getDiskByStorage"}]

GroupQueries1 ==
  [text |-> {"getUserGroupName"},
   int |-> {"isUserGroup", "isUserGroupMember", "isUserGroupByName",
           "getUserGroupId"},
   list |-> {"getUserGroupMembers", "getUserGroupMembersFull",
            "getUserGroupMembersByName"},
   rows |-> {"getUserGroup", "getUserGroupByName"},
   write |-> {"modifyUserGroup", "removeUserGroup", "addToUserGroup",
             "removeFromUserGroup", "renameUserGroup",
             "modifyUserGroupByName", "removeUserGroupByName",
             "renameUserGroupByName", "addToUserGroupByName",
             "removeFromUserGroupByName"}]

GroupQueries2 ==
  [text |-> {"getUserGroupNamesByName"},
   bool |-> {"isUserGroupMemberByName", "isUserGroupMemberByNameAndUsername"},
   list |-> {"getAllUserGroups", "getAllUserGroupNames",
            "getUserGroupsByUID", "getUserGroupsByName",
            "getUserGroupNamesByUID", "getAllUserGroupsSorted",
            "getUserGroupCount"},
   rows |-> {"getAllUserGroupsFull", "getAllUserGroupsFullSorted"},
   write |-> {"addToUserGroupByNameAndUsername",
             "removeFromUserGroupByNameAndUsername"},
   insert |-> {"addUserGroup"}]

NetworkQueries1 ==
  [text |-> {"getNetworkVlans"},
   list |-> {"getAllNetworksSorted", "getNodesByNetworkVlan",
            "getNodesByNetwork"},
   rows |-> {"getAllNetworksFull", "getAllNetworksFullSorted",
            "getAllNetworks", "getAllNetworksByType", "getNetwork",
            "getNetworksByNode"},
   write |-> {"removeNetwork"},
   exists |-> {"defineNetwork"}]

NetworkQueries2 ==
  [int |-> {"getNetworkControlModule"},
   bool |-> {"isNetwork", "isNetworkId"},
   write |-> {"attachNetIf", "detachNetIf", "modifyNetIf",
             "detachAllNetIfsByNetwork", "setNetworkControlModule",
             "detachNetworkFromNode", "attachNetworkToNode"},
   exists |-> {"modifyNetwork", "addNetIf"},
   bad |-> {"removeNetIf"}]

NetworkQueries3 ==
  [int |-> {"getNetworkByNetIf", "getNetworkIdByName"},
   bool |-> {"isNetworkInUse"},
   list |-> {"getVmsByNetwork", "getNetworksByVm", "getNetworkCount"}]

NodeQueries1 ==
  [text |-> {"getNODEstat", "getNODEattribute", "getNodeAddress"},
   rows |-> {"getLatestNodeStat", "getNodeStats"},
   write |-> {"updateNodeStats", "updateNodeConfig"}]

NodeQueries2 ==
  [text |-> {"getNodeControlModule", "getNodeConfiguredHost"},
   int |-> {"isNodeEnabled"},
   write |-> {"setNodeConfiguredHost", "createNode", "setNodeStatus",
             "setNodeControlModuleByName", "setNodeControlModule",
             "removeNode"}]

NodeQueries3 ==
  [text |-> {"getNodePlatform", "getNodeName", "getNodeByName"},
   int |-> {"isNode"},
   list |-> {"getAllUnconfiguredNodes", "getAllUnconfiguredNodesByUID",
            "getNodeNameAndUuid", "getAllNodes"},
   rows |-> {"getNodeConfiguredState", "getNode",
            "getAllNodesFullRangeSorted", "getAllNodesFull"},
   enabled |-> {"isNodeEnabledAndConfigured"}]

NodeQueries4 ==
  [text |-> {"getNodeDefaultVNCpass"},
   int |-> {"getNodeHVM"},
   list |-> {"getAllNodesByUID", "getAllNodesSorted",
            "getAllNodesByUIDSorted"},
   rows |-> {"getNodeByHostname", "getNodeLogs"},
   write |-> {"pruneNodeStats"}]

NodeQueries5 ==
  [int |-> {"getNodeCount", "getNodeCountByUID"}]

PlatformQueries1 ==
  [int |-> {"getPlatformId"},
   bool |-> {"isControlModuleForPlatform",
            "isControlModuleForPlatformByMid",
            "isControlModuleForPlatformById",
            "isControlModuleForPlatformByName", "isControlModule",
            "isControlModuleByName", "isPlatform", "isPlatformByName"},
   list |-> {"getPlatforms"},
   rows |-> {"getPlatformsFull", "getPlatform", "getPlatformByName"},
   write |-> {"enableControlModule", "disableControlModule",
             "enablePlatform", "disablePlatform", "addPlatform",
             "modifyPlatform"}]

PlatformQueries2 ==
  [text |-> {"getControlModuleName", "getControlModuleNameByNetwork",
            "getControlModuleNameByStorage"},
   int |-> {"getControlModuleId"},
   list |-> {"getControlModules", "getPlatformControlModules",
            "getStorageControlModules", "getNetworkControlModules",
            "getControlModulesByPlatform"},
   rows |-> {"getPlatformConfig", "getControlModuleConfig",
            "getStorageControlModulesFull", "getNetworkControlModulesFull",
            "getPlatformControlModulesFull", "getControlModulesFull",
            "getControlModule", "getControlModuleByName"}]

PlatformQueries3 ==
  [int |-> {"getPlatformIdByVm", "getPlatformFeatures"}]

JobQueries1 ==
  [int |-> {"getJobUID"},
   bool |-> {"isJob"},
   list |-> {"getRecentJobs", "getRecentJobsByUID", "getJobsByIds",
            "getJobs", "getJobsByUID", "getJobsByUUID", "getJobsStatus"},
   rows |-> {"getJob"}]

JobQueries2 ==
  [int |-> {"getJobStatus"}]

JobQueries3 ==
  [text |-> {"getSchedulerAddressByModuleName", "getSchedulerAddressByJob"},
   list |-> {"getSchedulerIdByModuleName", "getSchedulerIdByJob",
            "getSchedulerIdByPlatform"},
   rows |-> {"fetchJobs", "getModuleConfigByNode"},
   write |-> {"updateJob"},
   insert |-> {"addJob"}]

JobQueries4 ==
  [int |-> {"getModuleID", "getPlatformID"},
   bool |-> {"isModule", "isPlatformNameByScheduler"},
   rows |-> {"getModuleConfigByVm", "getModuleConfig", "getBlobConfig"},
   write |-> {"registerPlatform", "registerControlModule"},
   insert |-> {"registerScheduler"}]

JobQueries5 ==
  [write |-> {"clearControlModules"}]

SessionQueries ==
  [text |-> {"getUserNameBySession"},
   int |-> {"getUserBySession"},
   list |-> {"getLoggedInUsers", "getLoggedInUsernames", "getSessions"},
   rows |-> {"getSession"},
   write |-> {"setSession", "setLastLogin", "deauthSession", "removeSession"}]

StorageQueries1 ==
  [text |-> {"getStorageHost"},
   bool |-> {"isStorageId", "isStorage"},
   list |-> {"getAllStorage", "getAllStorageSorted", "getAllStorageByType",
            "getNodesByStorage"},
   rows |-> {"getAllStorageFull", "getAllStorageFullSorted", "getStorage",
            "getStorageByNode"},
   write |-> {"removeStorage", "modifyStorage"},
   insert |-> {"defineStorage"}]

StorageQueries2 ==
  [int |-> {"getStorageControlModule", "getStorageByDisk",
           "getStorageIdByName"},
   bool |-> {"isStorageInUse"},
   list |-> {"getVmsByStorage", "getStorageByVm", "getAllStorageTypes"},
   write |-> {"addDisk", "disableDisk", "detachDisk",
             "detachAllDisksByStorage", "setStorageControlModule",
             "attachStorageToNode"},
   bad |-> {"enableDisk", "attachDisk", "modifyDisk", "removeDisk",
           "detachStorageFromNode"}]

StorageQueries3 ==
  [bool |-> {"isDiskByStorage"},
   list |-> {"getStorageCount"}]

UserQueries1 ==
  [text |-> {"getUsername"},
   int |-> {"isUserUID", "getUserType", "isActive", "getPrivilege"},
   bool |-> {"isVMowner", "isNODEowner"},
   list |-> {"getUser", "getSessionsByUID"},
   write |-> {"setUserType", "setUserAttribute", "removeUser",
             "setPassword", "grantPrivilege"}]

UserQueries2 ==
  [int |-> {"isUserName", "getUserUID", "getActiveUserUID",
           "getUserTypeByName", "isVMownerByName", "isNODEownerByName",
           "isActiveByName", "getPrivilegeByName"},
   list |-> {"getUserByName", "getSessionsByName"},
   write |-> {"modifyUser", "setUserAttributeByName", "removeUserByName",
             "setPasswordByName"},
   bad |-> {"revokePrivilege"}]

UserQueries3 ==
  [text |-> {"getLanguageCode"},
   int |-> {"getLanguageId"},
   list |-> {"getLanguages", "getLanguageIds", "getAllUsers",
            "getAllUsersFull", "getAllUsersSorted"},
   write |-> {"grantPrivilegeByName", "modifyUserByName", "addUser"},
   bad |-> {"revokePrivilegeByName"}]

UserQueries4 ==
  [list |-> {"getUserCount"},
   rows |-> {"getAllUsersFullSorted"}]

NetIfQueries1 ==
  [int |-> {"getNumVMvifs"},
   bool |-> {"isNetIfByMAC", "isNetIf"},
   rows |-> {"getVMvifByMac", "getVMvifsByNetwork", "getVMvifs"},
   write |-> {"updateNetIfStats", "updateNetIfConfig"},
   exists |-> {"createNetIf"}]

NetIfQueries2 ==
  [bool |-> {"isNetIfInUse"},
   write |-> {"pruneNetIfStats"}]

VmQueries1 ==
  [text |-> {"getVMparentNode"},
   int |-> {"isVmIgnored", "needsReboot"},
   bool |-> {"isVM"},
   list |-> {"getVMsSorted", "getVMs", "getVMsByUIDSorted"},
   write |-> {"setVmNeedsReboot", "updateVMparentNode"},
   exists |-> {"createVM", "createVmTemplate"},
   bad |-> {"saveVMrevision"}]

VmQueries2 ==
  [list |-> {"getVMsByUID"},
   rows |-> {"getTopCpuConsumers", "getTopBandwidthConsumers"},
   write |-> {"setVmState", "updateVmTimestamp", "updateVmStats", "ignoreVm"},
   bad |-> {"pruneVmStats", "removeVm"}]

VmQueries3 ==
  [vm |-> {"getVM", "getVmByRev"}]

VmQueries4 ==
  [text |-> {"getVMstat", "getVMattribute", "getVmNotes",
            "getVMparentAddress"},
   list |-> {"getAllUsersByVm", "getAllTemplates"},
   rows |-> {"getVmLogs", "getTemplateByName", "getTemplate",
            "getAllTemplatesFull", "getTemplateConfig",
            "getTemplateConfigByName"},
   write |-> {"updateVmConfig", "saveVmNotes"}]

VmQueries5 ==
  [text |-> {"getVmByName"},
   int |-> {"getVmCount", "getVmCountByUID"},
   bool |-> {"hasGuestTools"},
   list |-> {"getAllVmsByNode", "getAllVmsByNodeByUID",
            "getVMparentNodeAndAddress"},
   write |-> {"modifyTemplate"},
   insert |-> {"addTemplate"}]

SettingQueries1 ==
  [text |-> {"getConfigValue"},
   int |-> {"getLatestRevision"},
   list |-> {"getOperatingSystems"},
   rows |-> {"getConfigsFull", "getConfigs", "getConfig"}]

SettingQueries2 ==
  [int |-> {"isFrontendPluginEnabled"},
   list |-> {"getFrontendPlugins"},
   rows |-> {"getAllPlugins"},
   write |-> {"setBlobConfig", "setConfig", "modifyPlugin"}]

QueryFiles ==
  {AuthQueries, ConsoleQueries, DiskQueries1, DiskQueries2, GroupQueries1,
   GroupQueries2, NetworkQueries1, NetworkQueries2, NetworkQueries3,
   NodeQueries1, NodeQueries2, NodeQueries3, NodeQueries4, NodeQueries5,
   PlatformQueries1, PlatformQueries2, PlatformQueries3, JobQueries1,
   JobQueries2, JobQueries3, JobQueries4, JobQueries5, SessionQueries,
   StorageQueries1, StorageQueries2, StorageQueries3, UserQueries1,
   UserQueries2, UserQueries3, UserQueries4, NetIfQueries1, NetIfQueries2,
   VmQueries1, VmQueries2, VmQueries3, VmQueries4, VmQueries5,
   SettingQueries1, SettingQueries2}

Kinds == {"text", "int", "bool", "list", "rows", "write", "insert", "exists",
          "vm", "enabled", "bad"}
QueriesOf(k) == UNION {f[k] : f \in {g \in QueryFiles : k \in DOMAIN g}}
Queries == UNION {QueriesOf(k) : k \in Kinds}
KindOf == [q \in Queries |-> CHOOSE k \in Kinds : q \in QueriesOf(k)]
=============================================================================
