---------------------------- MODULE AccountCalls ----------------------------
(* Users, groups, platforms and the settings: functions-user.c,              *)
(* functions-group.c, functions-platform.c, functions-zentific.c, and the    *)
(* queries of functions-disk.c, functions-vif.c and functions-log.c.         *)
EXTENDS CallSteps

UserReads == {"isUserUID", "isActive", "modifyUser", "getUser", "getUserType",
              "removeUser", "getUsername"}
UserByNameReads ==
  {"isUserName", "isActiveByName", "modifyUserByName", "removeUserByName",
   "getUserByName", "getUserTypeByName", "getActiveUserUID", "getUserUID",
   "getLanguageCode"}
UserListReads == {"getAllUsers", "getAllUsersFull", "getLoggedInUsers",
                  "getLoggedInUsernames", "getUserCount"}

(* A password that is too short leaves a fault and nothing that would send   *)
(* it to the client.                                                         *)
setPassword(n, e, v, o) == {Nothing, Ask("setPassword")}
setPasswordByName(n, e, v, o) ==
  {Fail("INVALID_PARAMETER"), Nothing, Ask("setPasswordByName")}
generatePassword(n, e, v, o) == {AskCb("setPassword", "answer")}
generatePasswordByName(n, e, v, o) == {AskCb("setPasswordByName", "answer")}
isSuperUser(n, e, v, o) == {AskCb("getUserType", "answer")}
isSuperUserByName(n, e, v, o) == {AskCb("getUserTypeByName", "answer")}

(* The name must be free, or the language known; the look-up is sent first   *)
(* and the change at its heels, without waiting for what it finds.  (Method  *)
(* names that end in "name" and "language" stand for setUserAttribute with   *)
(* that attribute.)                                                          *)
attributeName(set, n) ==
  {Fail("INVALID_PARAMETER"),
   IF n = 0 THEN Both(AskCb("isUserName", "user_name"), Ask(set)) ELSE Ask(set)}
attributeLanguage(set, n) ==
  {IF n < 2 THEN Both(AskCb("getLanguageCode", "user_lang"), Ask(set)) ELSE Ask(set)}
setUserAttribute_name(n, e, v, o) == attributeName("setUserAttribute", n)
setUserAttribute_language(n, e, v, o) == attributeLanguage("setUserAttribute", n)
setUserAttribute(n, e, v, o) == Checked(Ask("setUserAttribute"))

(* The name must be free, and the language must be UNKNOWN to go on.         *)
addUser(n, e, v, o) ==
  CASE n = 0 -> Checked(AskCb("isUserName", "user_name"))
    [] n = 1 -> {AskCb("getLanguageCode", "user_lang")}
    [] OTHER -> {Ask("addUser")}

-----------------------------------------------------------------------------
(* Groups.  The name is looked up, and the write follows when it is free.    *)
GroupReads ==
  {"isUserGroup", "removeUserGroup", "removeFromUserGroup",
   "isUserGroupMember", "getUserGroup", "getUserGroupMembers",
   "getUserGroupMembersFull"}
GroupByNameReads ==
  {"isUserGroupByName", "removeUserGroupByName", "getUserGroupByName",
   "getUserGroupMembersByName", "isUserGroupMemberByName",
   "addToUserGroupByName", "removeFromUserGroupByName",
   "isUserGroupMemberByNameAndUsername", "addToUserGroupByNameAndUsername",
   "removeFromUserGroupByNameAndUsername"}
GroupListReads ==
  {"getAllUserGroups", "getAllUserGroupNames", "getAllUserGroupsFull",
   "getUserGroupsByUID", "getUserGroupsByName", "getUserGroupNamesByUID",
   "getUserGroupNamesByName", "getUserGroupName", "getUserGroupId",
   "getUserGroupCount"}

modifyUserGroup(n, e, v, o) == {AskCb("getUserGroupId", "group_modify")}
addUserGroup(n, e, v, o) == {AskCb("isUserGroupByName", "group_add")}

addToUserGroup(n, e, v, o) ==
  IF n = 0 THEN Checked(Again("isUserUID"))
  ELSE IF e = OK THEN {Ask("addToUserGroup")} ELSE {Nothing}

(* Mutant: the change is sent beside the look-up.                            *)
ifNameIsFreeAtOnce(write, n, e) ==
  IF n = 0 THEN {Both(Again("isUserGroupByName"), Ask(write))}
  ELSE IF e = OK THEN {Fail("ENTITY_ALREADY_EXISTS")} ELSE {Nothing}
(* The group's name is looked up and must be unknown.                        *)
ifNameIsFree(write, n, e) ==
  IF n = 0 THEN {Again("isUserGroupByName")}
  ELSE CASE e = OK -> {Fail("ENTITY_ALREADY_EXISTS")}
         [] e = "UNKNOWN_RESOURCE" -> {Cleared(Ask(write))}
         [] OTHER -> {Nothing}
renameUserGroup(n, e, v, o) == ifNameIsFree("renameUserGroup", n, e)
renameUserGroupByName(n, e, v, o) == ifNameIsFree("renameUserGroupByName", n, e)
modifyUserGroupByName(n, e, v, o) == ifNameIsFree("modifyUserGroupByName", n, e)

-----------------------------------------------------------------------------
(* Platforms.                                                                *)
PlatformReads == {"getPlatforms", "getControlModulesByPlatform",
                  "getPlatformConfig"}
ModuleReads ==
  {"getControlModulesFull", "getControlModules", "getControlModuleNameByNetwork",
   "getControlModule", "getControlModuleByName", "isPlatform",
   "isPlatformByName", "isControlModule", "isControlModuleByName",
   "isControlModuleForPlatform", "isControlModuleForPlatformByName",
   "getControlModuleConfig", "enablePlatform", "disablePlatform",
   "enableControlModule", "disableControlModule", "getPlatformIdByVm",
   "getPlatformFeatures"}

(* The error that says the name is free is still set when the row is         *)
(* written, so CTX_RETURN answers with it while the write is on its way.     *)
ifPlatformIsFree(write, n, e) ==
  IF n = 0 THEN Checked(Again("isPlatformByName"))
  ELSE IF e = OK THEN {Fail("ENTITY_ALREADY_EXISTS")}
  ELSE IF e = "UNKNOWN_RESOURCE" THEN {Ask(write)} ELSE {Nothing}
addPlatform(n, e, v, o) == ifPlatformIsFree("addPlatform", n, e)
modifyPlatform(n, e, v, o) == ifPlatformIsFree("modifyPlatform", n, e)

(* One context fetches the configuration; it takes the count from 2 to 1,    *)
(* and only 2 brings the method back.  A platform that is not there is a     *)
(* NULL without an error.                                                    *)
getPlatform(n, e, v, o) ==
  IF n = 0 THEN Checked(Value("getPlatform"))
  ELSE CASE e = "UNKNOWN_RESOURCE" -> {Fail("PLATFORM_NOT_PRESENT")}
         [] e = OK -> {IF v = 0 THEN Crash ELSE Counting(Ask("platform_get"), 2)}
         [] OTHER -> {Nothing}
getPlatformByName(n, e, v, o) == getPlatform(n, e, v, o)

getPlatformsFull(n, e, v, o) ==
  CASE n = 0 -> {Value("getPlatformsFull")}
    [] n = 1 -> IF e # OK THEN {Nothing}
                ELSE {Counting(Times(v, "platform_get"), 2 + v)}
    [] n = 2 -> {Cleared(Answer)}
    [] OTHER -> {Nothing}

ConfigWrites == {"setPlatformConfig", "setControlModuleConfig"}
setSecureControlModuleConfig(n, e, v, o) ==
  {Fail("INVALID_PARAMETER"), Fail("SERVER_FAILURE"), Ask("setBlobConfig")}

-----------------------------------------------------------------------------
(* Settings.  setConfigs gives each of its writes a NULL callback, which     *)
(* swallows the reply: nothing ever answers.                                 *)
SettingReads ==
  {"getOperatingSystems", "getLanguages", "getConfigValue", "getConfigsFull",
   "setConfig", "getAllPlugins", "getFrontendPlugins", "modifyPlugin",
   "isFrontendPluginEnabled", "getLatestRevision"}
setConfigs(n, e, v, o) ==
  {TimesCb(k, "setConfig", "null") : k \in 0..2}

(* A random address is looked up; one that is taken is drawn again.          *)
generateMAC(n, e, v, o) == {AskCb("isNetIfByMAC", "generatemac")}

DiskReads == {"isDisk", "createDisk", "updateDiskStats", "getVmDisk",
              "getVMdisks", "getNumVMdisks"}
NetIfReads == {"isNetIf", "createNetIf", "getNumVMvifs", "updateNetIfStats",
               "getVMvifs", "getVMvifByMac"}
LogReads == {"getNodeLogs", "getVmLogs"}

(* No reply is asked for, so nothing resumes the call.                       *)
cleanDB == {Nothing}

(* These look at their arguments first.                                      *)
CheckedReads ==
  {"isUserUID", "modifyUser", "isUserName", "modifyUserByName",
   "removeUserByName", "isUserGroup", "getControlModulesByPlatform",
   "getControlModule", "getControlModuleByName", "isPlatform",
   "isPlatformByName", "isControlModule", "isControlModuleByName",
   "isControlModuleForPlatform", "isControlModuleForPlatformByName",
   "getLatestRevision"}

AccountMethods ==
  {"setPassword", "setPasswordByName", "generatePassword",
   "generatePasswordByName", "isSuperUser", "isSuperUserByName",
   "setUserAttribute_name", "setUserAttribute_language", "setUserAttribute",
   "addUser", "modifyUserGroup", "addUserGroup", "addToUserGroup",
   "renameUserGroup", "renameUserGroupByName", "modifyUserGroupByName",
   "addPlatform", "modifyPlatform", "getPlatform", "getPlatformByName",
   "getPlatformsFull", "setSecureControlModuleConfig", "setConfigs",
   "generateMAC"}
(* One entry of a method, and the methods: a read is named by its query.     *)
AccountStep(m, n, e, v, o) ==
  CASE m = "setPassword" -> setPassword(n, e, v, o)
    [] m = "setPasswordByName" -> setPasswordByName(n, e, v, o)
    [] m = "generatePassword" -> generatePassword(n, e, v, o)
    [] m = "generatePasswordByName" -> generatePasswordByName(n, e, v, o)
    [] m = "isSuperUser" -> isSuperUser(n, e, v, o)
    [] m = "isSuperUserByName" -> isSuperUserByName(n, e, v, o)
    [] m = "setUserAttribute_name" -> setUserAttribute_name(n, e, v, o)
    [] m = "setUserAttribute_language" -> setUserAttribute_language(n, e, v, o)
    [] m = "setUserAttribute" -> setUserAttribute(n, e, v, o)
    [] m = "addUser" -> addUser(n, e, v, o)
    [] m = "modifyUserGroup" -> modifyUserGroup(n, e, v, o)
    [] m = "addUserGroup" -> addUserGroup(n, e, v, o)
    [] m = "addToUserGroup" -> addToUserGroup(n, e, v, o)
    [] m = "renameUserGroup" -> renameUserGroup(n, e, v, o)
    [] m = "renameUserGroupByName" -> renameUserGroupByName(n, e, v, o)
    [] m = "modifyUserGroupByName" -> modifyUserGroupByName(n, e, v, o)
    [] m = "addPlatform" -> addPlatform(n, e, v, o)
    [] m = "modifyPlatform" -> modifyPlatform(n, e, v, o)
    [] m = "getPlatform" -> getPlatform(n, e, v, o)
    [] m = "getPlatformByName" -> getPlatformByName(n, e, v, o)
    [] m = "getPlatformsFull" -> getPlatformsFull(n, e, v, o)
    [] m = "setSecureControlModuleConfig" -> setSecureControlModuleConfig(n, e, v, o)
    [] m = "setConfigs" -> setConfigs(n, e, v, o)
    [] m = "generateMAC" -> generateMAC(n, e, v, o)
    [] m = "cleanDB" -> cleanDB
    [] m \in CheckedReads -> Checked(Ask(m))
    [] OTHER -> {Ask(m)}
AccountAll ==
  AccountMethods \cup UserReads \cup UserByNameReads \cup UserListReads \cup
  GroupReads \cup GroupByNameReads \cup GroupListReads \cup PlatformReads
  \cup ModuleReads \cup SettingReads \cup DiskReads \cup NetIfReads \cup
  LogReads \cup ConfigWrites \cup {"cleanDB"}
=============================================================================
