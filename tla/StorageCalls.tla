---------------------------- MODULE StorageCalls ----------------------------
(* The storage service: functions-storage.c.                                 *)
EXTENDS CallSteps

(* Methods that send one query and wait for its result event.                *)
StorageReads ==
  {"isStorage", "isStorageId", "getStorage", "getAllStorageByType",
   "getAllStorage", "getAllStorageFull"}
StorageModuleReads ==
  {"getStorageControlModulesFull", "getStorageControlModules",
   "setStorageControlModule", "getStorageControlModule"}
StorageRelationReads == {"getStorageIdByName", "getStorageByNode"}
NodesAndVmsReads == {"getNodesByStorage", "getVmsByStorage"}
StorageDiskReads ==
  {"getAllStorageTypes", "getDisksByStorage", "getVmByDisk",
   "isDiskByStorage", "getStorageCount"}
getDiskByStorage == Checked(Ask("getDiskByStorage"))

(* Mutant: the error that says the name is free is not cleared.              *)
defineStorageKeepsError(n, e, v, o) ==
  IF n = 0 THEN {Again("isStorage")}
  ELSE IF e # OK THEN {Ask("defineStorage")}
  ELSE {Fail("ENTITY_ALREADY_EXISTS")}

(* A storage of that name must not exist (looked up), then it is inserted;   *)
(* nothing holds the name in between.                                        *)
defineStorage(n, e, v, o) ==
  IF n = 0 THEN {Again("isStorage")}
  ELSE IF e # OK THEN {Cleared(Ask("defineStorage"))}
  ELSE {Fail("ENTITY_ALREADY_EXISTS")}

(* The error of "not in use" is still set when the row is deleted, so        *)
(* CTX_RETURN answers at once, with that error.                              *)
removeStorage(n, e, v, o) ==
  IF n = 0 THEN {Again("isStorageInUse")}
  ELSE IF e = OK THEN {Fail("RESOURCE_IN_USE")}
  ELSE {Ask("removeStorage")}

(* With nodes to tell, the table of contexts holds NULL pointers (zctx[i] of *)
(* a calloc'ed array); without, the error of the empty list answers.  What   *)
(* follows in the code (the counts 4 to 7) is out of reach.                  *)
modifyStorage(n, e, v, o) ==
  CASE n = 0 -> {Value("getStorage")}
    [] n = 1 -> IF e # OK \/ v = 0 THEN {Nothing}
                ELSE {Fail("NO_CHANGE_PERFORMED"), Value("getNodesByStorage")}
    [] OTHER -> IF v = 0 THEN {Goto(4)} ELSE {Crash}

detachAllNodesByStorage(n, e, v, o) ==
  IF n = 0 THEN Checked(Value("getNodesByStorage"))
  ELSE IF v = 0 THEN {Fail("NO_CHANGE_PERFORMED")} ELSE {Crash}

detachAllDisksByStorage(n, e, v, o) ==
  IF n = 0 THEN Checked(Value("getDisksByStorage"))
  ELSE IF v = 0 THEN {Fail("NO_CHANGE_PERFORMED")} ELSE {Crash}

(* The job of an action on a disk: the storage, then the disk, are read.  A  *)
(* row that is not there is NULL without an error.                           *)
storage_cb_setup_disk(n, e, v, o) ==
  IF n = 0 THEN Checked(Value("getStorage"))
  ELSE IF e # OK THEN {Nothing}
  ELSE IF n = 1 THEN Checked(HoldValue(Value("getDiskByStorage"), v))
  ELSE IF v = 0 \/ ~o THEN {Crash} ELSE {Hold(Nothing)}

(* Attach, enable and disable a disk: the module of the job is asked for     *)
(* with a callback that takes the job from a parameter nobody set.           *)
diskAction(n, e, v, o) ==
  {IF n # 2 \/ s.crash THEN s
   ELSE Both(s, AskCb("getControlModuleNameByStorage", "job_module_of_none"))
     : s \in storage_cb_setup_disk(n, e, v, o)}
attachDiskToStorage(n, e, v, o) == diskAction(n, e, v, o)
enableDiskByStorage(n, e, v, o) == diskAction(n, e, v, o)
disableDiskByStorage(n, e, v, o) == diskAction(n, e, v, o)

(* A context of its own makes the job of the machine ("vmjob") and brings    *)
(* the method back at count 4.                                               *)
detachDiskFromStorage(n, e, v, o) ==
  CASE n \in 0..1 -> storage_cb_setup_disk(n, e, v, o)
    [] n = 2 -> {IF s.crash THEN s ELSE Both(s, Value("getVmByDisk"))
                   : s \in storage_cb_setup_disk(n, e, v, o)}
    [] n = 3 -> IF e # OK THEN {Fail("JOB_CREATION_FAILED")}
                ELSE {Counting(Ask("storage_cb_vmjob"), 5)}
    [] n = 4 -> {Again("detachDisk")}
    [] OTHER -> {JobAdd}

(* isDiskByStorage is one of the functions that db_sources.c does not load   *)
(* (see RpcCall): neither this nor defineDisk gets past its first step.      *)
addDiskToStorage(n, e, v, o) == Checked(Again("isDiskByStorage"))
defineDisk(n, e, v, o) == Checked(Again("isDiskByStorage"))

(* Whether the disk is in use is read as a parameter the reply never sets:   *)
(* NULL is not -1, so every disk that exists is in use.                      *)
removeDiskFromStorage(n, e, v, o) ==
  IF n = 0 THEN Checked(Again("isDiskInUse"))
  ELSE IF e # OK THEN {Nothing} ELSE {Fail("RESOURCE_IN_USE")}

modifyDiskByStorage(n, e, v, o) ==
  CASE n = 0 -> {Fail("INVALID_PARAMETER"), Value("getDiskByStorage")}
    [] n = 1 -> IF e # OK THEN {Nothing}
                ELSE {Hold(Again("modifyDisk"))} \cup
                     IF v = 0 THEN {} ELSE {Fail("NO_CHANGE_PERFORMED")}
    [] OTHER -> ModuleThenJob(2, n, e, v, "getControlModuleNameByStorage")

(* Attach or detach a storage.  The host name that getNodeConfiguredHost     *)
(* brings is taken for a list of two (cb_job_target_node_addr), which ends   *)
(* the call; the counts 4 and 5 are out of reach.                            *)
storage_cb_setup_storage(action, n, e, v, o) ==
  CASE n = 0 -> IF e # OK THEN {Nothing} ELSE Checked(Again("isNode"))
    [] n = 1 -> {Value("getStorage")}
    [] n = 2 -> {IF e # OK THEN Nothing ELSE HoldValue(Again(action), v)}
    [] OTHER -> {IF e # OK THEN Fail("JOB_CREATION_FAILED")
                 ELSE IF o THEN AskCb("getNodeConfiguredHost", "job_node_addr")
                 ELSE Crash}
attachStorageToNode(n, e, v, o) ==
  storage_cb_setup_storage("attachStorageToNode", n, e, v, o)
detachStorageFromNode(n, e, v, o) ==
  storage_cb_setup_storage("detachStorageFromNode", n, e, v, o)

StorageMethods ==
  {"defineStorage", "removeStorage", "modifyStorage", "detachAllNodesByStorage",
   "detachAllDisksByStorage", "attachDiskToStorage", "enableDiskByStorage",
   "disableDiskByStorage", "detachDiskFromStorage", "addDiskToStorage",
   "removeDiskFromStorage", "modifyDiskByStorage", "defineDisk",
   "attachStorageToNode", "detachStorageFromNode"}
(* One entry of a method, and the methods: a read is named by its query.     *)
StorageStep(m, n, e, v, o) ==
  CASE m = "defineStorage" -> defineStorage(n, e, v, o)
    [] m = "removeStorage" -> removeStorage(n, e, v, o)
    [] m = "modifyStorage" -> modifyStorage(n, e, v, o)
    [] m = "detachAllNodesByStorage" -> detachAllNodesByStorage(n, e, v, o)
    [] m = "detachAllDisksByStorage" -> detachAllDisksByStorage(n, e, v, o)
    [] m = "attachDiskToStorage" -> attachDiskToStorage(n, e, v, o)
    [] m = "enableDiskByStorage" -> enableDiskByStorage(n, e, v, o)
    [] m = "disableDiskByStorage" -> disableDiskByStorage(n, e, v, o)
    [] m = "detachDiskFromStorage" -> detachDiskFromStorage(n, e, v, o)
    [] m = "addDiskToStorage" -> addDiskToStorage(n, e, v, o)
    [] m = "removeDiskFromStorage" -> removeDiskFromStorage(n, e, v, o)
    [] m = "modifyDiskByStorage" -> modifyDiskByStorage(n, e, v, o)
    [] m = "defineDisk" -> defineDisk(n, e, v, o)
    [] m = "attachStorageToNode" -> attachStorageToNode(n, e, v, o)
    [] m = "detachStorageFromNode" -> detachStorageFromNode(n, e, v, o)
    [] m = "getDiskByStorage" -> getDiskByStorage
    [] OTHER -> {Ask(m)}
StorageAll ==
  StorageMethods \cup StorageReads \cup StorageModuleReads \cup
  StorageRelationReads \cup NodesAndVmsReads \cup StorageDiskReads \cup
  {"getDiskByStorage"}
=============================================================================
