---------------------------- MODULE ConsoleCalls ----------------------------
(* The consoles: functions-console.c.  What follows count 1 of the two       *)
(* connect functions (tunnels, shellinabox, zproxy) is out of reach: see     *)
(* connectTextConsole.                                                       *)
EXTENDS CallSteps

PortReads == {"saveGraphicalConsolePort", "getGraphicalConsoleTunnelPort",
              "getGraphicalConsolePort", "saveTextConsolePort", "getTextConsolePort"}
LockReads == {"getConsoleLockSession", "getConsoleClientHost", "getConsoleNodeHost"}
SessionLockReads == {"releaseConsoleLock", "getConsoleLockVmsBySession", "getConsoleType"}
hasConsoleLock == {Ask("hasConsoleLock")}

(* A lock answers CONSOLE_LOCKED.  Without one the error of the empty        *)
(* look-up is still set, and the CTX_RETURN inside _acquireConsoleLock,      *)
(* entered at count 1, answers with it before any lock is asked for.         *)
connectTextConsole(n, e, v, o) ==
  IF n = 0 THEN {Again("hasConsoleLock")}
  ELSE IF e = OK THEN {Fail("CONSOLE_LOCKED")} ELSE {Nothing}

(* The same, but for the configuration, which is asked for all the same.     *)
connectGraphicalConsole(n, e, v, o) ==
  IF n = 0 THEN {Again("hasConsoleLock")}
  ELSE IF e = OK THEN {Fail("CONSOLE_LOCKED")} ELSE {Value("getConfig")}

(* A context of its own disconnects; its end brings the method back at 2.    *)
disconnectConsole(n, e, v, o) ==
  CASE n = 0 -> Checked(Counting(Ask("console_disconnect_text"), 3))
    [] n = 2 /\ e = OK -> {Answer}
    [] OTHER -> {Nothing}

getConsoleLockUser(n, e, v, o) ==
  CASE n = 0 -> {Value("getConsoleLockSession")}
    [] n = 1 /\ e = OK -> {Ask("getUserNameBySession")}
    [] OTHER -> {Nothing}

acquireConsoleLock(n, e, v, o) ==
  CASE n = 0 -> {Value("getVMparentAddress")}
    [] n = 1 /\ e = OK -> {Ask("acquireConsoleLock")}
    [] OTHER -> {Nothing}

getSupportedConsoles(n, e, v, o) ==
  CASE n = 0 -> {Value("getVMattribute")}
    [] n = 1 /\ e = OK -> {Answer}
    [] OTHER -> {Nothing}

ConsoleMethods ==
  {"connectTextConsole", "connectGraphicalConsole", "disconnectConsole",
   "getConsoleLockUser", "acquireConsoleLock", "getSupportedConsoles"}
(* One entry of a method, and the methods: a read is named by its query.     *)
ConsoleStep(m, n, e, v, o) ==
  CASE m = "connectTextConsole" -> connectTextConsole(n, e, v, o)
    [] m = "connectGraphicalConsole" -> connectGraphicalConsole(n, e, v, o)
    [] m = "disconnectConsole" -> disconnectConsole(n, e, v, o)
    [] m = "getConsoleLockUser" -> getConsoleLockUser(n, e, v, o)
    [] m = "acquireConsoleLock" -> acquireConsoleLock(n, e, v, o)
    [] m = "getSupportedConsoles" -> getSupportedConsoles(n, e, v, o)
    [] m = "hasConsoleLock" -> hasConsoleLock
    [] OTHER -> {Ask(m)}
ConsoleAll ==
  ConsoleMethods \cup PortReads \cup LockReads \cup SessionLockReads \cup
  {"hasConsoleLock"}
=============================================================================
