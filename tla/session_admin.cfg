SPECIFICATION Spec
CONSTANTS
  c1 = c1
  c2 = c2
  root = root
  joe = joe
  s1 = s1
  s2 = s2
  s3 = s3
  s4 = s4
  Conns = {c1}
  Users = {root, joe}
  Supers = {root}
  Sids = {s1, s2, s3, s4}
  NoUser = NoUser
  NoSid = NoSid
  SessionTimeout = 0
  RetryTimeout = 1
  MaxFailures = 1
  AuthTypes = {"unset", "internal", "pam", "other"}
  Fallbacks = {FALSE, TRUE}
  Methods = {"hello", "login", "logout", "download", "call", "logoutByName",
             "removeUser", "cleanDB"}
  Horizon = 0
CHECK_DEADLOCK FALSE
SYMMETRY Symmetry
INVARIANTS
  TypeOK
  AnswerIsLast
  AuthenticatedOnlyByLogin
