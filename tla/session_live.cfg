SPECIFICATION FairSpec
CONSTANTS
  c1 = c1
  c2 = c2
  root = root
  joe = joe
  s1 = s1
  s2 = s2
  s3 = s3
  s4 = s4
  Conns = {c1, c2}
  Users = {root}
  Supers = {root}
  Sids = {s1, s2}
  NoUser = NoUser
  NoSid = NoSid
  SessionTimeout = 0
  RetryTimeout = 1
  MaxFailures = 1
  AuthTypes = {"unset"}
  Fallbacks = {FALSE}
  Methods = {"login", "logout", "logoutByName", "call", "cleanDB"}
  Horizon = 1
CHECK_DEADLOCK FALSE
INVARIANTS
  AuthenticatedOnlyByLogin
  QuiescentLogoutIsFinal
PROPERTIES
  SessionLifeSpec
  CallsAnswered
