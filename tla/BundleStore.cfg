\* Handlers with directories of their own, I/O errors and crashes.
SPECIFICATION Spec
CONSTANTS
  t1 = t1  t2 = t2
  q1 = q1  q2 = q2
  e1 = e1  e3 = e3  e4 = e4
  d1 = d1  d2 = d2
  None = None
  Threads = {t1, t2}
  Requests = {q1, q2}
  Evidence = {e1, e3, e4}
  RequestOf <- MCRequestOf
  OpaqueDirs = {d1, d2}
  Roles <- MCRoles
  Calls <- OwnDirectories
INVARIANTS
  TypeOK
  EntriesMatchDigest
  AnswersNameOwnEvidence
  AnswersListed
  IndexListsStored
PROPERTIES
  ImplementsAtomicStore
  EntriesImmutable
