\* An error of each kind and a restart; a record comes back altered.
SPECIFICATION Spec
CONSTANTS
  a = a
  b = b
  k = k
  wzw = wzw
  lang = lang
  memory_use = memory_use
  python = python
  rust = rust
  go = go
  Ids = {a, b, k}
  Domains = {wzw}
  Subjects = {lang}
  Purposes = {memory_use}
  Contents = {python, rust, go}
  Drafts <- Altered
  Authorities <- MCAuthorities
  Rogues <- StrangeItem
  MaxFaults <- OneOfEach
INVARIANTS
  AcceptedKept
  ConflictsMarked
  SearchHonest
  AnswerHonest
  AnsweredIsTold
  LineageWhileDatabaseWorks
  TrailComplete
PROPERTIES
  MarksAreFinal
