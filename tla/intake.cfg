\* Two services on the same files, three calls, one failed step or restart.
SPECIFICATION Spec
CONSTANTS
  s1 = s1
  s2 = s2
  wzw = wzw
  bills = bills
  ideas = ideas
  bill = bill
  desk = desk
  Desk = Desk
  tie = tie
  mute = mute
  fix = fix
  room = room
  other = other
  memory = memory
  i1 = i1
  i2 = i2
  i3 = i3
  Ids = {i1, i2, i3}
  Domains = {wzw, bills, ideas}
  Subjects = {room, other}
  Purposes = {memory}
  Contents = {bill, desk, Desk, tie, mute, fix}
  Aliases <- MCAliases
  Terms <- MCTerms
  Markers <- MCMarkers
  SubjectOf <- MCSubjectOf
  NormalForm <- MCNormalForm
  Services = {s1, s2}
  Registries <- MCRegistries
  Messages <- MCMessages
  Explicits <- MCExplicits
  Writer <- MCWriter
  Purpose = memory
  Level = 1
  MaxCalls = 3
  MaxFaults = 1
INVARIANTS
  BindingsHold
  AnsweredOnce
  AnsweredIsKept
  EvidenceDecides
CHECK_DEADLOCK FALSE
