SPECIFICATION FairSpec
CONSTANTS
  u1 = u1
  u2 = u2
  s1 = s1
  s2 = s2
  a1 = a1
  a2 = a2
  Users = {u1, u2}
  Schools = {s1}
  MaxCalls = 2
  Addresses = {a1, a2}
  NoAddress = NoAddress
  Kinds = {"createLehrer", "removePersonFromGroup", "modifyPersonAttributes", "deleteLehrerByReferrer", "changeEmailAddress"}
  Retries = 2
  MaxFaults = 1
INVARIANTS TypeOK MembershipStays ChangedAsAsked
PROPERTIES OnlyAskedFor EveryCallAnswered
CHECK_DEADLOCK FALSE
