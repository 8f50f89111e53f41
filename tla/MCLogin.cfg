\* Two requests at a time from one address, for a subject with a credential and one without.
CONSTANTS
  Request = {r1, r2}
  Ip = {i1}
  Subject = {s1, s2}
  Known = {s1}
  Null = null
  Limit <- Policy
SPECIFICATION Spec
INVARIANTS TypeOK BlockedAtLimit GuessesBounded
PROPERTIES OwnerGetsIn
