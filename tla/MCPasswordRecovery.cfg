\* Two grants, two logins, two recoveries at a time and one other request.
CONSTANTS
  Grant = {g1, g2}
  Session = {x1, x2}
  Recovery = {a1, a2}
  Verifier = {v1}
SYMMETRY Symmetry
SPECIFICATION Spec
INVARIANTS TypeOK OneRotationPerGrant OnlyOverlappingLoginsSurvive
PROPERTIES GrantsEndOnce SessionsEndForGood ImplementsAtomic
CHECK_DEADLOCK FALSE
