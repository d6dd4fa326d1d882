SPECIFICATION Spec
CONSTANTS
  ClaimIds = {c1, c2}
  SourceIds = {s1, s2}
  EntityIds = {e1, e2}
  RelationIds = {r1}
  Scores = {5, 11}
  Persons = {owner}
  Blank = Blank
  MaxClaims = 2
  Nil = Nil
INVARIANT RecordIsGrounded
CHECK_DEADLOCK FALSE
