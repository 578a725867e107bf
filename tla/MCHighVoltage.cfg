SPECIFICATION FairSpec
INVARIANTS
  TypeOK
  RequestsAsDecided
PROPERTIES
  InrushExcused
  KeyOffOpens
  PrechargeDropped
