CONSTANTS
  Sender = {owner, actor, daemon}
  Owner = owner
  Size = {1, 2}
  Capacity = 4
SPECIFICATION Spec
INVARIANTS
  ReceiveNeverLosesItem
  
  DestructorWaitsOnlyForHandler
PROPERTIES
  IsChannel
  BlockedSelfSendFails
CHECK_DEADLOCK FALSE
