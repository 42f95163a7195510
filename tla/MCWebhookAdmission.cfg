SPECIFICATION WebhookSpec
CONSTANTS
  Backends = {"memory", "postgresql"}
  MaxBody = 3
  MaxEvents = 1
  MaxChunk = 2
  MaxRows = 2
INVARIANTS
  BodyIsBounded
  
  ChecksCoverConstraints
  ListsAreServed
