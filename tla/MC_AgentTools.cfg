SPECIFICATION Spec
CONSTANT Absent = Absent
CONSTANT None = None
CONSTANT Posts <- PostsTried
CONSTANT ToolCalls <- ToolCallsTried
CONSTANT Permitted <- PermittedTried
CONSTANT GateCalls <- GateCallsTried
CONSTANT Disks <- DiskContents
CONSTANT Vehicles <- VehiclesTried
CONSTANT ByHand <- ChosenByHand
CONSTANT MaxDepth = 4
CONSTANT MaxEdits = 1
INVARIANT ProfileIsTheVehicles
INVARIANT NearestDefinitionDecodes
PROPERTY AnswersAreTrue
