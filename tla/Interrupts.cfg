SPECIFICATION Spec
CONSTANTS
    Tasks = {1, 2}
    BootKeys = {"char"}
INVARIANTS
    InServiceIsHandled
    HandlersReady
PROPERTIES
    DevicesServed
