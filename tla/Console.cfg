SPECIFICATION Spec
CONSTANTS
    INPUT_BUF = 4
    FifoSize = 2
    Letters = {"a", "control-p"}
INVARIANTS
    TypeOK
    EchoShowsInput
PROPERTIES
    ImplementsLineEditor
