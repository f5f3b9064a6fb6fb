\* The constants of the program.
CONSTANTS
    BUFFER_SIZE = 10
    MAX_ITEMS = 20
SPECIFICATION Spec
PROPERTIES
    QueueSpec
