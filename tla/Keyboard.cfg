SPECIFICATION Spec
CONSTANT MAX_STDIN_LENGTH = 6
INVARIANTS KbdTypeOK LineAsEdited
PROPERTIES ImplementsKeyQueue KeysRead
