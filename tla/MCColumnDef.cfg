CONSTANTS
    Numbers <- MCNumbers
    MaxParams = 2
SPECIFICATION Spec
INVARIANT ToColumnTypeAsDocumented
