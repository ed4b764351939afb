CONSTANTS
    Width = 3
    MaxWords = 9
    MaxOffset = 10
    None = None

SPECIFICATION Spec

PROPERTIES
    WordsMatchReference
