SPECIFICATION Spec
CONSTANTS
    MaxLen = 5
    MaxLonger = 7
    Chars <- Characters
    Texts <- SomeTexts
INVARIANTS
    CursorRunsItsSentence
    NothingDropped
    TokensTile
    SplitAsShown
