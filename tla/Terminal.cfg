SPECIFICATION Spec
CONSTANTS
    Chars = {"a"}
    Keys = {"backspace", "left", "right", "home", "end", "altleft", "altright", "deleteword",
            "deleteline", "ctrl-d", "ctrl-u", "clearscreen", "tab", "up", "down", "paste"}
    Prompt <- P1
    Other <- P2
    Secret <- P3
    Width = 2
    Widths = {3}
    maxLineLength = 4
    Completion <- Word
    HistoryMax = 2
    Calls = {"ReadPassword", "Write", "SetPrompt", "ReadError"}
    Rows = 4
    MaxLines = 2
    MaxChars = 2
    MaxOther = 2
INVARIANTS
    
    
    PasteTrue
CHECK_DEADLOCK FALSE
