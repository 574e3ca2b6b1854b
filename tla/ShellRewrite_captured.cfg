SPECIFICATION Spec
CONSTANTS
    Pieces <- MCPieces
    MaxPieces = 6
    Arguments = {}
    Viewed = {"grep"}
    Interactive = {}
INVARIANT
    CapturedIsUntouched
