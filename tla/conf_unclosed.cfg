SPECIFICATION Spec
CONSTANTS
    Plugins = {"echo"}
    Names = {}
    Braces = {"yes"}
    Nested = FALSE
    Tops = 2
    Strays = TRUE
    Links = FALSE
    Garbage = {"null", "stale", "wild"}
    MaxLines = 8
INVARIANTS LoadedMeansClosed
