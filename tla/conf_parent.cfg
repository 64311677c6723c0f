SPECIFICATION Spec
CONSTANTS
    Plugins = {"echo"}
    Names = {}
    Braces = {"yes"}
    Nested = FALSE
    Tops = 1
    Strays = FALSE
    Links = FALSE
    Garbage = {"null", "stale", "wild"}
    MaxLines = 8
INVARIANTS ParentIsOpenBlock
