SPECIFICATION Spec
CONSTANTS
    Plugins = {"echo", "http"}
    Names = {"a"}
    Braces = {"yes"}
    Nested = FALSE
    Tops = 1
    Strays = FALSE
    Links = FALSE
    Garbage = {"null", "stale", "wild"}
    MaxLines = 9
INVARIANTS StacksAgree SetterFits VarsScoped
