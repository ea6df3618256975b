CONSTANTS
    MaxText = 3
    Host = {"a", "b"}
    Port = {"80", "81"}
    Path <- MCPath
    MaxCalls = 3
SPECIFICATION Spec
INVARIANT OptionsAsSet
