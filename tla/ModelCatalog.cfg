CONSTANTS
    first = first
    second = second
    third = third
    model = model
    Callers = {first, second, third}
    Models = {model}
    None = None
SPECIFICATION Spec
CHECK_DEADLOCK FALSE
INVARIANT RefreshOwned
PROPERTIES
    ErrorsAreOwn
    MissIsChecked
    CallersReturn
