SPECIFICATION Spec
CONSTANTS
    Items = {i1, i2, i3}
    Capacity = 3
    Nothing = Nothing
PROPERTY
    FifoSpec
