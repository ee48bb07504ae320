\* A POST.
CONSTANTS
    Streams = 1
    Request = {page, form}
    Found = {page, form}
    Get = {page}
    Features = {}
    MaxFrags = 2
    MaxControl = 1
    None = None
SPECIFICATION Spec
INVARIANTS OnlyGetAnswered
