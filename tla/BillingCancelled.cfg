\* One subscription.
CONSTANTS
    Subs = {s1}
    Ours = {s1}
    MaxEvents = 4
SPECIFICATION Spec
INVARIANT CancelledLosesPro
CHECK_DEADLOCK FALSE
