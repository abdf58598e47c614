\* One subscription of ours and one of another product, four events in all.
CONSTANTS
    Subs = {s1, s2}
    Ours = {s1}
    MaxEvents = 4
SPECIFICATION Spec
INVARIANTS TypeOK TierFollowsStripe SubscriberHasAWayIn
PROPERTY OthersChangeNothing
CHECK_DEADLOCK FALSE
