SPECIFICATION Spec
CONSTANT RingNode = {0, 3, 5}
CONSTANT RouteNode = {0, 3, 5, 9, 14}
CONSTANT Keys = {1, 3, 10, 13}
CONSTANT RingBits = 3
CONSTANT RouteBits = 4
CONSTANT NSucc = 2
CONSTANT MaxCalls = 3
CONSTANT MaxCrash = 1
INVARIANT LookupRight
PROPERTY RingHeals
PROPERTY FingersHeal
