SPECIFICATION CallSpec
CONSTANT Half <- MCHalf
CONSTANT Values <- MCValues
CONSTANT Size = 2
CONSTANT Alnum = {"x", "y"}
CONSTANT Arguments <- MCArguments
INVARIANT GainExact
INVARIANT SumExact
INVARIANT RoundTrip
CHECK_DEADLOCK FALSE
