\* Requests and friendships only.
CONSTANTS
    Users = {ann, bob}
    Requests = {r1, r2}
    MaxRequests = 4
    None = none
SPECIFICATION FriendsSpec
CHECK_DEADLOCK FALSE
INVARIANT Mutual
