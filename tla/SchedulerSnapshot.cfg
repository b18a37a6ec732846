SPECIFICATION FairSpec
CONSTANTS
    Accounts = {a1}
    Buckets = {g1}
    Pollers = {p1}
    Rebuilders = {w1}
    Readers = {w1}
    Updaters = {u1}
    Nil = Nil
    MaxChanges = 2
    MaxErrors = 1
INVARIANTS TypeOK ListsFollowChanges CopiesFollowChanges
PROPERTIES ListsSettle
