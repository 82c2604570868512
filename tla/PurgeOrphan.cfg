CONSTANTS
    Media = {m1}
    Purger = {p1, p2}
    Dir = {d1, d2}
    Janitor = Janitor
    Null = Null
SPECIFICATION Spec
INVARIANT PurgedGone
