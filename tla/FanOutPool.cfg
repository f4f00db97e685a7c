SPECIFICATION Spec
CONSTANTS
    pair = pair
    single = single
    Calls = {pair, single}
    Width <- MCWidth
    Workers = {w1, w2}
    None = None
PROPERTIES KeepsPromise AllSettle
CHECK_DEADLOCK FALSE
