SPECIFICATION Spec
CONSTANTS
    Tabs = {t1, t2}
    Transactions = {x1, x2}
    Demo = {owner}
    Others = {a1}
    Locks = TRUE
    Nobody = Nobody
PROPERTIES SavedStays
CHECK_DEADLOCK FALSE
