CONSTANTS
    ID = {s1}
    Thread = {t1, t2, t3}
    Entry = {e1, e2}
    Nil = Nil
SPECIFICATION FairSystemSpec
INVARIANTS NoEntryLeaked NoCircularWait
PROPERTIES ImplementsKeyedMutex EveryCallReturns
