\* One update: a reply of up to five texts, three attempts at each, up to four
\* faults, and a signal at any moment.
SPECIFICATION FairSpec
CONSTANTS
    Updates = {m1}
    Workers = 2
    Retries = 3
    Graces = {TRUE, FALSE}
    StreamEnabled = TRUE
    MaxExtras = 4
    MaxFaults = 4
INVARIANTS
    TypeOK
    ContextsOutliveTheSignal
    ReplyIsShown
PROPERTY
    HandlersEnd
