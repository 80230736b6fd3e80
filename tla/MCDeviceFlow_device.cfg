\* One login, requests that outlast the interval, one fault.
CONSTANTS
    Timeout = 18  MinInterval = 2  SlowDown = 1
    Intervals <- AskedIntervals
    CodeLife = 16  MaxWait = 3  MaxFaults = 1
SPECIFICATION FairSpec
INVARIANTS TypeOK PollRate IntervalCoversServer OutcomeExplained DecisionArrives
PROPERTIES SlowDownObeyed LoginReturns
