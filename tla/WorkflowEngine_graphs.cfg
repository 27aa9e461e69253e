SPECIFICATION FairSpec
CONSTANTS
    Graphs <- MCGraphs
    yes = yes  no = no
    Handles = {yes, no}
    NoHandle = NoHandle
    NoAnswer = NoAnswer
    NoNode = NoNode
    PoolSize = 2
INVARIANTS TypeOK NeverEarly RunsWhatIsCalledFor NoNodeForgotten NoSurvivors
PROPERTIES RunEnds
