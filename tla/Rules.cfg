\* Every pure rule over its bounded inputs.
SPECIFICATION Spec
CONSTANTS
    MAX_CYCLE_LENGTH = 3
    MAX_CYCLES = 3
    MAX_ISSUES_PER_TYPE = 2
    MIN_COMMITS = 2
    MAX_COMMITS = 5
    MAX_HOTSPOTS = 1
    MAX_PALETTE = 2
    SECOND = 2
    HOPS = 1
    MAX_LAG = 1
    MAX_FILES = 2
    MAX_TOTAL = 3
    MAX_FILE = 2
    EXCERPT_CONTEXT_LINES = 1
    MAX_EXCERPT_LINES = 6
PROPERTIES
    ScoringIsSound
    
    
    
    
    
\* An input stops growing at its bound.
CHECK_DEADLOCK FALSE
