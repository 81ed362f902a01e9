SPECIFICATION FairSpec
CONSTANTS
    MaxEnrolls = 3
    MaxCaptures = 2
PROPERTIES
    AutoDisarm
