\* x86-TSO: what holds of the lock whatever the store buffers do.
SPECIFICATION FairSpec
CONSTANTS
    Mutators = {m1, m2}
    StoreBufferSize = 2
INVARIANT TypeOK
INVARIANT ExclusionUnlessOvertaken
PROPERTY ImplementsUnlessOvertaken
PROPERTY GcEnters
PROPERTY MutatorsResume
