\* Calls of up to four operands with every choice of {} among them, nested calls, arrays and
\* pseudo modules; one change of a group size while the program runs.  The system stops
\* when every call has been answered.
SPECIFICATION FairSpec
CONSTANTS
    Descriptor <- MCDescriptor
    Pseudo <- MCPseudo
    Programs <- MCPrograms
    UseLists <- MCUseLists
    MaxArity = 3
    MaxConfig = 1
INVARIANTS MeaningKept PlainListed
PROPERTIES Answered
CHECK_DEADLOCK FALSE
