CONSTANTS
    Pid = {0, 1, 2}
    Term = {0, 1}
    MAX_FD = 4
    Directory <- MCDirectory
    FileLength <- MCFileLength
    Names <- MCNames
    Rates = {2, 1024}
    MaxOpen = 3
    Habits = {}
SPECIFICATION Spec
INVARIANTS DescriptorsAsOpened ReadsInOrder EndMeansAll
