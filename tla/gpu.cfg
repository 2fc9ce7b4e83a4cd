CONSTANTS
    NumGpus = 2
    Visible = {0, 1, 2}
    CommandLines <- GpuLines
    Percentages = {0, 100}
    FreeMemory = {50, 100}
    JobIdBound = 3
    MaxJobs = 3
    MaxSlots = 2
SPECIFICATION FairSpec
INVARIANTS NoGpuLeak AllocatedApart
PROPERTIES GpuJobStarts
CHECK_DEADLOCK FALSE
