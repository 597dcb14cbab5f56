CONSTANTS
    Part = {"run", "memory", "loader", "map", "image", "regions"}
    Cpu = {c0, c1, c2}
    Boot = c0
    MaxStarts = 2
SPECIFICATION BootSpec
INVARIANTS SetUpInTime RunsWhereStarted  HostIsLoaded 
 
