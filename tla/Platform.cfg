CONSTANTS
    Width = 4
    Base = 2
    Capacity = 8
    Size = {0, 1, 3, 14}
    Alignment = {1, 4}
    Arena = {pci, fdt}
    Value = {"x"}
    ElemSize = 1
    ElemAlign = 2
    MaxIds = 3
SPECIFICATION Platform
INVARIANTS HeapIsKept  
 
