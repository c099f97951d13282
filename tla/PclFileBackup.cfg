CONSTANTS
    d1 = d1
    d2 = d2
    Data <- MCData
    Empty = Empty
    Torn = Torn
    Absent = Absent
    EmptySum = EmptySum
    Crc <- MCCrc
    RW = RW
    WO = WO
    RO = RO
SPECIFICATION Spec
INVARIANT TypeOK
 
 
