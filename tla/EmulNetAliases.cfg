\* The ids of a large group: 256 and 512 are stored with a zero low byte.
CONSTANTS
    Ids = {1, 256, 512}
    d1 = d1
    Payload = {d1}
    Oversized = {}
    ENBUFFSIZE = 3
    MaxQueue = 1
SPECIFICATION Spec
PROPERTY IsBagNet
