SPECIFICATION Spec
CONSTANTS
    MaxFaults = 1
PROPERTIES
    DnsComesUp
CHECK_DEADLOCK FALSE
