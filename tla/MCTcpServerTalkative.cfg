\* A client that goes on sending frames while the server is stopped. Violated.
SPECIFICATION BusySpec
CONSTANTS
    w1 = w1
    Workers = {w1}
    MaxClients = 1
PROPERTIES
    ShutdownEnds
