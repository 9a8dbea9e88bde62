\* With TLS, clients whose handshake fails. Violated.
SPECIFICATION Spec
CONSTANTS
    w1 = w1
    Workers = {w1}
    MaxClients = 1
INVARIANTS
    IdleServerAdmits
