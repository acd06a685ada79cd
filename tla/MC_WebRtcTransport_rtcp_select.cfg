CONSTANTS
    udp = udp
    tcp = tcp
    None = None
    Tuples <- MCTuples
    TcpTuples <- MCTcpTuples
SPECIFICATION Spec
PROPERTY ValidTrafficSelectsTuple
