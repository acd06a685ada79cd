CONSTANTS
    udp = udp
    tcp = tcp
    None = None
    Tuples <- MCTuples
    TcpTuples <- MCTcpTuples
SPECIFICATION Spec
INVARIANTS TypeOK SelectedTupleIsValid DtlsRoleFollowsConnect
PROPERTIES SentWithCurrentKeys
