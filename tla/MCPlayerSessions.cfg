SPECIFICATION FairSpec
CONSTANTS
    s1 = s1
    s2 = s2
    s3 = s3
    a = a
    b = b
    m = m
    n = n
    Sessions = {s1, s2, s3}
    Uuid <- MCUuid
    Name <- MCName
    MaxPlayers = 2
    Nobody = Nobody
CHECK_DEADLOCK FALSE
INVARIANTS
    NotOversubscribed
    ReservationsExact
    PlayersUnique
    UnracedProgressKept
    EveryoneListed
PROPERTIES
    SessionsSettle
