CONSTANTS
    s1 = s1  s2 = s2  s3 = s3  e1 = e1  e2 = e2
    a = a  b = b  t1 = t1  t2 = t2
    None = None
    User <- Students2
    Student <- Students2
    Value <- Values2
    Key <- KeyCollide
    Txn <- Txns2
    MaxShared = 1
SPECIFICATION FairSpec
PROPERTIES RequestsEnd
