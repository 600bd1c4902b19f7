CONSTANTS
    Conn = {c1}
    Path = {"crt", "key", "ca"}
    Pair = {"old", "new"}
    Disks <- MCDisks
    Users <- MCUsers
    Credential <- MCCredential
    MaxVersion = 3
    Torn = Torn
    NoRequest = NoRequest
    NoCredential = NoCredential
SPECIFICATION Spec
INVARIANTS TypeOK NoFailureWithoutCause FreshHandshake FreshJudgement
