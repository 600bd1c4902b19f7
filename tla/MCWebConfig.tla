---------------------------- MODULE MCWebConfig -----------------------------
(***************************************************************************)
(* Files for WebConfig: configurations good and bad, a certificate and a   *)
(* key replaced one after the other, and a CA that is there or not.        *)
(***************************************************************************)
EXTENDS WebConfig

MCTls(c, k, a, policy) == [cert |-> c, key |-> k, ca |-> a, auth |-> policy]

MCSections ==
    {NoTls, MCTls("crt", "key", "", ""), MCTls("crt", "key", "", "RequireClientCert"),
     MCTls("crt", "key", "ca", "RequireAndVerifyClientCert"),
     MCTls("crt", "key", "ca", ""), MCTls("crt", "", "", ""), MCTls("", "key", "", ""),
     MCTls("crt", "key", "", "Junk")}

MCUsers == {<<>>, [dave |-> "dave123"], [dave |-> "Junk"]}

MCFiles ==
    {Torn} \cup [tls : MCSections, users : {<<>>}]
           \cup [tls : {NoTls, MCTls("crt", "key", "", "")}, users : MCUsers]

MCAt(c, k, a) == [crt |-> c, key |-> k, ca |-> a]

MCDisks ==
    [file : MCFiles,
     at : {MCAt(c, k, "old") : c \in {"old", "new"}, k \in {"old", "new", "missing"}}
            \cup {MCAt("old", "old", "missing")}]

MCCredential ==
    {NoCredential, [user |-> "dave", password |-> "dave123"],
     [user |-> "carol", password |-> "dave123"]}
=============================================================================
