----------------------------- MODULE WebConfig ------------------------------
(***************************************************************************)
(* Package https (tls_config.go, users.go): Listen, the configuration file *)
(* it validates, and the reads of that file and of the files it names that *)
(* each TLS handshake and each request makes again, while they are edited. *)
(*                                                                         *)
(* A file is what the code tells apart: a configuration that is not there  *)
(* or does not parse is Torn; a certificate and a key fit if they are of   *)
(* one pair.  Client certificates, and TLS sessions resumed without a      *)
(* certificate, are left out.                                              *)
(***************************************************************************)
EXTENDS Naturals, Sequences

CONSTANTS
    Conn,         \* connections
    Path,         \* where certificates, keys and CAs may be
    Pair,         \* of certificate and key
    Disks,        \* what the files may hold: a set of Disk
    Users,        \* what basic_auth_users may be
    Credential,   \* what requests may carry
    Torn,         \* a configuration that cannot be read or parsed
    NoRequest,    \* a connection between two requests
    NoCredential, \* a request without a user and a password
    MaxVersion    \* bound: how many contents the files have in all

Policies == {"RequestClientCert", "RequireClientCert", "VerifyClientCertIfGiven",
             "RequireAndVerifyClientCert"}

Tls == [cert : Path \cup {""}, key : Path \cup {""}, ca : Path \cup {""},
        auth : Policies \cup {"", "NoClientCert", "Junk"}]

File == {Torn} \cup [tls : Tls, users : Users]

(* A path that cannot be read is "missing", and so is a certificate or key *)
(* that is no PEM; a CA file is taken for one if it can be read.           *)
Disk == [file : File, at : [Path -> Pair \cup {"missing"}]]

ASSUME WebAssumption ==
    /\ Disks \subseteq Disk /\ "main" \notin Conn
    /\ "" \notin Path /\ "missing" \notin Pair
    /\ NoRequest \notin Credential /\ Torn \notin [tls : Tls, users : Users]

ASSUME BoundAssumption == MaxVersion \in Nat \ {0}

VARIABLES
    named,        \* whether --web.config is given
    history,      \* what the files have held; the last is what they hold
    serves,       \* what the server does: "no", "bare", "plain", "https"
    step,         \* where main and each handshake is
    since,        \* ... and the version it began at
    tls,          \* the TLSStruct it has read
    cert,         \* the certificate file it has read
    request,      \* the credentials of the request on a connection
    came,         \* ... and the version it came at
    answer        \* ... and its answer, 0 before

vars == <<named, history, serves, step, since, tls, cert, request, came, answer>>

Reader == Conn \cup {"main"}

Now == Len(history)

Held == history[Now]

NoTls == [cert |-> "", key |-> "", ca |-> "", auth |-> ""]

Init ==
    /\ named \in BOOLEAN
    /\ \E d \in Disks : history = <<d>>
    /\ serves = "no"
    /\ step = [r \in Reader |-> IF r = "main" THEN "listen" ELSE "idle"]
    /\ since = [r \in Reader |-> 1]
    /\ tls = [r \in Reader |-> NoTls]
    /\ cert = [r \in Reader |-> "missing"]
    /\ request = [c \in Conn |-> NoRequest]
    /\ came = [c \in Conn |-> 1]
    /\ answer = [c \in Conn |-> 0]

-----------------------------------------------------------------------------
(* An administrator writes one file.  *)
Differ(d, e) ==
    {p \in Path : d.at[p] # e.at[p]} \cup (IF d.file = e.file THEN {} ELSE {"web.config"})

Edit ==
    /\ Now < MaxVersion
    /\ \E d \in Disks :
          /\ \E f \in Path \cup {"web.config"} : Differ(Held, d) = {f}
          /\ history' = Append(history, d)
    /\ UNCHANGED <<named, serves, step, since, tls, cert, request, came, answer>>

-----------------------------------------------------------------------------
(* What a reader does next, what the server does then.  *)
Move(r, to) == step' = [step EXCEPT ![r] = to]

Serve(mode) == Move("main", "serving") /\ serves' = mode

Fail(r) ==
    /\ Move(r, "failed")
    /\ UNCHANGED <<serves, tls, cert>>

(* Listen, and validateUsers, its first read.  A user's hash may be junk.  *)
UsersValid(d) ==
    d.file # Torn /\ \A u \in DOMAIN d.file.users : d.file.users[u] # "Junk"

Listen ==
    /\ step["main"] = "listen"
    /\ \/ ~ named /\ Serve("bare") /\ UNCHANGED since
       \/ /\ named
          /\ Move("main", IF UsersValid(Held) THEN "config" ELSE "failed")
          /\ since' = [since EXCEPT !["main"] = Now]
          /\ UNCHANGED serves
    /\ UNCHANGED <<named, history, tls, cert, request, came, answer>>

(* Mutant: GetConfigForClient is not set; main's own config serves.  *)
ConnectOnce(c) ==
    /\ step[c] = "idle" /\ serves # "no"
    /\ Move(c, IF serves = "https" THEN "cert again" ELSE "open")
    /\ since' = [since EXCEPT ![c] = Now]
    /\ tls' = [tls EXCEPT ![c] = tls["main"]]
    /\ UNCHANGED <<named, history, serves, cert, request, came, answer>>

(* A client connects, and sends its ClientHello if this is a TLS server.  *)
Connect(c) ==
    /\ step[c] = "idle" /\ serves # "no"
    /\ Move(c, IF serves = "https" THEN "config" ELSE "open")
    /\ since' = [since EXCEPT ![c] = Now]
    /\ UNCHANGED <<named, history, serves, tls, cert, request, came, answer>>

(* getTLSConfig: the file, and the first checks of ConfigToTLSConfig.  The  *)
(* error errNoTLSConfig is plain HTTP for main, an error for a handshake.  *)
ReadConfig(r) ==
    /\ step[r] = "config"
    /\ LET file == Held.file
       IN  \/ file = Torn /\ Fail(r)
           \/ /\ file # Torn /\ file.tls = NoTls
              /\ IF r = "main" THEN Serve("plain") /\ UNCHANGED <<tls, cert>> ELSE Fail(r)
           \/ /\ file # Torn /\ file.tls # NoTls /\ "" \in {file.tls.cert, file.tls.key}
              /\ Fail(r)
           \/ /\ file # Torn /\ "" \notin {file.tls.cert, file.tls.key}
              /\ tls' = [tls EXCEPT ![r] = file.tls]
              /\ Move(r, "cert")
              /\ UNCHANGED <<serves, cert>>
    /\ UNCHANGED <<named, history, since, request, came, answer>>

(* loadCert: tls.LoadX509KeyPair reads the one file, then the other.  *)
ReadCert(r) ==
    /\ step[r] \in {"cert", "cert again"}
    /\ LET read == Held.at[tls[r].cert]
       IN  \/ read = "missing" /\ Fail(r)
           \/ /\ read # "missing"
              /\ cert' = [cert EXCEPT ![r] = read]
              /\ Move(r, IF step[r] = "cert" THEN "key" ELSE "key again")
              /\ UNCHANGED <<serves, tls>>
    /\ UNCHANGED <<named, history, since, request, came, answer>>

Fits(r) == Held.at[tls[r].key] = cert[r]

(* GetCertificate loads them a second time, for the handshake itself.  *)
ReadKey(r) ==
    /\ step[r] \in {"key", "key again"}
    /\ \/ ~ Fits(r) /\ Fail(r)
       \/ /\ Fits(r)
          /\ Move(r, IF step[r] = "key" THEN "ca" ELSE "open")
          /\ UNCHANGED <<serves, tls, cert>>
    /\ UNCHANGED <<named, history, since, request, came, answer>>

(* Mutant: a CA is asked for by each policy.  *)
AuthOkStrict(t) == t.auth # "Junk" /\ (t.ca # "" <=> t.auth \in Policies)

AuthOk(t) == t.auth # "Junk" /\ (t.ca # "" => t.auth \in Policies)

(* The rest of ConfigToTLSConfig: ClientCAs, then ClientAuth.  *)
ReadCA(r) ==
    /\ step[r] = "ca"
    /\ LET t  == tls[r]
           ok == (t.ca # "" => Held.at[t.ca] # "missing") /\ AuthOk(t)
       IN  \/ ~ ok /\ Fail(r)
           \/ /\ ok
              /\ IF r = "main" THEN Serve("https")
                               ELSE Move(r, "cert again") /\ UNCHANGED serves
              /\ UNCHANGED <<tls, cert>>
    /\ UNCHANGED <<named, history, since, request, came, answer>>

(* A connection ends, between two requests.  *)
Close(c) ==
    /\ step[c] \in {"open", "failed"} /\ request[c] = NoRequest
    /\ Move(c, "idle")
    /\ tls' = [tls EXCEPT ![c] = NoTls]
    /\ cert' = [cert EXCEPT ![c] = "missing"]
    /\ UNCHANGED <<named, history, serves, since, request, came, answer>>

-----------------------------------------------------------------------------
(* A request, perhaps not the connection's first.  *)
Arrive(c, cred) ==
    /\ step[c] = "open" /\ request[c] = NoRequest
    /\ request' = [request EXCEPT ![c] = cred]
    /\ came' = [came EXCEPT ![c] = Now]
    /\ UNCHANGED <<named, history, serves, step, since, tls, cert, answer>>

(* userAuthRoundtrip.ServeHTTP.  A hash that is junk fits no password.  *)
Known(users, cred) ==
    cred.user \in DOMAIN users /\ users[cred.user] = cred.password

(* Mutant: an unknown user is told so.  *)
JudgeUnknown(d, cred) ==
    CASE d.file = Torn                             -> 500
      [] d.file # Torn /\ DOMAIN d.file.users = {} -> 200
      [] d.file # Torn /\ DOMAIN d.file.users # {} ->
            IF cred = NoCredential THEN 401
            ELSE IF cred.user \notin DOMAIN d.file.users THEN 404
            ELSE IF Known(d.file.users, cred) THEN 200 ELSE 403

Judge(d, cred) ==
    CASE d.file = Torn                             -> 500
      [] d.file # Torn /\ DOMAIN d.file.users = {} -> 200
      [] d.file # Torn /\ DOMAIN d.file.users # {} ->
            IF cred = NoCredential THEN 401
            ELSE IF Known(d.file.users, cred) THEN 200 ELSE 403

(* Mutant: a request is judged by the file its connection began with.  *)
JudgedAtHandshake(c) == Judge(history[since[c]], request[c])

Judged(c) == Judge(Held, request[c])

(* The file is read, and the request handed on or answered.  *)
Authenticate(c) ==
    /\ request[c] # NoRequest /\ answer[c] = 0
    /\ answer' = [answer EXCEPT ![c] = IF serves = "bare" THEN 200 ELSE Judged(c)]
    /\ UNCHANGED <<named, history, serves, step, since, tls, cert, request, came>>

Answered(c) ==
    /\ answer[c] # 0
    /\ request' = [request EXCEPT ![c] = NoRequest]
    /\ answer' = [answer EXCEPT ![c] = 0]
    /\ UNCHANGED <<named, history, serves, step, since, tls, cert, came>>

-----------------------------------------------------------------------------
Read(r) == ReadConfig(r) \/ ReadCert(r) \/ ReadKey(r) \/ ReadCA(r)

(* Listen has returned an error: the process exits.  *)
Exited == step["main"] = "failed" /\ UNCHANGED vars

Next ==
    \/ Edit \/ Listen \/ Exited
    \/ \E r \in Reader : Read(r)
    \/ \E c \in Conn :
          \/ Connect(c) \/ Close(c) \/ Authenticate(c) \/ Answered(c)
          \/ \E cred \in Credential : Arrive(c, cred)

Spec == Init /\ [][Next]_vars

-----------------------------------------------------------------------------
Step == {"listen", "config", "cert", "key", "ca", "cert again", "key again",
         "serving", "idle", "open", "failed"}

Status == {0, 200, 401, 403, 500}

TypeOK ==
    /\ named \in BOOLEAN
    /\ history \in Seq(Disks) /\ Now \in 1 .. MaxVersion
    /\ serves \in {"no", "bare", "plain", "https"}
    /\ step \in [Reader -> Step]
    /\ since \in [Reader -> 1 .. Now]
    /\ tls \in [Reader -> Tls]
    /\ cert \in [Reader -> Pair \cup {"missing"}]
    /\ request \in [Conn -> Credential \cup {NoRequest}]
    /\ came \in [Conn -> 1 .. Now]
    /\ answer \in [Conn -> Status]

(***************************************************************************)
(* Whether one content of the files can be served from, told at once       *)
(* rather than in the order of the reads: what TestYAMLFiles and           *)
(* TestServerBehaviour try one file at a time.                             *)
(***************************************************************************)
TlsUsable(d) ==
    LET t == d.file.tls
    IN  /\ "" \notin {t.cert, t.key}
        /\ d.at[t.cert] = d.at[t.key] /\ d.at[t.cert] # "missing"
        /\ t.auth # "Junk"
        /\ t.ca # "" => t.auth \in Policies /\ d.at[t.ca] # "missing"

Usable(r, d) ==
    /\ d.file # Torn
    /\ IF r = "main" THEN UsersValid(d) /\ (d.file.tls = NoTls \/ TlsUsable(d))
                     ELSE TlsUsable(d)

(***************************************************************************)
(* Neither Listen nor a handshake fails unless the files were unusable     *)
(* when it began or were edited since, whatever an earlier handshake read: *)
(* a certificate that is being replaced costs the connections of that      *)
(* moment and no other (TestConfigReloading).                              *)
(***************************************************************************)
NoFailureWithoutCause ==
    \A r \in Reader :
        step[r] = "failed" => since[r] < Now \/ ~ Usable(r, history[since[r]])

(***************************************************************************)
(* "reloaded on each connection to check for new certificates and/or       *)
(* authentication policy" (https/README.md:13): the policy of a connection *)
(* and both halves of its certificate were on disk after it began, the     *)
(* halves fit, and a CA is never loaded without a policy; so too for what  *)
(* main serves with, whose users were valid when it began.                 *)
(***************************************************************************)
ReadSince(r) ==
    LET seen == {history[v] : v \in since[r] .. Now}
    IN  /\ \E d \in seen : d.file # Torn /\ d.file.tls = tls[r]
        /\ \E d \in seen : d.at[tls[r].cert] = cert[r]
        /\ \E d \in seen : d.at[tls[r].key] = cert[r]
        /\ cert[r] # "missing" /\ tls[r].auth # "Junk"
        /\ tls[r].ca # "" => tls[r].auth \in Policies

FreshHandshake ==
    serves = "https" =>
        /\ ReadSince("main") /\ UsersValid(history[since["main"]])
        /\ \A c \in Conn : step[c] = "open" => ReadSince(c)

(***************************************************************************)
(* Each request is answered as the file asked at a moment between its      *)
(* coming and its answer, however long its connection has been open: 200   *)
(* if it had no users or the request their password, 401 to one without    *)
(* credentials, 500 only if the file did not parse, and else 403.          *)
(***************************************************************************)
Admits(d, cred) ==
    \/ DOMAIN d.file.users = {}
    \/ /\ cred # NoCredential /\ cred.user \in DOMAIN d.file.users
       /\ d.file.users[cred.user] = cred.password

FreshJudgement ==
    \A c \in Conn : answer[c] # 0 /\ serves # "bare" =>
        \E v \in came[c] .. Now :
            LET d == history[v]
            IN  answer[c] = IF d.file = Torn THEN 500
                            ELSE IF Admits(d, request[c]) THEN 200
                            ELSE IF request[c] = NoCredential THEN 401 ELSE 403
=============================================================================
