-------------------------- MODULE WebConfigProofs ---------------------------
(***************************************************************************)
(* Proofs about WebConfig for any connections, paths, contents of the      *)
(* files and users, and any number of edits.                               *)
(***************************************************************************)
EXTENDS WebConfig, TLAPS

(* Main and the connections each have steps of their own; the server is    *)
(* there from when main serves, and what is to be loaded has names.        *)
Modes ==
    /\ step["main"] \in {"listen", "config", "cert", "key", "ca", "serving", "failed"}
    /\ \A c \in Conn :
          step[c] \in {"idle", "config", "cert", "key", "ca", "cert again", "key again",
                       "open", "failed"}
    /\ serves # "no" <=> step["main"] = "serving"
    /\ serves = "no" => \A c \in Conn : step[c] = "idle"
    /\ \A c \in Conn : answer[c] # 0 => request[c] # NoRequest

Loading == {"cert", "key", "ca", "cert again", "key again"}

Named == \A r \in Reader : step[r] \in Loading => tls[r].cert \in Path /\ tls[r].key \in Path

TypeInv == TypeOK /\ Modes /\ Named

-----------------------------------------------------------------------------
LEMMA MainReads == "main" \in Reader /\ Conn \subseteq Reader /\ "main" \notin Conn
BY WebAssumption DEF Reader

LEMMA HeldType ==
    ASSUME TypeInv
    PROVE  /\ Now \in Nat \ {0} /\ Now \in 1 .. Now /\ Held \in Disk
           /\ Held.file = Torn \/ Held.file.tls \in Tls
           /\ \A p \in Path : Held.at[p] \in Pair \cup {"missing"}
<1>1. Now \in 1 .. MaxVersion /\ MaxVersion \in Nat /\ history \in Seq(Disks)
    BY BoundAssumption DEF TypeInv, TypeOK
<1>2. Now \in Nat \ {0} /\ Held \in Disks
    BY <1>1 DEF Now, Held
<1>3. Held \in Disk
    BY <1>2, WebAssumption
<1> QED
    BY <1>2, <1>3 DEF Disk, File

(* What a step that edits nothing has to show.  *)
LEMMA SameFiles ==
    ASSUME TypeInv, UNCHANGED <<named, history>>,
           serves' \in {"no", "bare", "plain", "https"},
           step' \in [Reader -> Step], since' \in [Reader -> 1 .. Now],
           tls' \in [Reader -> Tls], cert' \in [Reader -> Pair \cup {"missing"}],
           request' \in [Conn -> Credential \cup {NoRequest}],
           came' \in [Conn -> 1 .. Now], answer' \in [Conn -> Status]
    PROVE  TypeOK'
BY DEF TypeInv, TypeOK, Now

LEMMA Moved ==
    ASSUME TypeInv, NEW r \in Reader, NEW to \in Step, Move(r, to)
    PROVE  /\ step' \in [Reader -> Step] /\ step'[r] = to
           /\ \A q \in Reader \ {r} : step'[q] = step[q]
BY DEF TypeInv, TypeOK, Move

(* A reader goes on with what it has read.  *)
LEMMA ReaderTypes ==
    ASSUME TypeInv, NEW r \in Reader,
           NEW to \in {"config", "cert", "key", "ca", "cert again", "key again", "failed", "open"},
           to \in {"cert again", "key again", "open"} => r # "main",
           step[r] \in Loading \cup {"config"}, Move(r, to),
           tls' \in [Reader -> Tls], \A q \in Reader \ {r} : tls'[q] = tls[q],
           to \in Loading => tls'[r].cert \in Path /\ tls'[r].key \in Path,
           cert' \in [Reader -> Pair \cup {"missing"}],
           UNCHANGED <<named, history, serves, since, request, came, answer>>
    PROVE  TypeInv'
<1>0. to \in Step
    BY DEF Step
<1>1. TypeOK'
    BY <1>0, Moved, SameFiles DEF TypeInv, TypeOK
<1>2. Modes'
    BY <1>0, MainReads, Moved DEF TypeInv, Modes, Loading
<1>3. Named'
    BY <1>0, Moved DEF TypeInv, Named
<1> QED
    BY <1>1, <1>2, <1>3 DEF TypeInv

LEMMA MainServes ==
    ASSUME TypeInv, NEW mode \in {"bare", "plain", "https"}, Serve(mode),
           step["main"] \in {"listen", "config", "ca"},
           UNCHANGED <<named, history, since, tls, cert, request, came, answer>>
    PROVE  TypeInv'
<1>0. Move("main", "serving") /\ "serving" \in Step /\ serves' = mode
    BY DEF Serve, Step
<1>1. TypeOK'
    BY <1>0, MainReads, Moved, SameFiles DEF TypeInv, TypeOK
<1>2. Modes'
    BY <1>0, MainReads, Moved DEF TypeInv, Modes
<1>3. Named'
    BY <1>0, MainReads, Moved DEF TypeInv, Named, Loading
<1> QED
    BY <1>1, <1>2, <1>3 DEF TypeInv

LEMMA FailTypes ==
    ASSUME TypeInv, NEW r \in Reader, step[r] \in Loading \cup {"config"}, Fail(r),
           UNCHANGED <<named, history, since, request, came, answer>>
    PROVE  TypeInv'
<1>1. tls \in [Reader -> Tls] /\ cert \in [Reader -> Pair \cup {"missing"}]
    BY DEF TypeInv, TypeOK
<1> QED
    BY <1>1, ReaderTypes DEF Fail, Loading

LEMMA TypeInit == Init => TypeInv
<1> SUFFICES ASSUME Init PROVE TypeInv
    OBVIOUS
<1> PICK d \in Disks : history = <<d>>
    BY DEF Init
<1>0. 1 \in 1 .. MaxVersion
    BY BoundAssumption
<1>1. history \in Seq(Disks) /\ Len(history) = 1
    OBVIOUS
<1>2. NoTls \in Tls
    BY DEF NoTls, Tls
<1>3. step \in [Reader -> Step] /\ since \in [Reader -> 1 .. 1] /\ came \in [Conn -> 1 .. 1]
    BY DEF Init, Step
<1>4. TypeOK
    BY <1>0, <1>1, <1>2, <1>3 DEF Init, TypeOK, Now, Status
<1>5. Modes /\ Named
    BY MainReads DEF Init, Modes, Named, Loading
<1> QED
    BY <1>4, <1>5 DEF TypeInv

LEMMA TypeStep == TypeInv /\ [Next]_vars => TypeInv'
<1> SUFFICES ASSUME TypeInv, [Next]_vars PROVE TypeInv'
    OBVIOUS
<1> USE MainReads
<1>t. /\ tls \in [Reader -> Tls] /\ cert \in [Reader -> Pair \cup {"missing"}]
      /\ since \in [Reader -> 1 .. Now] /\ came \in [Conn -> 1 .. Now]
      /\ request \in [Conn -> Credential \cup {NoRequest}] /\ answer \in [Conn -> Status]
      /\ serves \in {"no", "bare", "plain", "https"} /\ step \in [Reader -> Step]
    BY DEF TypeInv, TypeOK
<1>1. CASE Edit
  <2>1. PICK d \in Disks : history' = Append(history, d)
    BY <1>1 DEF Edit
  <2>2. Now' = Now + 1 /\ Now \in Nat /\ Now' \in 1 .. MaxVersion /\ history' \in Seq(Disks)
    <3>1. history \in Seq(Disks) /\ Now < MaxVersion /\ MaxVersion \in Nat
      BY <1>1, BoundAssumption DEF Edit, TypeInv, TypeOK
    <3>2. Now \in Nat /\ Now' = Now + 1 /\ history' \in Seq(Disks)
      BY <2>1, <3>1 DEF Now
    <3> QED
      BY <3>1, <3>2
  <2>3. 1 .. Now \subseteq 1 .. Now'
    BY <2>2
  <2>4. since' \in [Reader -> 1 .. Now'] /\ came' \in [Conn -> 1 .. Now']
    BY <1>1, <1>t, <2>3 DEF Edit
  <2>5. TypeOK'
    BY <1>1, <2>2, <2>4 DEF Edit, TypeInv, TypeOK
  <2> QED
    BY <1>1, <2>5 DEF Edit, TypeInv, Modes, Named
<1>2. CASE Listen
  <2>1. CASE Serve("bare") /\ UNCHANGED since
    BY <1>2, <2>1, MainServes DEF Listen
  <2>2. ASSUME NEW to \in {"config", "failed"}, Move("main", to), UNCHANGED serves,
               since' = [since EXCEPT !["main"] = Now]
        PROVE  TypeInv'
    <3>1. to \in Step /\ since' \in [Reader -> 1 .. Now]
      BY <1>t, <2>2, HeldType DEF Step
    <3>2. TypeOK'
      BY <1>2, <1>t, <2>2, <3>1, Moved, SameFiles DEF Listen
    <3>3. Modes' /\ Named'
      BY <1>2, <2>2, <3>1, Moved DEF Listen, TypeInv, Modes, Named, Loading
    <3> QED
      BY <3>2, <3>3 DEF TypeInv
  <2> QED
    BY <1>2, <2>1, <2>2 DEF Listen
<1>3. ASSUME NEW r \in Reader, ReadConfig(r) PROVE TypeInv'
  <2>1. CASE Fail(r)
    BY <1>3, <2>1, FailTypes DEF ReadConfig
  <2>2. CASE r = "main" /\ Serve("plain") /\ UNCHANGED <<tls, cert>>
    BY <1>3, <2>2, MainServes DEF ReadConfig
  <2>3. CASE /\ Held.file # Torn /\ "" \notin {Held.file.tls.cert, Held.file.tls.key}
             /\ tls' = [tls EXCEPT ![r] = Held.file.tls]
             /\ Move(r, "cert") /\ UNCHANGED <<serves, cert>>
    <3>1. Held.file.tls \in Tls
      BY <2>3, HeldType
    <3>2. Held.file.tls.cert \in Path /\ Held.file.tls.key \in Path
      BY <2>3, <3>1 DEF Tls
    <3>3. tls' \in [Reader -> Tls] /\ tls'[r] = Held.file.tls
          /\ \A q \in Reader \ {r} : tls'[q] = tls[q]
      BY <1>t, <2>3, <3>1
    <3> QED
      BY <1>3, <1>t, <2>3, <3>2, <3>3, ReaderTypes DEF ReadConfig, Loading
  <2> QED
    BY <1>3, <2>1, <2>2, <2>3 DEF ReadConfig
<1>4. ASSUME NEW r \in Reader, ReadCert(r) PROVE TypeInv'
  <2>1. CASE Fail(r)
    BY <1>4, <2>1, FailTypes DEF ReadCert, Loading
  <2>2. CASE /\ cert' = [cert EXCEPT ![r] = Held.at[tls[r].cert]]
             /\ Move(r, IF step[r] = "cert" THEN "key" ELSE "key again")
             /\ UNCHANGED <<serves, tls>>
    <3>1. tls[r].cert \in Path /\ tls[r].key \in Path /\ step[r] \in Loading
      BY <1>4 DEF ReadCert, TypeInv, Named, Loading
    <3>2. cert' \in [Reader -> Pair \cup {"missing"}]
      BY <1>t, <2>2, <3>1, HeldType
    <3>3. step[r] = "cert again" => r # "main"
      BY DEF TypeInv, Modes
    <3> QED
      BY <1>4, <1>t, <2>2, <3>1, <3>2, <3>3, ReaderTypes DEF ReadCert
  <2> QED
    BY <1>4, <2>1, <2>2 DEF ReadCert
<1>5. ASSUME NEW r \in Reader, ReadKey(r) PROVE TypeInv'
  <2>1. CASE Fail(r)
    BY <1>5, <2>1, FailTypes DEF ReadKey, Loading
  <2>2. CASE /\ Move(r, IF step[r] = "key" THEN "ca" ELSE "open")
             /\ UNCHANGED <<serves, tls, cert>>
    <3>1. tls[r].cert \in Path /\ tls[r].key \in Path /\ step[r] \in Loading
      BY <1>5 DEF ReadKey, TypeInv, Named, Loading
    <3>2. step[r] = "key again" => r # "main"
      BY DEF TypeInv, Modes
    <3> QED
      BY <1>5, <1>t, <2>2, <3>1, <3>2, ReaderTypes DEF ReadKey
  <2> QED
    BY <1>5, <2>1, <2>2 DEF ReadKey
<1>6. ASSUME NEW r \in Reader, ReadCA(r) PROVE TypeInv'
  <2>1. CASE Fail(r)
    BY <1>6, <2>1, FailTypes DEF ReadCA, Loading
  <2>2. CASE r = "main" /\ Serve("https") /\ UNCHANGED <<tls, cert>>
    BY <1>6, <2>2, MainServes DEF ReadCA
  <2>3. CASE r # "main" /\ Move(r, "cert again") /\ UNCHANGED <<serves, tls, cert>>
    <3>1. tls[r].cert \in Path /\ tls[r].key \in Path /\ step[r] \in Loading
      BY <1>6 DEF ReadCA, TypeInv, Named, Loading
    <3> QED
      BY <1>6, <1>t, <2>3, <3>1, ReaderTypes DEF ReadCA
  <2> QED
    BY <1>6, <2>1, <2>2, <2>3 DEF ReadCA
<1>7. ASSUME NEW c \in Conn, Connect(c) PROVE TypeInv'
  <2>1. PICK to \in {"config", "open"} : Move(c, to)
    BY <1>7 DEF Connect
  <2>2. to \in Step /\ since' \in [Reader -> 1 .. Now]
    BY <1>7, <1>t, HeldType DEF Connect, Step
  <2>3. TypeOK'
    BY <1>7, <1>t, <2>1, <2>2, Moved, SameFiles DEF Connect
  <2>4. Modes' /\ Named'
    BY <1>7, <2>1, <2>2, Moved DEF Connect, TypeInv, Modes, Named, Loading
  <2> QED
    BY <2>3, <2>4 DEF TypeInv
<1>8. ASSUME NEW c \in Conn, Close(c) PROVE TypeInv'
  <2>1. NoTls \in Tls
    BY DEF NoTls, Tls
  <2>2. "idle" \in Step /\ tls' \in [Reader -> Tls] /\ cert' \in [Reader -> Pair \cup {"missing"}]
        /\ \A q \in Reader \ {c} : tls'[q] = tls[q]
    BY <1>8, <1>t, <2>1 DEF Close, Step
  <2>3. TypeOK'
    BY <1>8, <1>t, <2>2, Moved, SameFiles DEF Close
  <2>4. step'[c] = "idle" /\ \A q \in Reader \ {c} : step'[q] = step[q]
    BY <1>8, <2>2, Moved DEF Close
  <2>5. Modes'
    BY <1>8, <2>4 DEF Close, TypeInv, Modes
  <2>6. Named'
    BY <2>2, <2>4 DEF TypeInv, Named, Loading
  <2> QED
    BY <2>3, <2>5, <2>6 DEF TypeInv
<1>9. ASSUME NEW c \in Conn, NEW cred \in Credential, Arrive(c, cred) PROVE TypeInv'
  <2>1. came' \in [Conn -> 1 .. Now] /\ request' \in [Conn -> Credential \cup {NoRequest}]
    BY <1>9, <1>t, HeldType DEF Arrive
  <2>2. TypeOK'
    BY <1>9, <1>t, <2>1, SameFiles DEF Arrive
  <2>3. \A d \in Conn \ {c} : request'[d] = request[d]
    BY <1>9, <1>t DEF Arrive
  <2>4. request'[c] # NoRequest
    BY <1>9, <1>t, WebAssumption DEF Arrive
  <2>5. Modes' /\ Named'
    BY <1>9, <2>3, <2>4 DEF Arrive, TypeInv, Modes, Named
  <2> QED
    BY <2>2, <2>5 DEF TypeInv
<1>10. ASSUME NEW c \in Conn, Authenticate(c) PROVE TypeInv'
  <2> DEFINE a == IF serves = "bare" THEN 200 ELSE Judged(c)
  <2>0. a \in Status
    BY DEF Judged, Judge, Status
  <2>1. answer' = [answer EXCEPT ![c] = a]
    BY <1>10 DEF Authenticate
  <2> HIDE DEF a
  <2>2. TypeOK'
    BY <1>10, <1>t, <2>0, <2>1, SameFiles DEF Authenticate
  <2>3. Modes' /\ Named'
    BY <1>10, <1>t, <2>1 DEF Authenticate, TypeInv, Modes, Named
  <2> QED
    BY <2>2, <2>3 DEF TypeInv
<1>11. ASSUME NEW c \in Conn, Answered(c) PROVE TypeInv'
  <2>1. answer' \in [Conn -> Status] /\ request' \in [Conn -> Credential \cup {NoRequest}]
    BY <1>11, <1>t DEF Answered, Status
  <2>2. TypeOK'
    BY <1>11, <1>t, <2>1, SameFiles DEF Answered
  <2>3. Modes' /\ Named'
    BY <1>11, <1>t DEF Answered, TypeInv, Modes, Named
  <2> QED
    BY <2>2, <2>3 DEF TypeInv
<1>12. CASE UNCHANGED vars
    BY <1>12 DEF vars, TypeInv, TypeOK, Modes, Named, Now
<1> QED
    BY <1>1, <1>2, <1>3, <1>4, <1>5, <1>6, <1>7, <1>8, <1>9, <1>10, <1>11, <1>12
    DEF Next, Read, Exited

(* The state stays what its types say, whatever the files come to hold.  *)
THEOREM WebTypes == Spec => []TypeOK
<1>1. TypeInv => TypeOK
    BY DEF TypeInv
<1> QED
    BY <1>1, TypeInit, TypeStep, PTL DEF Spec

-----------------------------------------------------------------------------
(* A reader whose configuration is in use.  *)
Ready(r) == serves = "https" /\ (r = "main" \/ step[r] = "open")

FromConfig(r) ==
    \E v \in since[r] .. Now : history[v].file # Torn /\ history[v].file.tls = tls[r]

FromCert(r) == \E v \in since[r] .. Now : history[v].at[tls[r].cert] = cert[r]

FromKey(r) == \E v \in since[r] .. Now : history[v].at[tls[r].key] = cert[r]

Sound(r) == tls[r].auth # "Junk" /\ (tls[r].ca # "" => tls[r].auth \in Policies)

(***************************************************************************)
(* What a reader has found so far was on disk since it began; and if the   *)
(* files have not been edited since, it is what they hold.                 *)
(***************************************************************************)
Found(r) ==
    /\ step[r] \in Loading \/ Ready(r) => FromConfig(r)
    /\ step[r] \in {"key", "ca", "key again"} \/ Ready(r) => FromCert(r) /\ cert[r] # "missing"
    /\ step[r] = "ca" \/ Ready(r) => FromKey(r)
    /\ step[r] \in {"cert again", "key again"} \/ Ready(r) => Sound(r)

Undisturbed(r) ==
    since[r] = Now =>
        /\ step[r] \in Loading => Held.file # Torn /\ Held.file.tls = tls[r]
        /\ step[r] \in {"key", "key again"} => cert[r] = Held.at[tls[r].cert]
        /\ step[r] = "failed" => ~ Usable(r, Held)

Checked ==
    step["main"] \in Loading \cup {"config"} \/ serves \in {"plain", "https"} =>
        UsersValid(history[since["main"]])

ReadInv ==
    /\ TypeInv /\ Checked
    /\ \A r \in Reader : Found(r) /\ Undisturbed(r)

-----------------------------------------------------------------------------
(* A reader that a step leaves alone.  *)
LEMMA LeftAlone ==
    ASSUME ReadInv, NEW r \in Reader, UNCHANGED <<history, serves>>,
           step'[r] = step[r], since'[r] = since[r], tls'[r] = tls[r], cert'[r] = cert[r]
    PROVE  Found(r)' /\ Undisturbed(r)'
<1>1. Found(r) /\ Undisturbed(r)
    BY DEF ReadInv
<1>2. Ready(r)' <=> Ready(r)
    BY DEF Ready
<1>3. FromConfig(r)' <=> FromConfig(r)
    BY DEF FromConfig, Now
<1>4. FromCert(r)' <=> FromCert(r)
    BY DEF FromCert, Now
<1>5. FromKey(r)' <=> FromKey(r)
    BY DEF FromKey, Now
<1>6. Sound(r)' <=> Sound(r)
    BY DEF Sound
<1>7. Found(r)'
    BY <1>1, <1>2, <1>3, <1>4, <1>5, <1>6 DEF Found
<1>8. Undisturbed(r)'
    BY <1>1 DEF Undisturbed, Now, Held
<1> QED
    BY <1>7, <1>8

(* A reader that has nothing to do.  *)
LEMMA AtRest ==
    ASSUME NEW r \in Reader, step[r] \in {"idle", "config", "open", "serving", "listen"}, ~ Ready(r)
    PROVE  Found(r) /\ Undisturbed(r)
BY DEF Found, Undisturbed, Loading

LEMMA ReadInit == Init => ReadInv
<1> SUFFICES ASSUME Init PROVE ReadInv
    OBVIOUS
<1>1. \A r \in Reader : step[r] \in {"listen", "idle"} /\ ~ Ready(r)
    BY DEF Init, Ready
<1>2. \A r \in Reader : Found(r) /\ Undisturbed(r)
    BY <1>1, AtRest
<1>3. Checked
    BY MainReads DEF Init, Checked, Loading
<1> QED
    BY <1>2, <1>3, TypeInit DEF ReadInv

LEMMA Begun ==
    ASSUME TypeInv, NEW r \in Reader
    PROVE  since[r] \in Nat \ {0} /\ since[r] <= Now /\ Now \in since[r] .. Now /\ Now \in Nat
<1>1. since[r] \in 1 .. Now /\ Now \in Nat
    BY HeldType DEF TypeInv, TypeOK
<1> QED
    BY <1>1

(* An edit leaves what has been on disk.  *)
LEMMA EditKeeps ==
    ASSUME ReadInv, Edit
    PROVE  /\ Now' = Now + 1 /\ Now \in Nat
           /\ \A v \in 1 .. Now : history'[v] = history[v]
<1>1. PICK d \in Disks : history' = Append(history, d)
    BY DEF Edit
<1>2. history \in Seq(Disks)
    BY DEF ReadInv, TypeInv, TypeOK
<1> QED
    BY <1>1, <1>2 DEF Now

LEMMA ReadEdit ==
    ASSUME ReadInv, Edit, TypeInv' PROVE ReadInv'
<1>1. ASSUME NEW r \in Reader PROVE Found(r)' /\ Undisturbed(r)'
  <2>1. /\ since[r] \in Nat \ {0} /\ since[r] <= Now /\ Now \in Nat /\ Now' = Now + 1
        /\ \A v \in 1 .. Now : history'[v] = history[v]
    BY Begun, EditKeeps DEF ReadInv
  <2>2. \A v \in since[r] .. Now : v \in since[r] .. Now' /\ history'[v] = history[v]
    BY <2>1
  <2>3. UNCHANGED <<step, since, tls, cert, serves>>
    BY DEF Edit
  <2>4. FromConfig(r) => FromConfig(r)'
    BY <2>2, <2>3 DEF FromConfig
  <2>5. FromCert(r) => FromCert(r)'
    BY <2>2, <2>3 DEF FromCert
  <2>6. FromKey(r) => FromKey(r)'
    BY <2>2, <2>3 DEF FromKey
  <2>7. Found(r)'
    BY <2>3, <2>4, <2>5, <2>6 DEF ReadInv, Found, Ready, Sound
  <2>8. since'[r] # Now'
    BY <2>1, <2>3
  <2>9. Undisturbed(r)'
    BY <2>8 DEF Undisturbed
  <2> QED
    BY <2>7, <2>9
<1>2. Checked'
  <2>1. since["main"] \in 1 .. Now
    BY MainReads, Begun DEF ReadInv
  <2> QED
    BY <2>1, EditKeeps DEF Edit, ReadInv, Checked
<1> QED
    BY <1>1, <1>2 DEF ReadInv

(* A step of one reader that leaves the server as it is.  *)
LEMMA OneReads ==
    ASSUME ReadInv, TypeInv', NEW r \in Reader, UNCHANGED <<history, serves, since>>,
           \A q \in Reader \ {r} :
               step'[q] = step[q] /\ tls'[q] = tls[q] /\ cert'[q] = cert[q],
           r = "main" /\ step'[r] \in Loading \cup {"config"} =>
               step[r] \in Loading \cup {"config"},
           Found(r)', Undisturbed(r)'
    PROVE  ReadInv'
<1>1. \A q \in Reader : Found(q)' /\ Undisturbed(q)'
    BY LeftAlone
<1>2. Checked'
    BY MainReads DEF ReadInv, Checked
<1> QED
    BY <1>1, <1>2 DEF ReadInv

(* A reader that finds the files unusable, if they are what they were.  *)
LEMMA ReadFails ==
    ASSUME ReadInv, TypeInv', NEW r \in Reader, Fail(r), step[r] \in Loading \cup {"config"},
           UNCHANGED <<history, since>>,
           since[r] = Now => ~ Usable(r, Held)
    PROVE  ReadInv'
<1>1. step'[r] = "failed" /\ \A q \in Reader \ {r} : step'[q] = step[q]
    BY Moved DEF Fail, ReadInv, Step
<1>2. ~ Ready(r)'
  <2>1. r = "main" => serves = "no"
    BY MainReads DEF ReadInv, TypeInv, Modes, Loading
  <2> QED
    BY <1>1, <2>1 DEF Fail, Ready
<1>3. Found(r)'
    BY <1>1, <1>2 DEF Found, Loading
<1>4. Undisturbed(r)'
    BY <1>1 DEF Undisturbed, Loading, Now, Held, Usable, UsersValid, TlsUsable
<1> QED
    BY <1>1, <1>3, <1>4, OneReads DEF Fail, Loading

(* Main goes to serve: no connection is there yet.  *)
LEMMA MainReady ==
    ASSUME ReadInv, TypeInv', NEW mode \in {"bare", "plain", "https"}, Serve(mode),
           UNCHANGED <<history, tls, cert>>, UNCHANGED since, serves = "no",
           mode # "bare" => UsersValid(history[since["main"]]),
           mode = "https" => /\ FromConfig("main") /\ FromCert("main") /\ FromKey("main")
                             /\ cert["main"] # "missing" /\ Sound("main")
    PROVE  ReadInv'
<1>1. step'["main"] = "serving" /\ serves' = mode
      /\ \A c \in Conn : step'[c] = step[c]
  <2>1. "serving" \in Step /\ Move("main", "serving")
    BY DEF Step, Serve
  <2> QED
    BY <2>1, MainReads, Moved DEF Serve, ReadInv
<1>2. \A c \in Conn : step[c] = "idle"
    BY DEF ReadInv, TypeInv, Modes
<1>3. \A c \in Conn : Found(c)' /\ Undisturbed(c)'
    BY <1>1, <1>2, MainReads DEF Found, Undisturbed, Ready, Loading
<1>4. Undisturbed("main")'
    BY <1>1 DEF Undisturbed, Loading
<1>5. Found("main")'
  <2>1. CASE mode # "https"
    BY <1>1, <2>1 DEF Found, Ready, Loading
  <2>2. CASE mode = "https"
    <3>1. FromConfig("main")' /\ FromCert("main")' /\ FromKey("main")' /\ Sound("main")'
      BY <2>2 DEF FromConfig, FromCert, FromKey, Sound, Now
    <3> QED
      BY <1>1, <2>2, <3>1 DEF Found
  <2> QED
    BY <2>1, <2>2
<1>6. Checked'
    BY <1>1 DEF Checked, Loading
<1> QED
    BY <1>3, <1>4, <1>5, <1>6 DEF ReadInv, Reader

-----------------------------------------------------------------------------
LEMMA NoTlsNames == NoTls.cert = "" /\ NoTls.key = ""
BY DEF NoTls

(* A reader that has found names in an unedited file knows what is usable.  *)
LEMMA UsableTls ==
    ASSUME ReadInv, NEW r \in Reader, step[r] \in Loading, since[r] = Now, Usable(r, Held)
    PROVE  /\ Held.at[tls[r].cert] = Held.at[tls[r].key] /\ Held.at[tls[r].cert] # "missing"
           /\ tls[r].auth # "Junk"
           /\ tls[r].ca # "" => tls[r].auth \in Policies /\ Held.at[tls[r].ca] # "missing"
<1>1. Held.file.tls = tls[r] /\ tls[r].cert \in Path
    BY DEF ReadInv, Undisturbed, TypeInv, Named
<1>2. "" \notin Path
    BY WebAssumption
<1>3. Held.file.tls # NoTls
    BY <1>1, <1>2, NoTlsNames
<1>4. TlsUsable(Held)
    BY <1>3 DEF Usable
<1> QED
    BY <1>1, <1>4 DEF TlsUsable

LEMMA ReadStep == ReadInv /\ [Next]_vars => ReadInv'
<1> SUFFICES ASSUME ReadInv, [Next]_vars PROVE ReadInv'
    OBVIOUS
<1> USE MainReads
<1>0. TypeInv /\ TypeInv'
    BY TypeStep DEF ReadInv
<1>t. /\ tls \in [Reader -> Tls] /\ cert \in [Reader -> Pair \cup {"missing"}]
      /\ since \in [Reader -> 1 .. Now]
    BY <1>0 DEF TypeInv, TypeOK
<1>1. CASE Edit
    BY <1>0, <1>1, ReadEdit
<1>2. CASE Listen
  <2>1. CASE Serve("bare") /\ UNCHANGED since
    <3>1. serves = "no" /\ UNCHANGED <<history, tls, cert>>
      BY <1>0, <1>2 DEF Listen, TypeInv, Modes
    <3> QED
      BY <1>0, <2>1, <3>1, MainReady
  <2>2. ASSUME NEW to \in {"config", "failed"}, Move("main", to), UNCHANGED serves,
               since' = [since EXCEPT !["main"] = Now], to = "config" <=> UsersValid(Held)
        PROVE  ReadInv'
    <3>1. /\ to \in Step /\ step'["main"] = to
          /\ \A q \in Reader \ {"main"} : step'[q] = step[q] /\ since'[q] = since[q]
          /\ since'["main"] = Now
      BY <1>0, <1>t, <2>2, Moved DEF Step
    <3>2. UNCHANGED <<history, tls, cert>>
      BY <1>2 DEF Listen
    <3>3. \A q \in Reader \ {"main"} : Found(q)' /\ Undisturbed(q)'
      BY <2>2, <3>1, <3>2, LeftAlone
    <3>4. serves = "no"
      BY <1>0, <1>2 DEF Listen, TypeInv, Modes
    <3>5. Found("main")'
      BY <2>2, <3>1, <3>4 DEF Found, Ready, Loading
    <3>6. Undisturbed("main")'
      BY <2>2, <3>1, <3>2 DEF Undisturbed, Loading, Usable, Now, Held, UsersValid
    <3>7. Checked'
      BY <2>2, <3>1, <3>2, <3>4 DEF Checked, Loading, Held, Now
    <3> QED
      BY <1>0, <3>3, <3>5, <3>6, <3>7 DEF ReadInv
  <2> QED
    BY <1>2, <2>1, <2>2 DEF Listen
<1>3. ASSUME NEW r \in Reader, ReadConfig(r) PROVE ReadInv'
  <2>0. UNCHANGED <<history, since>> /\ step[r] = "config"
    BY <1>3 DEF ReadConfig
  <2>1. ASSUME Fail(r),
               \/ Held.file = Torn
               \/ Held.file.tls = NoTls /\ r # "main"
               \/ Held.file.tls # NoTls /\ "" \in {Held.file.tls.cert, Held.file.tls.key}
        PROVE  ReadInv'
    <3>1. Held.file # Torn /\ Held.file.tls = NoTls => "" \in {Held.file.tls.cert, Held.file.tls.key}
      BY NoTlsNames
    <3>2. ~ Usable(r, Held)
      BY <2>1, <3>1 DEF Usable, TlsUsable
    <3> QED
      BY <1>0, <2>0, <2>1, <3>2, ReadFails DEF Loading
  <2>2. CASE r = "main" /\ Serve("plain") /\ UNCHANGED <<tls, cert>>
    <3>1. serves = "no" /\ UsersValid(history[since["main"]])
      BY <1>0, <2>0, <2>2 DEF TypeInv, Modes, ReadInv, Checked
    <3> QED
      BY <1>0, <2>0, <2>2, <3>1, MainReady
  <2>3. CASE /\ Held.file # Torn /\ "" \notin {Held.file.tls.cert, Held.file.tls.key}
             /\ tls' = [tls EXCEPT ![r] = Held.file.tls]
             /\ Move(r, "cert") /\ UNCHANGED <<serves, cert>>
    <3>1. /\ step'[r] = "cert" /\ \A q \in Reader \ {r} : step'[q] = step[q] /\ tls'[q] = tls[q]
          /\ tls'[r] = Held.file.tls
      BY <1>0, <1>t, <2>3, Moved DEF Step
    <3>2. ~ Ready(r)'
      BY <1>0, <2>0, <2>3, <3>1 DEF Ready, TypeInv, Modes
    <3>3. FromConfig(r)'
      BY <1>0, <2>0, <2>3, <3>1, Begun DEF FromConfig, Held, Now
    <3>4. Found(r)'
      BY <3>1, <3>2, <3>3 DEF Found
    <3>5. Undisturbed(r)'
      BY <2>0, <2>3, <3>1 DEF Undisturbed, Held, Now
    <3> QED
      BY <1>0, <2>0, <2>3, <3>1, <3>4, <3>5, OneReads
  <2> QED
    BY <1>3, <2>1, <2>2, <2>3 DEF ReadConfig
<1>4. ASSUME NEW r \in Reader, ReadCert(r) PROVE ReadInv'
  <2>0. UNCHANGED <<history, since>> /\ step[r] \in {"cert", "cert again"} /\ step[r] \in Loading
    BY <1>4 DEF ReadCert, Loading
  <2>i. Found(r) /\ Undisturbed(r)
    BY DEF ReadInv
  <2>1. CASE Held.at[tls[r].cert] = "missing" /\ Fail(r)
    <3>1. since[r] = Now => ~ Usable(r, Held)
      BY <2>0, <2>1, UsableTls
    <3> QED
      BY <1>0, <2>0, <2>1, <3>1, ReadFails
  <2>2. CASE /\ Held.at[tls[r].cert] # "missing"
             /\ cert' = [cert EXCEPT ![r] = Held.at[tls[r].cert]]
             /\ Move(r, IF step[r] = "cert" THEN "key" ELSE "key again")
             /\ UNCHANGED <<serves, tls>>
    <3>1. /\ step'[r] \in {"key", "key again"} /\ (step'[r] = "key again" => step[r] = "cert again")
          /\ \A q \in Reader \ {r} : step'[q] = step[q] /\ cert'[q] = cert[q]
          /\ cert'[r] = Held.at[tls[r].cert]
      BY <1>0, <1>t, <2>0, <2>2, Moved DEF Step
    <3>2. ~ Ready(r)'
      BY <1>0, <2>0, <2>2, <3>1 DEF Ready, TypeInv, Modes
    <3>3. FromConfig(r)' /\ FromCert(r)' /\ (Sound(r)' <=> Sound(r))
      <4>1. FromConfig(r)
        BY <2>0, <2>i DEF Found
      <4> QED
        BY <1>0, <2>0, <2>2, <3>1, <4>1, Begun DEF FromConfig, FromCert, Sound, Held, Now
    <3>4. Found(r)'
      BY <2>2, <2>i, <3>1, <3>2, <3>3 DEF Found, Loading
    <3>5. Undisturbed(r)'
      BY <2>0, <2>2, <2>i, <3>1 DEF Undisturbed, Held, Now
    <3> QED
      BY <1>0, <2>0, <2>2, <3>1, <3>4, <3>5, OneReads
  <2> QED
    BY <1>4, <2>1, <2>2 DEF ReadCert
<1>5. ASSUME NEW r \in Reader, ReadKey(r) PROVE ReadInv'
  <2>0. UNCHANGED <<history, since>> /\ step[r] \in {"key", "key again"} /\ step[r] \in Loading
    BY <1>5 DEF ReadKey, Loading
  <2>i. Found(r) /\ Undisturbed(r)
    BY DEF ReadInv
  <2>1. CASE ~ Fits(r) /\ Fail(r)
    <3>1. since[r] = Now => ~ Usable(r, Held)
      <4> SUFFICES ASSUME since[r] = Now, Usable(r, Held), step[r] \in {"key", "key again"}
                   PROVE  Fits(r)
        BY <2>0, <2>1
      <4>1. cert[r] = Held.at[tls[r].cert]
        BY <2>i DEF Undisturbed
      <4> QED
        BY <2>0, <4>1, UsableTls DEF Fits
    <3> QED
      BY <1>0, <2>0, <2>1, <3>1, ReadFails
  <2>2. CASE /\ Fits(r) /\ Move(r, IF step[r] = "key" THEN "ca" ELSE "open")
             /\ UNCHANGED <<serves, tls, cert>>
    <3>1. /\ step'[r] = (IF step[r] = "key" THEN "ca" ELSE "open")
          /\ \A q \in Reader \ {r} : step'[q] = step[q]
      BY <1>0, <2>0, <2>2, Moved DEF Step
    <3>2. FromKey(r)'
      BY <1>0, <2>0, <2>2, Begun DEF FromKey, Fits, Held, Now
    <3>3. FromConfig(r)' /\ FromCert(r)' /\ cert'[r] # "missing" /\ (Sound(r)' <=> Sound(r))
      <4>1. FromConfig(r) /\ FromCert(r) /\ cert[r] # "missing"
        BY <2>0, <2>i DEF Found
      <4> QED
        BY <2>0, <2>2, <4>1 DEF FromConfig, FromCert, Sound, Now
    <3>4. Ready(r)' => step[r] = "key again"
      BY <1>0, <2>0, <2>2, <3>1 DEF Ready, TypeInv, Modes
    <3>5. Found(r)'
      BY <2>i, <3>1, <3>2, <3>3, <3>4 DEF Found, Loading
    <3>6. Undisturbed(r)'
      BY <2>0, <2>2, <2>i, <3>1 DEF Undisturbed, Held, Now, Loading
    <3> QED
      BY <1>0, <2>0, <2>2, <3>1, <3>5, <3>6, OneReads DEF Loading
  <2> QED
    BY <1>5, <2>1, <2>2 DEF ReadKey
<1>6. ASSUME NEW r \in Reader, ReadCA(r) PROVE ReadInv'
  <2>0. UNCHANGED <<history, since>> /\ step[r] = "ca" /\ step[r] \in Loading
    BY <1>6 DEF ReadCA, Loading
  <2>i. Found(r) /\ Undisturbed(r)
    BY DEF ReadInv
  <2>f. FromConfig(r) /\ FromCert(r) /\ FromKey(r) /\ cert[r] # "missing"
    BY <2>0, <2>i DEF Found
  <2> DEFINE ok == (tls[r].ca # "" => Held.at[tls[r].ca] # "missing") /\ AuthOk(tls[r])
  <2>1. CASE ~ ok /\ Fail(r)
    <3>1. since[r] = Now => ~ Usable(r, Held)
      BY <2>0, <2>1, UsableTls DEF AuthOk
    <3> QED
      BY <1>0, <2>0, <2>1, <3>1, ReadFails
  <2>2. CASE ok /\ r = "main" /\ Serve("https") /\ UNCHANGED <<tls, cert>>
    <3>1. serves = "no" /\ UsersValid(history[since["main"]])
      BY <1>0, <2>0, <2>2 DEF TypeInv, Modes, ReadInv, Checked
    <3>2. Sound("main")
      BY <2>2 DEF Sound, AuthOk
    <3> QED
      BY <1>0, <2>0, <2>2, <2>f, <3>1, <3>2, MainReady
  <2>3. CASE ok /\ r # "main" /\ Move(r, "cert again") /\ UNCHANGED <<serves, tls, cert>>
    <3>1. step'[r] = "cert again" /\ \A q \in Reader \ {r} : step'[q] = step[q]
      BY <1>0, <2>3, Moved DEF Step
    <3>2. FromConfig(r)' /\ Sound(r)'
      BY <2>0, <2>3, <2>f DEF FromConfig, Sound, AuthOk, Now
    <3>3. ~ Ready(r)'
      BY <2>3, <3>1 DEF Ready
    <3>4. Found(r)'
      BY <3>1, <3>2, <3>3 DEF Found
    <3>5. Undisturbed(r)'
      BY <2>0, <2>3, <2>i, <3>1 DEF Undisturbed, Held, Now, Loading
    <3> QED
      BY <1>0, <2>0, <2>3, <3>1, <3>4, <3>5, OneReads
  <2> QED
    BY <1>6, <2>1, <2>2, <2>3 DEF ReadCA
<1>7. ASSUME NEW c \in Conn, Connect(c) PROVE ReadInv'
  <2>1. /\ step'[c] = (IF serves = "https" THEN "config" ELSE "open")
        /\ \A q \in Reader \ {c} : step'[q] = step[q] /\ since'[q] = since[q]
        /\ UNCHANGED <<history, serves, tls, cert>>
    BY <1>0, <1>7, <1>t, Moved DEF Connect, Step
  <2>2. \A q \in Reader \ {c} : Found(q)' /\ Undisturbed(q)'
    BY <2>1, LeftAlone
  <2>3. Found(c)' /\ Undisturbed(c)'
    BY <2>1 DEF Found, Undisturbed, Ready, Loading
  <2>4. Checked'
    BY <2>1 DEF ReadInv, Checked
  <2> QED
    BY <1>0, <2>2, <2>3, <2>4 DEF ReadInv
<1>8. ASSUME NEW c \in Conn, Close(c) PROVE ReadInv'
  <2>1. /\ step'[c] = "idle" /\ UNCHANGED <<history, serves, since>>
        /\ \A q \in Reader \ {c} : step'[q] = step[q] /\ tls'[q] = tls[q] /\ cert'[q] = cert[q]
    BY <1>0, <1>8, <1>t, Moved DEF Close, Step
  <2>2. Found(c)' /\ Undisturbed(c)'
    BY <2>1 DEF Found, Undisturbed, Ready, Loading
  <2> QED
    BY <1>0, <2>1, <2>2, OneReads
<1>9. CASE UNCHANGED <<history, serves, step, since, tls, cert>>
  <2>1. \A r \in Reader : Found(r)' /\ Undisturbed(r)'
    BY <1>9, LeftAlone
  <2>2. Checked'
    BY <1>9 DEF ReadInv, Checked
  <2> QED
    BY <1>0, <2>1, <2>2 DEF ReadInv
<1> QED
    BY <1>1, <1>2, <1>3, <1>4, <1>5, <1>6, <1>7, <1>8, <1>9
    DEF Next, Read, Exited, Arrive, Authenticate, Answered, vars

(***************************************************************************)
(* The policy and the certificate of every connection were on disk since   *)
(* it began, and main's since it began: https/README.md:13, for any edits. *)
(***************************************************************************)
THEOREM HandshakesFresh == Spec => []FreshHandshake
<1>1. ReadInv => FreshHandshake
  <2> SUFFICES ASSUME ReadInv, serves = "https"
               PROVE  /\ ReadSince("main") /\ UsersValid(history[since["main"]])
                      /\ \A c \in Conn : step[c] = "open" => ReadSince(c)
      BY DEF FreshHandshake
  <2>1. ASSUME NEW r \in Reader, Ready(r) PROVE ReadSince(r)
    <3>1. FromConfig(r) /\ FromCert(r) /\ FromKey(r) /\ cert[r] # "missing" /\ Sound(r)
      BY <2>1 DEF ReadInv, Found
    <3> QED
      BY <3>1 DEF ReadSince, FromConfig, FromCert, FromKey, Sound
  <2> QED
    BY <2>1, MainReads DEF Ready, ReadInv, Checked
<1> QED
    BY <1>1, ReadInit, ReadStep, PTL DEF Spec

(***************************************************************************)
(* Listen and the handshakes fail only for a cause in the files, whatever  *)
(* the order in which they and the edits come.                             *)
(***************************************************************************)
THEOREM FailuresCaused == Spec => []NoFailureWithoutCause
<1>1. ReadInv => NoFailureWithoutCause
  <2> SUFFICES ASSUME ReadInv, NEW r \in Reader, step[r] = "failed"
               PROVE  since[r] < Now \/ ~ Usable(r, history[since[r]])
      BY DEF NoFailureWithoutCause
  <2>1. since[r] \in Nat /\ Now \in Nat /\ since[r] <= Now
    BY Begun DEF ReadInv
  <2>2. since[r] = Now => ~ Usable(r, history[since[r]])
    BY DEF ReadInv, Undisturbed, Held
  <2> QED
    BY <2>1, <2>2
<1> QED
    BY <1>1, ReadInit, ReadStep, PTL DEF Spec

-----------------------------------------------------------------------------
(* An answer is of the file as it was at a moment of the request.  *)
LEMMA JudgeIsAdmits ==
    ASSUME NEW d, NEW cred
    PROVE  Judge(d, cred) = IF d.file = Torn THEN 500
                            ELSE IF Admits(d, cred) THEN 200
                            ELSE IF cred = NoCredential THEN 401 ELSE 403
<1>1. Judge(d, cred) = IF d.file = Torn THEN 500
                       ELSE IF DOMAIN d.file.users = {} THEN 200
                       ELSE IF cred = NoCredential THEN 401
                       ELSE IF Known(d.file.users, cred) THEN 200 ELSE 403
    BY DEF Judge
<1> QED
    BY <1>1 DEF Admits, Known

JudgeInv == TypeInv /\ FreshJudgement

LEMMA JudgeStep == JudgeInv /\ [Next]_vars => JudgeInv'
<1> SUFFICES ASSUME JudgeInv, [Next]_vars PROVE JudgeInv'
    OBVIOUS
<1>0. TypeInv /\ TypeInv' /\ came \in [Conn -> 1 .. Now] /\ answer \in [Conn -> Status]
    BY TypeStep DEF JudgeInv, TypeInv, TypeOK
<1> SUFFICES ASSUME NEW c \in Conn, answer'[c] # 0, serves' # "bare"
             PROVE  \E v \in came'[c] .. Now' :
                       answer'[c] = IF history'[v].file = Torn THEN 500
                                    ELSE IF Admits(history'[v], request'[c]) THEN 200
                                    ELSE IF request'[c] = NoCredential THEN 401 ELSE 403
    BY <1>0 DEF JudgeInv, FreshJudgement
<1>1. Now \in Nat /\ came[c] \in Nat /\ came[c] >= 1 /\ came[c] <= Now
    BY <1>0, HeldType
<1>2. serves = "bare" => serves' = "bare"
  <2>1. serves = "bare" => step["main"] = "serving"
    BY <1>0 DEF TypeInv, Modes
  <2> QED
    BY <2>1 DEF Next, vars, Edit, Listen, Exited, Read, ReadConfig, ReadCert, ReadKey, ReadCA,
                Connect, Close, Arrive, Authenticate, Answered, Fail, Serve
<1>3. ASSUME answer[c] # 0
      PROVE  \E v \in came[c] .. Now :
                answer[c] = IF history[v].file = Torn THEN 500
                            ELSE IF Admits(history[v], request[c]) THEN 200
                            ELSE IF request[c] = NoCredential THEN 401 ELSE 403
    BY <1>2, <1>3 DEF JudgeInv, FreshJudgement
<1>4. CASE Edit
  <2>1. PICK d \in Disks : history' = Append(history, d)
    BY <1>4 DEF Edit
  <2>2. Now' = Now + 1 /\ \A v \in 1 .. Now : history'[v] = history[v]
    BY <1>0, <2>1 DEF Now, TypeInv, TypeOK
  <2>3. UNCHANGED <<came, answer, request>>
    BY <1>4 DEF Edit
  <2>4. \A v \in came[c] .. Now : v \in came'[c] .. Now' /\ history'[v] = history[v]
    BY <1>1, <2>2, <2>3
  <2> QED
    BY <1>3, <2>3, <2>4
<1>5. CASE Authenticate(c)
  <2>1. answer'[c] = Judge(history[Now], request[c]) /\ UNCHANGED <<history, came, request>>
    BY <1>0, <1>2, <1>5 DEF Authenticate, Judged, Held
  <2>2. Now \in came'[c] .. Now' /\ Now' = Now
    BY <1>1, <2>1 DEF Now
  <2> QED
    BY <2>1, <2>2, JudgeIsAdmits
<1>6. CASE /\ UNCHANGED history
           /\ answer'[c] = answer[c] /\ came'[c] = came[c] /\ request'[c] = request[c]
    BY <1>3, <1>6 DEF Now
<1>7. ASSUME NEW d \in Conn, NEW cred \in Credential, Arrive(d, cred)
      PROVE  /\ UNCHANGED history
             /\ answer'[c] = answer[c] /\ came'[c] = came[c] /\ request'[c] = request[c]
  <2>1. d # c
    BY <1>0, <1>7 DEF Arrive, TypeInv, Modes
  <2> QED
    BY <1>0, <1>7, <2>1 DEF Arrive, TypeInv, TypeOK
<1>8. ASSUME NEW d \in Conn, Authenticate(d) \/ Answered(d), ~ Authenticate(c)
      PROVE  /\ UNCHANGED history
             /\ answer'[c] = answer[c] /\ came'[c] = came[c] /\ request'[c] = request[c]
  <2>1. d # c
    BY <1>0, <1>8 DEF Answered
  <2> QED
    BY <1>0, <1>8, <2>1 DEF Authenticate, Answered, TypeInv, TypeOK
<1>9. ASSUME \/ Listen \/ Exited \/ UNCHANGED vars
             \/ \E r \in Reader : Read(r)
             \/ \E d \in Conn : Connect(d) \/ Close(d)
      PROVE  /\ UNCHANGED history
             /\ answer'[c] = answer[c] /\ came'[c] = came[c] /\ request'[c] = request[c]
    BY <1>9 DEF vars, Listen, Exited, Read, ReadConfig, ReadCert, ReadKey, ReadCA, Connect, Close
<1> QED
    BY <1>4, <1>5, <1>6, <1>7, <1>8, <1>9 DEF Next

(***************************************************************************)
(* Every request is judged by the file as it was while the request waited, *)
(* for any number of connections, requests, users and edits.               *)
(***************************************************************************)
THEOREM JudgementsFresh == Spec => []FreshJudgement
<1>1. Init => JudgeInv
    BY TypeInit DEF Init, JudgeInv, FreshJudgement
<1>2. JudgeInv => FreshJudgement
    BY DEF JudgeInv
<1> QED
    BY <1>1, <1>2, JudgeStep, PTL DEF Spec
=============================================================================
