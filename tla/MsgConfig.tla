------------------------------ MODULE MsgConfig ------------------------------
(****************************************************************************)
(* How CMsgClient::Init and CMsgServer::Init come to their configuration:   *)
(* the constructor's values, then the items of a file in their order        *)
(* (ReadConfig_i), then the caller's arguments and the address of the       *)
(* server, and at last a TLS configuration or none.  What atoi, the name    *)
(* service, the prefix for relative paths and RtpMsgString2User make of a   *)
(* text are functions.  The last one is the library's, and the code does    *)
(* not look how it went: of a malformed text it may make some user, or it   *)
(* may leave the member as it is.                                           *)
(****************************************************************************)
EXTENDS Integers, Sequences, FiniteSets

CONSTANTS
  Texts,            \* what items and arguments may be; "" is an empty or no text
  Atoi,             \* the number atoi reads in a text
  Resolved,         \* the path a file name stands for
  Address,          \* the address a server name stands for, or ""
  Users,            \* RTP_MSG_USER
  Classless,        \* those of class 0
  UserOf,           \* the user RtpMsgString2User makes of a text, or "" if none
  MmTypes,          \* RTP_MMT_MSG_MIN .. RTP_MMT_MSG_MAX
  DefaultMmType,    \* RTP_MMT_MSG
  Names,            \* bound of the model: the names of items
  MaxItems,         \* bound of the model: the items of a file
  MaxArgs           \* bound of the model: the arguments given at once

ASSUME ConfigAssumption ==
  /\ "" \in Texts /\ Texts \subseteq STRING
  /\ Atoi \in [Texts -> Int] /\ Atoi[""] = 0
  /\ Resolved \in [Texts -> STRING]
  /\ \A t \in Texts : Resolved[t] = "" <=> t = ""
  /\ Address \in [Texts \cup {"127.0.0.1"} -> STRING]
  /\ "2-0-0" \in Users /\ "" \notin Users /\ Classless \subseteq Users
  /\ UserOf \in [Texts -> Users \cup {""}]
  /\ DefaultMmType \in MmTypes /\ MmTypes \subseteq Nat \ {0}
  /\ MaxItems \in Nat /\ MaxArgs \in Nat

\* What the value of each name is, by name.
ClientKind ==
  [msgc_mm_type |-> "mmType", msgc_server_ip |-> "name",
   msgc_server_port |-> "port", msgc_id |-> "user", msgc_password |-> "secret",
   msgc_local_ip |-> "name", msgc_handshake_timeout |-> "count",
   msgc_reconnect_interval |-> "count", msgc_redline_bytes |-> "count",
   msgc_enable_ssl |-> "flag", msgc_ssl_enable_sha1cert |-> "flag",
   msgc_ssl_cafile |-> "files", msgc_ssl_crlfile |-> "files",
   msgc_ssl_sni |-> "text", msgc_ssl_aes256 |-> "flag"]

ServerKind ==
  [msgs_mm_type |-> "mmType", msgs_hub_port |-> "port",
   msgs_password_cid1 |-> "secret", msgs_password_cid2 |-> "secret",
   msgs_password_cid255 |-> "secret", msgs_password_cidx |-> "secret",
   msgs_handshake_timeout |-> "count", msgs_redline_bytes |-> "count",
   msgs_enable_ssl |-> "flag", msgs_ssl_forced |-> "flag",
   msgs_ssl_enable_sha1cert |-> "flag", msgs_ssl_cafile |-> "files",
   msgs_ssl_crlfile |-> "files", msgs_ssl_certfile |-> "files",
   msgs_ssl_keyfile |-> "path"]

\* The constructors' values, after ReadConfig_i has dropped the lists of files.
ClientDefault ==
  [msgc_mm_type |-> DefaultMmType, msgc_server_ip |-> "127.0.0.1",
   msgc_server_port |-> 3000, msgc_id |-> "2-0-0", msgc_password |-> "test",
   msgc_local_ip |-> "0.0.0.0", msgc_handshake_timeout |-> 20,
   msgc_reconnect_interval |-> 5, msgc_redline_bytes |-> 1024000,
   msgc_enable_ssl |-> FALSE, msgc_ssl_enable_sha1cert |-> TRUE,
   msgc_ssl_cafile |-> <<>>, msgc_ssl_crlfile |-> <<>>,
   msgc_ssl_sni |-> "", msgc_ssl_aes256 |-> FALSE]

ServerDefault ==
  [msgs_mm_type |-> DefaultMmType, msgs_hub_port |-> 3000,
   msgs_password_cid1 |-> "test", msgs_password_cid2 |-> "test",
   msgs_password_cid255 |-> "test", msgs_password_cidx |-> "test",
   msgs_handshake_timeout |-> 20, msgs_redline_bytes |-> 1024000,
   msgs_enable_ssl |-> TRUE, msgs_ssl_forced |-> FALSE,
   msgs_ssl_enable_sha1cert |-> TRUE, msgs_ssl_cafile |-> <<>>,
   msgs_ssl_crlfile |-> <<>>, msgs_ssl_certfile |-> <<>>,
   msgs_ssl_keyfile |-> "server.key"]

\* The arguments of Init, by the names they override.
ClientArgs == {"msgc_mm_type", "msgc_server_ip", "msgc_server_port", "msgc_id",
               "msgc_password", "msgc_local_ip"}
ServerArgs == {"msgs_mm_type", "msgs_hub_port"}

VARIABLES
  isClient,         \* which of the two Inits runs
  file,             \* history: the items as the file has them
  args,             \* the arguments that are given
  configs,          \* the items; reading changes some of them
  i,                \* the item ReadConfig_i is at
  configInfo,       \* by name
  stage,            \* where Init is
  sslConfig         \* there is a TLS configuration

inputs == <<isClient, file, args>>
vars == <<inputs, configs, i, configInfo, stage, sslConfig>>

Items == [name : Names, value : Texts]
Kind == IF isClient THEN ClientKind ELSE ServerKind
Default == IF isClient THEN ClientDefault ELSE ServerDefault

Ports == 1 .. 65535
Shorts == 0 .. 65535            \* unsigned short

\* What a string of the configuration can be.
Strings == Texts \cup {Resolved[t] : t \in Texts}
             \cup {Address[t] : t \in DOMAIN Address}
             \cup {"127.0.0.1", "test", "0.0.0.0", "server.key"}

Legal(k) == CASE k = "mmType" -> MmTypes
              [] k = "port" -> Ports
              [] k = "count" -> Nat \ {0}
              [] k = "flag" -> BOOLEAN
              [] k = "files" -> Seq(Strings \ {""})
              [] k = "name" -> Strings \ {""}
              [] k = "user" -> Users
              [] k \in {"secret", "text", "path"} -> Strings

\* The one type invariant: whatever a file says, the values are legal.
TypeOK ==
  /\ isClient \in BOOLEAN
  /\ \A n \in DOMAIN Kind : configInfo[n] \in Legal(Kind[n])
  /\ Len(configs) = Len(file) /\ i \in 1 .. Len(file) + 1
  /\ stage \in {"read", "override", "address", "ssl", "done", "failed"}
  /\ sslConfig \in BOOLEAN

------------------------------------------------------------------------------
\* The value of a text.
Meaning(k, t) == CASE k \in {"mmType", "port", "count"} -> Atoi[t]
                   [] k = "flag" -> Atoi[t] # 0
                   [] k = "user" -> IF t = "" THEN "" ELSE UserOf[t]
                   [] k \in {"files", "path"} -> Resolved[t]
                   [] k \in {"name", "secret", "text"} -> t

\* Files of up to MaxItems items, and up to MaxArgs of the arguments.
Files == UNION {[1 .. n -> Items] : n \in 0 .. MaxItems}
ArgsOf(names) ==
  UNION {[d -> Texts] : d \in {e \in SUBSET names : Cardinality(e) <= MaxArgs}}

Init ==
  /\ isClient \in BOOLEAN
  /\ file \in Files
  /\ args \in ArgsOf(IF isClient THEN ClientArgs ELSE ServerArgs)
  /\ \A n \in DOMAIN args : Kind[n] = "port" => Atoi[args[n]] \in Shorts
  /\ configs = file
  /\ i = 1
  /\ configInfo = Default
  /\ stage = "read"
  /\ sslConfig = FALSE

------------------------------------------------------------------------------
(* ReadConfig_i, one item at a time.                                        *)

Name == configs[i].name
Text == configs[i].value

\* The loop comes to an item of one of these kinds, and goes on after it.
Reads(kinds) ==
  /\ stage = "read" /\ i <= Len(configs)
  /\ Name \in DOMAIN Kind /\ Kind[Name] \in kinds
  /\ i' = i + 1
  /\ UNCHANGED <<inputs, stage, sslConfig>>

Sets(v) == configInfo' = [configInfo EXCEPT ![Name] = v]

\* Mutant of ReadValue: the range is not checked.
ReadValueUnchecked ==
  /\ Reads({"mmType", "port", "count", "flag", "name", "user", "text"})
  /\ Sets(Meaning(Kind[Name], Text))
  /\ UNCHANGED configs

\* Numbers out of range and empty names are skipped.  A user is taken as the
\* library makes it, of class 0 too.
ReadValue ==
  /\ Reads({"mmType", "port", "count", "flag", "name", "user", "text"})
  /\ IF Meaning(Kind[Name], Text) \in Legal(Kind[Name])
     THEN Sets(Meaning(Kind[Name], Text))
     ELSE UNCHANGED configInfo
  /\ UNCHANGED configs

\* Mutant of ReadSecret: the item keeps the password.
ReadSecretKeeps ==
  /\ Reads({"secret"})
  /\ Sets(Text)
  /\ UNCHANGED configs

\* The item is wiped.
ReadSecret ==
  /\ Reads({"secret"})
  /\ Sets(Text)
  /\ configs' = [configs EXCEPT ![i].value = ""]

\* Mutant of ReadFiles: the last file replaces the ones before it.
ReadFilesLast ==
  /\ Reads({"files"})
  /\ IF Text # "" THEN Sets(<<Resolved[Text]>>) ELSE UNCHANGED configInfo
  /\ configs' = [configs EXCEPT ![i].value = Resolved[@]]

\* Every nonempty file is appended, with its path.
ReadFiles ==
  /\ Reads({"files"})
  /\ IF Text # "" THEN Sets(Append(configInfo[Name], Resolved[Text]))
                  ELSE UNCHANGED configInfo
  /\ configs' = [configs EXCEPT ![i].value = Resolved[@]]

ReadPath ==
  /\ Reads({"path"})
  /\ Sets(Resolved[Text])
  /\ configs' = [configs EXCEPT ![i].value = Resolved[@]]

ReadUnknown ==
  /\ stage = "read" /\ i <= Len(configs)
  /\ Name \notin DOMAIN Kind
  /\ i' = i + 1
  /\ UNCHANGED <<inputs, configs, configInfo, stage, sslConfig>>

ReadEnd ==
  /\ stage = "read" /\ i > Len(configs)
  /\ stage' = "override"
  /\ UNCHANGED <<inputs, configs, i, configInfo, sslConfig>>

------------------------------------------------------------------------------
(* The rest of Init.                                                        *)

\* An argument counts unless it is 0, empty or out of range; a user must have a
\* class.
Given(n) == /\ n \in DOMAIN args /\ args[n] # ""
            /\ Meaning(Kind[n], args[n]) \in Legal(Kind[n])
            /\ Kind[n] = "user" => UserOf[args[n]] \notin Classless

Override ==
  /\ stage = "override"
  /\ configInfo' = [n \in DOMAIN configInfo |->
                      IF Given(n) THEN Meaning(Kind[n], args[n])
                                  ELSE configInfo[n]]
  /\ stage' = IF isClient THEN "address" ELSE "ssl"
  /\ UNCHANGED <<inputs, configs, i, sslConfig>>

\* A client looks its server up once; reconnects use the address.
Resolve ==
  /\ stage = "address"
  /\ LET ip == Address[configInfo.msgc_server_ip] IN
       IF ip = "" THEN stage' = "failed" /\ UNCHANGED configInfo
       ELSE /\ configInfo' = [configInfo EXCEPT !.msgc_server_ip = ip]
            /\ stage' = "ssl"
  /\ UNCHANGED <<inputs, configs, i, sslConfig>>

ClientWantsSsl == /\ configInfo.msgc_enable_ssl
                  /\ Len(configInfo.msgc_ssl_cafile) > 0

\* Mutant of ServerWantsSsl: no look at the certificates.
ServerWantsSslUncertified == /\ configInfo.msgs_enable_ssl
                             /\ Len(configInfo.msgs_ssl_cafile) > 0

ServerWantsSsl == /\ configInfo.msgs_enable_ssl
                  /\ Len(configInfo.msgs_ssl_cafile) > 0
                  /\ Len(configInfo.msgs_ssl_certfile) > 0

\* If a TLS configuration is wanted and cannot be made, Init fails.
MakeSsl ==
  /\ stage = "ssl"
  /\ IF IF isClient THEN ClientWantsSsl ELSE ServerWantsSsl
     THEN \/ sslConfig' = TRUE /\ stage' = "done"
          \/ stage' = "failed" /\ UNCHANGED sslConfig
     ELSE stage' = "done" /\ UNCHANGED sslConfig
  /\ UNCHANGED <<inputs, configs, i, configInfo>>

Stopped == stage \in {"done", "failed"} /\ UNCHANGED vars

Next == \/ ReadValue \/ ReadSecret \/ ReadFiles \/ ReadPath \/ ReadUnknown
        \/ ReadEnd \/ Override \/ Resolve \/ MakeSsl \/ Stopped

Spec == Init /\ [][Next]_vars

------------------------------------------------------------------------------
(* Properties.                                                              *)

\* The items of the file that name n and count: a number in range, a name or a
\* file that is not empty, a text of which the library makes a user.
Counting(n) ==
  {k \in DOMAIN file :
     /\ file[k].name = n
     /\ IF Kind[n] = "files" THEN file[k].value # ""
        ELSE Meaning(Kind[n], file[k].value) \in Legal(Kind[n])}

Latest(K) == CHOOSE k \in K : \A m \in K : m <= k

\* What the file says of n, if n has one value: the last one that counts, or the
\* constructor's.
Says(n) == IF Counting(n) = {} THEN Default[n]
           ELSE Meaning(Kind[n], file[Latest(Counting(n))].value)

\* The paths in v are those of all items of n that count, in the file's order.
Lists(n, v) ==
  \E where \in [1 .. Len(v) -> Counting(n)] :
    /\ \A k \in 1 .. Len(v) : v[k] = Resolved[file[where[k]].value]
    /\ \A k, m \in 1 .. Len(v) : k < m => where[k] < where[m]
    /\ \A c \in Counting(n) : \E k \in 1 .. Len(v) : where[k] = c

\* What Init was told of n, by an argument or else by the file.
Told(n) == IF Given(n) THEN Meaning(Kind[n], args[n]) ELSE Says(n)

\* After all stages every value is the argument's if one is given, or else the
\* file's: its last legal item, all its files in their order, or the constructor's
\* value; illegal items take nothing away from legal ones before them.  The one
\* exception is an id: a malformed one does take a legal one away if the library
\* makes a user of it, of class 0 perhaps, as ReadConfig_i does not look; but it
\* never prevails over a user with a class that is given as an argument.  Only a
\* client's server is its address, not the name Init was told, and a client without
\* an address does not go on (msg_client.cpp:36-292, msg_server.cpp:33-283).
LastLegalWins ==
  /\ stage \in {"address", "ssl", "done"} =>
       \A n \in DOMAIN Kind \ {"msgc_server_ip"} :
         IF Kind[n] = "files" THEN Lists(n, configInfo[n])
                              ELSE configInfo[n] = Told(n)
  /\ isClient /\ stage \in {"ssl", "done"} =>
       /\ configInfo.msgc_server_ip = Address[Told("msgc_server_ip")]
       /\ configInfo.msgc_server_ip # ""

\* When the file has been read, the only copy of a password is in configInfo: no
\* item keeps one (msg_client.cpp:86-95, msg_server.cpp:67-110).
SecretsWiped ==
  stage # "read" => \A k \in DOMAIN configs :
    /\ configs[k].name \in DOMAIN Kind
    /\ Kind[configs[k].name] = "secret"
    => configs[k].value = ""

\* Init ends with a TLS configuration exactly if the file's last word is to
\* enable it (a server's silence will do) and the file lists a CA file, and a
\* server's a certificate; otherwise it goes on without TLS or fails
\* (msg_client.cpp:311-378, msg_server.cpp:299-370).
SslAsFiled ==
  stage = "done" =>
    (sslConfig <=> IF isClient
                   THEN /\ Says("msgc_enable_ssl")
                        /\ Counting("msgc_ssl_cafile") # {}
                   ELSE /\ Says("msgs_enable_ssl")
                        /\ Counting("msgs_ssl_cafile") # {}
                        /\ Counting("msgs_ssl_certfile") # {})
==============================================================================
