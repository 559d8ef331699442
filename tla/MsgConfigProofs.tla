--------------------------- MODULE MsgConfigProofs ---------------------------
(****************************************************************************)
(* Proofs about MsgConfig, for files of any length with any items.  The     *)
(* invariant follows the loop: the configuration is what the items before i *)
(* say, in the words of the properties.                                     *)
(****************************************************************************)
EXTENDS MsgConfig, SequenceTheorems, TLAPS

Kinds == {"mmType", "port", "count", "flag", "files", "name", "user",
          "secret", "text", "path"}
SingleKinds == Kinds \ {"files"}

ClientNames ==
  {"msgc_mm_type", "msgc_server_ip", "msgc_server_port", "msgc_id",
   "msgc_password", "msgc_local_ip", "msgc_handshake_timeout",
   "msgc_reconnect_interval", "msgc_redline_bytes", "msgc_enable_ssl",
   "msgc_ssl_enable_sha1cert", "msgc_ssl_cafile", "msgc_ssl_crlfile",
   "msgc_ssl_sni", "msgc_ssl_aes256"}

ServerNames ==
  {"msgs_mm_type", "msgs_hub_port", "msgs_password_cid1", "msgs_password_cid2",
   "msgs_password_cid255", "msgs_password_cidx", "msgs_handshake_timeout",
   "msgs_redline_bytes", "msgs_enable_ssl", "msgs_ssl_forced",
   "msgs_ssl_enable_sha1cert", "msgs_ssl_cafile", "msgs_ssl_crlfile",
   "msgs_ssl_certfile", "msgs_ssl_keyfile"}

(* Both tables have the same names, and their kinds are known.              *)
LEMMA Tables ==
  /\ DOMAIN ClientKind = ClientNames /\ DOMAIN ServerKind = ServerNames
  /\ DOMAIN ClientDefault = ClientNames /\ DOMAIN ServerDefault = ServerNames
BY DEF ClientKind, ServerKind, ClientDefault, ServerDefault, ClientNames,
       ServerNames

(* Each name of a client has one of the kinds,                              *)
LEMMA ClientKinds == \A n \in ClientNames : ClientKind[n] \in Kinds
BY DEF ClientKind, ClientNames, Kinds

(* and each of a server.                                                    *)
LEMMA ServerKinds == \A n \in ServerNames : ServerKind[n] \in Kinds
BY DEF ServerKind, ServerNames, Kinds

(* What is legal, kind by kind.                                             *)
LEMMA Legals ==
  /\ Legal("mmType") = MmTypes /\ Legal("port") = Ports
  /\ Legal("count") = Nat \ {0} /\ Legal("flag") = BOOLEAN
  /\ Legal("files") = Seq(Strings \ {""}) /\ Legal("name") = Strings \ {""}
  /\ Legal("user") = Users /\ Legal("secret") = Strings /\ Legal("text") = Strings /\ Legal("path") = Strings
BY DEF Legal

(* What a text means, kind by kind.                                         *)
LEMMA Meanings ==
  ASSUME NEW t
  PROVE  /\ Meaning("mmType", t) = Atoi[t] /\ Meaning("port", t) = Atoi[t]
         /\ Meaning("count", t) = Atoi[t] /\ Meaning("flag", t) = (Atoi[t] # 0)
         /\ Meaning("files", t) = Resolved[t] /\ Meaning("path", t) = Resolved[t]
         /\ Meaning("user", t) = IF t = "" THEN "" ELSE UserOf[t]
         /\ Meaning("name", t) = t /\ Meaning("secret", t) = t
         /\ Meaning("text", t) = t
BY DEF Meaning

(* A sequence over a set is one over a larger set.                           *)
LEMMA SeqMono ==
  ASSUME NEW S, NEW T, S \subseteq T, NEW s \in Seq(S)
  PROVE  s \in Seq(T)
OBVIOUS

(* The literals among the constructors' values.                              *)
LEMMA Literals ==
  /\ \A t \in {"test", "127.0.0.1", "0.0.0.0", "server.key"} : t \in Strings
  /\ \A t \in {"127.0.0.1", "0.0.0.0"} : t \in Strings \ {""}
  /\ "" \in Strings
  /\ DefaultMmType \in MmTypes
  /\ <<>> \in Seq(Strings \ {""})
<1>1. "" \in Strings
  BY ConfigAssumption DEF Strings
<1>2. \A t \in {"test", "127.0.0.1", "0.0.0.0", "server.key"} : t \in Strings
  BY DEF Strings
<1>3. \A t \in {"127.0.0.1", "0.0.0.0"} : t # ""
  OBVIOUS
<1>4. \A S : <<>> \in Seq(S)
  OBVIOUS
<1>5. <<>> \in Seq(Strings \ {""})
  BY <1>4
<1>6. \A t \in {"127.0.0.1", "0.0.0.0"} : t \in Strings \ {""}
  BY <1>2, <1>3
<1>. QED  BY <1>1, <1>2, <1>5, <1>6, ConfigAssumption

(* The constructors' values are legal (msg_client.h:37-60,                  *)
(* msg_server.h:35-58).                                                     *)
LEMMA ClientDefaults ==
  \A n \in ClientNames : ClientDefault[n] \in Legal(ClientKind[n])
<1>1. /\ ClientDefault["msgc_mm_type"] \in Legal(ClientKind["msgc_mm_type"])
  <2>1. /\ ClientDefault["msgc_mm_type"] = DefaultMmType
    BY SMT DEF ClientDefault
  <2>2. /\ ClientKind["msgc_mm_type"] = "mmType"
    BY SMT DEF ClientKind
  <2>3. /\ ClientDefault["msgc_mm_type"] \in MmTypes
    BY <2>1, Literals
  <2>4. Legal("mmType") = MmTypes
    BY SMT DEF Legal
  <2>. QED  BY <2>2, <2>3, <2>4, Zenon
<1>2. /\ ClientDefault["msgc_server_ip"] \in Legal(ClientKind["msgc_server_ip"])
      /\ ClientDefault["msgc_local_ip"] \in Legal(ClientKind["msgc_local_ip"])
  <2>1. /\ ClientDefault["msgc_server_ip"] = "127.0.0.1"
        /\ ClientDefault["msgc_local_ip"] = "0.0.0.0"
    BY SMT DEF ClientDefault
  <2>2. /\ ClientKind["msgc_server_ip"] = "name"
        /\ ClientKind["msgc_local_ip"] = "name"
    BY SMT DEF ClientKind
  <2>3. /\ ClientDefault["msgc_server_ip"] \in Strings \ {""}
        /\ ClientDefault["msgc_local_ip"] \in Strings \ {""}
    BY <2>1, Literals
  <2>4. Legal("name") = Strings \ {""}
    BY SMT DEF Legal
  <2>. QED  BY <2>2, <2>3, <2>4, Zenon
<1>3. /\ ClientDefault["msgc_server_port"] \in Legal(ClientKind["msgc_server_port"])
  <2>1. /\ ClientDefault["msgc_server_port"] = 3000
    BY SMT DEF ClientDefault
  <2>2. /\ ClientKind["msgc_server_port"] = "port"
    BY SMT DEF ClientKind
  <2>3. /\ ClientDefault["msgc_server_port"] \in Ports
    BY <2>1, SMT DEF Ports
  <2>4. Legal("port") = Ports
    BY SMT DEF Legal
  <2>. QED  BY <2>2, <2>3, <2>4, Zenon
<1>4. /\ ClientDefault["msgc_password"] \in Legal(ClientKind["msgc_password"])
  <2>1. /\ ClientDefault["msgc_password"] = "test"
    BY SMT DEF ClientDefault
  <2>2. /\ ClientKind["msgc_password"] = "secret"
    BY SMT DEF ClientKind
  <2>3. /\ ClientDefault["msgc_password"] \in Strings
    BY <2>1, Literals
  <2>4. Legal("secret") = Strings
    BY SMT DEF Legal
  <2>. QED  BY <2>2, <2>3, <2>4, Zenon
<1>5. /\ ClientDefault["msgc_handshake_timeout"] \in Legal(ClientKind["msgc_handshake_timeout"])
      /\ ClientDefault["msgc_reconnect_interval"] \in Legal(ClientKind["msgc_reconnect_interval"])
      /\ ClientDefault["msgc_redline_bytes"] \in Legal(ClientKind["msgc_redline_bytes"])
  <2>1. /\ ClientDefault["msgc_handshake_timeout"] = 20
        /\ ClientDefault["msgc_reconnect_interval"] = 5
        /\ ClientDefault["msgc_redline_bytes"] = 1024000
    BY SMT DEF ClientDefault
  <2>2. /\ ClientKind["msgc_handshake_timeout"] = "count"
        /\ ClientKind["msgc_reconnect_interval"] = "count"
        /\ ClientKind["msgc_redline_bytes"] = "count"
    BY SMT DEF ClientKind
  <2>3. /\ ClientDefault["msgc_handshake_timeout"] \in Nat \ {0}
        /\ ClientDefault["msgc_reconnect_interval"] \in Nat \ {0}
        /\ ClientDefault["msgc_redline_bytes"] \in Nat \ {0}
    BY <2>1, SMT
  <2>4. Legal("count") = Nat \ {0}
    BY SMT DEF Legal
  <2>. QED  BY <2>2, <2>3, <2>4, Zenon
<1>6. /\ ClientDefault["msgc_enable_ssl"] \in Legal(ClientKind["msgc_enable_ssl"])
      /\ ClientDefault["msgc_ssl_enable_sha1cert"] \in Legal(ClientKind["msgc_ssl_enable_sha1cert"])
      /\ ClientDefault["msgc_ssl_aes256"] \in Legal(ClientKind["msgc_ssl_aes256"])
  <2>1. /\ ClientDefault["msgc_enable_ssl"] = FALSE
        /\ ClientDefault["msgc_ssl_enable_sha1cert"] = TRUE
        /\ ClientDefault["msgc_ssl_aes256"] = FALSE
    BY SMT DEF ClientDefault
  <2>2. /\ ClientKind["msgc_enable_ssl"] = "flag"
        /\ ClientKind["msgc_ssl_enable_sha1cert"] = "flag"
        /\ ClientKind["msgc_ssl_aes256"] = "flag"
    BY SMT DEF ClientKind
  <2>3. /\ ClientDefault["msgc_enable_ssl"] \in BOOLEAN
        /\ ClientDefault["msgc_ssl_enable_sha1cert"] \in BOOLEAN
        /\ ClientDefault["msgc_ssl_aes256"] \in BOOLEAN
    BY <2>1
  <2>4. Legal("flag") = BOOLEAN
    BY SMT DEF Legal
  <2>. QED  BY <2>2, <2>3, <2>4, Zenon
<1>7. /\ ClientDefault["msgc_ssl_cafile"] \in Legal(ClientKind["msgc_ssl_cafile"])
      /\ ClientDefault["msgc_ssl_crlfile"] \in Legal(ClientKind["msgc_ssl_crlfile"])
  <2>1. /\ ClientDefault["msgc_ssl_cafile"] = <<>>
        /\ ClientDefault["msgc_ssl_crlfile"] = <<>>
    BY SMT DEF ClientDefault
  <2>2. /\ ClientKind["msgc_ssl_cafile"] = "files"
        /\ ClientKind["msgc_ssl_crlfile"] = "files"
    BY SMT DEF ClientKind
  <2>3. /\ ClientDefault["msgc_ssl_cafile"] \in Seq(Strings \ {""})
        /\ ClientDefault["msgc_ssl_crlfile"] \in Seq(Strings \ {""})
    BY <2>1, Literals
  <2>4. Legal("files") = Seq(Strings \ {""})
    BY SMT DEF Legal
  <2>. QED  BY <2>2, <2>3, <2>4, Zenon
<1>8. /\ ClientDefault["msgc_ssl_sni"] \in Legal(ClientKind["msgc_ssl_sni"])
  <2>1. /\ ClientDefault["msgc_ssl_sni"] = ""
    BY SMT DEF ClientDefault
  <2>2. /\ ClientKind["msgc_ssl_sni"] = "text"
    BY SMT DEF ClientKind
  <2>3. /\ ClientDefault["msgc_ssl_sni"] \in Strings
    BY <2>1, Literals
  <2>4. Legal("text") = Strings
    BY SMT DEF Legal
  <2>. QED  BY <2>2, <2>3, <2>4, Zenon
<1>9. ClientDefault["msgc_id"] \in Legal(ClientKind["msgc_id"])
  <2>1. ClientDefault["msgc_id"] = "2-0-0"
    BY SMT DEF ClientDefault
  <2>2. ClientKind["msgc_id"] = "user"
    BY SMT DEF ClientKind
  <2>3. ClientDefault["msgc_id"] \in Users
    BY <2>1, ConfigAssumption, Zenon
  <2>4. Legal("user") = Users
    BY SMT DEF Legal
  <2>. QED  BY <2>2, <2>3, <2>4, Zenon
<1>. QED
  BY <1>1, <1>2, <1>3, <1>4, <1>5, <1>6, <1>7, <1>8, <1>9, Zenon DEF ClientNames

(* And those of a server.                                                   *)
LEMMA ServerDefaults ==
  \A n \in ServerNames : ServerDefault[n] \in Legal(ServerKind[n])
<1>1. /\ ServerDefault["msgs_mm_type"] \in Legal(ServerKind["msgs_mm_type"])
  <2>1. /\ ServerDefault["msgs_mm_type"] = DefaultMmType
    BY SMT DEF ServerDefault
  <2>2. /\ ServerKind["msgs_mm_type"] = "mmType"
    BY SMT DEF ServerKind
  <2>3. /\ ServerDefault["msgs_mm_type"] \in MmTypes
    BY <2>1, Literals
  <2>4. Legal("mmType") = MmTypes
    BY SMT DEF Legal
  <2>. QED  BY <2>2, <2>3, <2>4, Zenon
<1>2. /\ ServerDefault["msgs_hub_port"] \in Legal(ServerKind["msgs_hub_port"])
  <2>1. /\ ServerDefault["msgs_hub_port"] = 3000
    BY SMT DEF ServerDefault
  <2>2. /\ ServerKind["msgs_hub_port"] = "port"
    BY SMT DEF ServerKind
  <2>3. /\ ServerDefault["msgs_hub_port"] \in Ports
    BY <2>1, SMT DEF Ports
  <2>4. Legal("port") = Ports
    BY SMT DEF Legal
  <2>. QED  BY <2>2, <2>3, <2>4, Zenon
<1>3. /\ ServerDefault["msgs_password_cid1"] \in Legal(ServerKind["msgs_password_cid1"])
      /\ ServerDefault["msgs_password_cid2"] \in Legal(ServerKind["msgs_password_cid2"])
      /\ ServerDefault["msgs_password_cid255"] \in Legal(ServerKind["msgs_password_cid255"])
      /\ ServerDefault["msgs_password_cidx"] \in Legal(ServerKind["msgs_password_cidx"])
  <2>1. /\ ServerDefault["msgs_password_cid1"] = "test"
        /\ ServerDefault["msgs_password_cid2"] = "test"
        /\ ServerDefault["msgs_password_cid255"] = "test"
        /\ ServerDefault["msgs_password_cidx"] = "test"
    BY SMT DEF ServerDefault
  <2>2. /\ ServerKind["msgs_password_cid1"] = "secret"
        /\ ServerKind["msgs_password_cid2"] = "secret"
        /\ ServerKind["msgs_password_cid255"] = "secret"
        /\ ServerKind["msgs_password_cidx"] = "secret"
    BY SMT DEF ServerKind
  <2>3. /\ ServerDefault["msgs_password_cid1"] \in Strings
        /\ ServerDefault["msgs_password_cid2"] \in Strings
        /\ ServerDefault["msgs_password_cid255"] \in Strings
        /\ ServerDefault["msgs_password_cidx"] \in Strings
    BY <2>1, Literals
  <2>4. Legal("secret") = Strings
    BY SMT DEF Legal
  <2>. QED  BY <2>2, <2>3, <2>4, Zenon
<1>4. /\ ServerDefault["msgs_handshake_timeout"] \in Legal(ServerKind["msgs_handshake_timeout"])
      /\ ServerDefault["msgs_redline_bytes"] \in Legal(ServerKind["msgs_redline_bytes"])
  <2>1. /\ ServerDefault["msgs_handshake_timeout"] = 20
        /\ ServerDefault["msgs_redline_bytes"] = 1024000
    BY SMT DEF ServerDefault
  <2>2. /\ ServerKind["msgs_handshake_timeout"] = "count"
        /\ ServerKind["msgs_redline_bytes"] = "count"
    BY SMT DEF ServerKind
  <2>3. /\ ServerDefault["msgs_handshake_timeout"] \in Nat \ {0}
        /\ ServerDefault["msgs_redline_bytes"] \in Nat \ {0}
    BY <2>1, SMT
  <2>4. Legal("count") = Nat \ {0}
    BY SMT DEF Legal
  <2>. QED  BY <2>2, <2>3, <2>4, Zenon
<1>5. /\ ServerDefault["msgs_enable_ssl"] \in Legal(ServerKind["msgs_enable_ssl"])
      /\ ServerDefault["msgs_ssl_forced"] \in Legal(ServerKind["msgs_ssl_forced"])
      /\ ServerDefault["msgs_ssl_enable_sha1cert"] \in Legal(ServerKind["msgs_ssl_enable_sha1cert"])
  <2>1. /\ ServerDefault["msgs_enable_ssl"] = TRUE
        /\ ServerDefault["msgs_ssl_forced"] = FALSE
        /\ ServerDefault["msgs_ssl_enable_sha1cert"] = TRUE
    BY SMT DEF ServerDefault
  <2>2. /\ ServerKind["msgs_enable_ssl"] = "flag"
        /\ ServerKind["msgs_ssl_forced"] = "flag"
        /\ ServerKind["msgs_ssl_enable_sha1cert"] = "flag"
    BY SMT DEF ServerKind
  <2>3. /\ ServerDefault["msgs_enable_ssl"] \in BOOLEAN
        /\ ServerDefault["msgs_ssl_forced"] \in BOOLEAN
        /\ ServerDefault["msgs_ssl_enable_sha1cert"] \in BOOLEAN
    BY <2>1
  <2>4. Legal("flag") = BOOLEAN
    BY SMT DEF Legal
  <2>. QED  BY <2>2, <2>3, <2>4, Zenon
<1>6. /\ ServerDefault["msgs_ssl_cafile"] \in Legal(ServerKind["msgs_ssl_cafile"])
      /\ ServerDefault["msgs_ssl_crlfile"] \in Legal(ServerKind["msgs_ssl_crlfile"])
      /\ ServerDefault["msgs_ssl_certfile"] \in Legal(ServerKind["msgs_ssl_certfile"])
  <2>1. /\ ServerDefault["msgs_ssl_cafile"] = <<>>
        /\ ServerDefault["msgs_ssl_crlfile"] = <<>>
        /\ ServerDefault["msgs_ssl_certfile"] = <<>>
    BY SMT DEF ServerDefault
  <2>2. /\ ServerKind["msgs_ssl_cafile"] = "files"
        /\ ServerKind["msgs_ssl_crlfile"] = "files"
        /\ ServerKind["msgs_ssl_certfile"] = "files"
    BY SMT DEF ServerKind
  <2>3. /\ ServerDefault["msgs_ssl_cafile"] \in Seq(Strings \ {""})
        /\ ServerDefault["msgs_ssl_crlfile"] \in Seq(Strings \ {""})
        /\ ServerDefault["msgs_ssl_certfile"] \in Seq(Strings \ {""})
    BY <2>1, Literals
  <2>4. Legal("files") = Seq(Strings \ {""})
    BY SMT DEF Legal
  <2>. QED  BY <2>2, <2>3, <2>4, Zenon
<1>7. /\ ServerDefault["msgs_ssl_keyfile"] \in Legal(ServerKind["msgs_ssl_keyfile"])
  <2>1. /\ ServerDefault["msgs_ssl_keyfile"] = "server.key"
    BY SMT DEF ServerDefault
  <2>2. /\ ServerKind["msgs_ssl_keyfile"] = "path"
    BY SMT DEF ServerKind
  <2>3. /\ ServerDefault["msgs_ssl_keyfile"] \in Strings
    BY <2>1, Literals
  <2>4. Legal("path") = Strings
    BY SMT DEF Legal
  <2>. QED  BY <2>2, <2>3, <2>4, Zenon
<1>. QED  BY <1>1, <1>2, <1>3, <1>4, <1>5, <1>6, <1>7, Zenon DEF ServerNames

------------------------------------------------------------------------------
(* The file up to an item, as operators of constant level: c is isClient and *)
(* f the file.                                                               *)
KindOf(c) == IF c THEN ClientKind ELSE ServerKind
DefaultOf(c) == IF c THEN ClientDefault ELSE ServerDefault

\* Item k of f is about n and counts.
Counts(c, f, n, k) ==
  /\ f[k].name = n
  /\ IF KindOf(c)[n] = "files" THEN f[k].value # ""
     ELSE Meaning(KindOf(c)[n], f[k].value) \in Legal(KindOf(c)[n])

\* The items before m that do.
Before(c, f, n, m) == {k \in DOMAIN f : k < m /\ Counts(c, f, n, k)}

\* v is the value of the last item in B, or the constructor's.
LastIn(c, f, n, B, v) ==
  \/ B = {} /\ v = DefaultOf(c)[n]
  \/ \E k \in B : /\ \A l \in B : l <= k
                 /\ v = Meaning(KindOf(c)[n], f[k].value)

\* v is the list of the paths of all items in B.
ListIn(f, B, v) ==
  \E where \in [1 .. Len(v) -> B] :
    /\ \A k \in 1 .. Len(v) : v[k] = Resolved[f[where[k]].value]
    /\ \A k, l \in 1 .. Len(v) : k < l => where[k] < where[l]
    /\ \A b \in B : \E k \in 1 .. Len(v) : where[k] = b

SaidBefore(c, f, n, m, v) ==
  IF KindOf(c)[n] = "files" THEN ListIn(f, Before(c, f, n, m), v)
                            ELSE LastIn(c, f, n, Before(c, f, n, m), v)

------------------------------------------------------------------------------
(* The invariant.                                                            *)
InputsFixed ==
  /\ isClient \in BOOLEAN
  /\ file \in Seq(Items)
  /\ DOMAIN args \subseteq (IF isClient THEN ClientArgs ELSE ServerArgs)
  /\ \A n \in DOMAIN args : args[n] \in Texts

Progress ==
  /\ i \in 1 .. Len(file) + 1
  /\ stage \in {"read", "override", "address", "ssl", "done", "failed"}
  /\ sslConfig \in BOOLEAN
  /\ stage # "read" => i = Len(file) + 1
  /\ stage = "address" => isClient

\* The items from i on are as the file has them, and the passwords before i are
\* gone.
ItemsTaken ==
  /\ configs \in Seq([name : Names, value : Strings])
  /\ Len(configs) = Len(file)
  /\ \A k \in 1 .. Len(file) :
       /\ configs[k].name = file[k].name
       /\ k >= i => configs[k].value = file[k].value
       /\ (k < i /\ file[k].name \in DOMAIN Kind /\ Kind[file[k].name] = "secret")
          => configs[k].value = ""

Values ==
  /\ DOMAIN configInfo = DOMAIN Kind
  /\ \A n \in DOMAIN Kind : configInfo[n] \in Legal(Kind[n])

\* While items are read, the configuration is what those before i say; then it is
\* what Init was told, of the server from its override on.
AsTold ==
  /\ stage \in {"read", "override"} =>
       \A n \in DOMAIN Kind : SaidBefore(isClient, file, n, i, configInfo[n])
  /\ stage = "address" => /\ configInfo.msgc_server_ip = Told("msgc_server_ip")
                          /\ configInfo.msgc_server_ip \in DOMAIN Address
  /\ LastLegalWins

TlsMade ==
  /\ sslConfig => stage = "done"
  /\ stage = "done" =>
       (sslConfig <=> IF isClient THEN ClientWantsSsl ELSE ServerWantsSsl)

IInv == InputsFixed /\ Progress /\ ItemsTaken /\ Values /\ AsTold /\ TlsMade

------------------------------------------------------------------------------
(* Lemmas about the tables and one step of the loop.                         *)
LEMMA TablesFit ==
  ASSUME NEW c \in BOOLEAN, NEW n \in DOMAIN KindOf(c)
  PROVE  /\ KindOf(c)[n] \in Kinds
         /\ DefaultOf(c)[n] \in Legal(KindOf(c)[n])
         /\ DOMAIN DefaultOf(c) = DOMAIN KindOf(c)
<1>1. CASE c
  BY <1>1, Tables, ClientKinds, ClientDefaults DEF KindOf, DefaultOf
<1>2. CASE ~c
  BY <1>2, Tables, ServerKinds, ServerDefaults DEF KindOf, DefaultOf
<1>. QED  BY <1>1, <1>2

(* The tables in force are those of the side that runs.                     *)
LEMMA TablesNow ==
  ASSUME isClient \in BOOLEAN
  PROVE  Kind = KindOf(isClient) /\ Default = DefaultOf(isClient)
BY DEF Kind, Default, KindOf, DefaultOf

(* An item of a file has a name and a text.                                 *)
LEMMA ItemTypes ==
  ASSUME NEW f \in Seq(Items), NEW k \in 1 .. Len(f)
  PROVE  f[k] \in Items /\ f[k].name \in Names /\ f[k].value \in Texts
<1>1. f[k] \in Items
  OBVIOUS
<1>. QED  BY <1>1 DEF Items

(* Passwords, texts and paths are legal whatever they are.                   *)
LEMMA AlwaysLegal ==
  ASSUME NEW t \in Texts, NEW k \in {"secret", "text", "path"}
  PROVE  Meaning(k, t) \in Legal(k)
<1>1. t \in Strings /\ Resolved[t] \in Strings
  BY DEF Strings
<1>2. Legal("secret") = Strings /\ Legal("text") = Strings /\ Legal("path") = Strings
  BY Legals, Zenon
<1>3. /\ Meaning("secret", t) = t /\ Meaning("text", t) = t
      /\ Meaning("path", t) = Resolved[t]
  BY Meanings, Zenon
<1>4. CASE k = "secret"
  BY <1>1, <1>2, <1>3, <1>4, Zenon
<1>5. CASE k = "text"
  BY <1>1, <1>2, <1>3, <1>5, Zenon
<1>6. CASE k = "path"
  BY <1>1, <1>2, <1>3, <1>6, Zenon
<1>. QED  BY <1>4, <1>5, <1>6

(* If item m counts, the items before m + 1 are those before m, and m.        *)
LEMMA BeforeNext ==
  ASSUME NEW c, NEW f \in Seq(Items), NEW m \in 1 .. Len(f), NEW n,
         Counts(c, f, n, m)
  PROVE  Before(c, f, n, m + 1) = Before(c, f, n, m) \cup {m}
<1>1. DOMAIN f = 1 .. Len(f) /\ Len(f) \in Nat
  OBVIOUS
<1>2. \A k \in 1 .. Len(f) : k < m + 1 <=> k < m \/ k = m
  BY <1>1
<1>. QED  BY <1>1, <1>2 DEF Before

(* An item that does not count leaves what was said as it is.               *)
LEMMA NotCounted ==
  ASSUME NEW c, NEW f \in Seq(Items), NEW m \in 1 .. Len(f), NEW n, NEW v,
         ~Counts(c, f, n, m), SaidBefore(c, f, n, m, v)
  PROVE  SaidBefore(c, f, n, m + 1, v)
<1>1. \A k \in DOMAIN f : k < m + 1 /\ k # m => k < m
  OBVIOUS
<1>2. \A k \in DOMAIN f : k < m => k < m + 1
  OBVIOUS
<1>3. Before(c, f, n, m + 1) = Before(c, f, n, m)
  BY <1>1, <1>2 DEF Before
<1>. QED  BY <1>3, Zenon DEF SaidBefore

(* One that counts is the last word on a single value,                      *)
LEMMA LastCounted ==
  ASSUME NEW c, NEW f \in Seq(Items), NEW m \in 1 .. Len(f), NEW n,
         Counts(c, f, n, m), KindOf(c)[n] # "files"
  PROVE  SaidBefore(c, f, n, m + 1, Meaning(KindOf(c)[n], f[m].value))
<1>1. Before(c, f, n, m + 1) = Before(c, f, n, m) \cup {m}
  BY BeforeNext
<1>2. \A l \in Before(c, f, n, m) \cup {m} : l <= m
  BY DEF Before
<1>. QED  BY <1>1, <1>2 DEF SaidBefore, LastIn

(* and goes to the end of a list.                                           *)
LEMMA ListCounted ==
  ASSUME NEW c, NEW f \in Seq(Items), NEW m \in 1 .. Len(f), NEW n,
         NEW S, NEW v \in Seq(S), Resolved[f[m].value] \in S,
         Counts(c, f, n, m), ListIn(f, Before(c, f, n, m), v)
  PROVE  ListIn(f, Before(c, f, n, m + 1), Append(v, Resolved[f[m].value]))
<1>. DEFINE w == Append(v, Resolved[f[m].value])
<1>1. Before(c, f, n, m + 1) = Before(c, f, n, m) \cup {m}
  BY BeforeNext
<1>2. PICK where \in [1 .. Len(v) -> Before(c, f, n, m)] :
         /\ \A k \in 1 .. Len(v) : v[k] = Resolved[f[where[k]].value]
         /\ \A k, l \in 1 .. Len(v) : k < l => where[k] < where[l]
         /\ \A b \in Before(c, f, n, m) : \E k \in 1 .. Len(v) : where[k] = b
  BY DEF ListIn
<1>. DEFINE longer == [k \in 1 .. Len(v) + 1 |->
                         IF k = Len(v) + 1 THEN m ELSE where[k]]
<1>3. /\ Len(w) = Len(v) + 1 /\ w[Len(v) + 1] = Resolved[f[m].value]
      /\ \A k \in 1 .. Len(v) : w[k] = v[k]
      /\ Len(v) \in Nat
  OBVIOUS
<1>4. /\ longer[Len(v) + 1] = m /\ \A k \in 1 .. Len(v) : longer[k] = where[k]
      /\ \A k \in 1 .. Len(w) : k \in 1 .. Len(v) \/ k = Len(v) + 1
      /\ 1 .. Len(v) \subseteq 1 .. Len(w) /\ Len(v) + 1 \in 1 .. Len(w)
  BY <1>3
<1>5. \A b \in Before(c, f, n, m) : b < m /\ b \in Nat
  BY DEF Before
<1>. HIDE DEF longer, w
<1>6. longer \in [1 .. Len(w) -> Before(c, f, n, m + 1)]
  BY <1>1, <1>2, <1>3 DEF longer
<1>7. ASSUME NEW k \in 1 .. Len(w)
      PROVE  w[k] = Resolved[f[longer[k]].value]
  BY <1>2, <1>3, <1>4
<1>8. ASSUME NEW k \in 1 .. Len(w), NEW l \in 1 .. Len(w), k < l
      PROVE  longer[k] < longer[l]
  <2>1. k \in 1 .. Len(v) /\ where[k] \in Before(c, f, n, m)
    BY <1>2, <1>3, <1>8
  <2>. QED  BY <1>2, <1>4, <1>5, <1>8, <2>1
<1>9. ASSUME NEW b \in Before(c, f, n, m + 1)
      PROVE  \E k \in 1 .. Len(w) : longer[k] = b
  BY <1>1, <1>2, <1>4
<1>. QED  BY <1>6, <1>7, <1>8, <1>9 DEF ListIn, w

(* The lists of files start empty.                                           *)
LEMMA DefaultLists ==
  ASSUME NEW c \in BOOLEAN, NEW n \in DOMAIN KindOf(c), KindOf(c)[n] = "files"
  PROVE  DefaultOf(c)[n] = <<>>
<1>1. CASE c
  <2>1. n \in {"msgc_ssl_cafile", "msgc_ssl_crlfile"}
    BY <1>1, SMT DEF KindOf, ClientKind
  <2>2. /\ ClientDefault["msgc_ssl_cafile"] = <<>>
        /\ ClientDefault["msgc_ssl_crlfile"] = <<>>
    BY SMT DEF ClientDefault
  <2>. QED  BY <1>1, <2>1, <2>2, Zenon DEF DefaultOf
<1>2. CASE ~c
  <2>1. n \in {"msgs_ssl_cafile", "msgs_ssl_crlfile", "msgs_ssl_certfile"}
    BY <1>2, SMT DEF KindOf, ServerKind
  <2>2. /\ ServerDefault["msgs_ssl_cafile"] = <<>>
        /\ ServerDefault["msgs_ssl_crlfile"] = <<>>
        /\ ServerDefault["msgs_ssl_certfile"] = <<>>
    BY SMT DEF ServerDefault
  <2>. QED  BY <1>2, <2>1, <2>2, Zenon DEF DefaultOf
<1>. QED  BY <1>1, <1>2

(* Before the first item the constructor's values are all there is.          *)
LEMMA NothingBefore ==
  ASSUME NEW c \in BOOLEAN, NEW f \in Seq(Items), NEW n \in DOMAIN KindOf(c)
  PROVE  SaidBefore(c, f, n, 1, DefaultOf(c)[n])
<1>1. Before(c, f, n, 1) = {}
  BY DEF Before
<1>2. CASE KindOf(c)[n] # "files"
  BY <1>1, <1>2 DEF SaidBefore, LastIn
<1>3. CASE KindOf(c)[n] = "files"
  <2>1. DefaultOf(c)[n] = <<>>
    BY <1>3, DefaultLists
  <2>2. [k \in {} |-> k] \in [1 .. Len(<<>>) -> {}]
    BY SMT
  <2>. QED  BY <1>1, <1>3, <2>1, <2>2 DEF SaidBefore, ListIn
<1>. QED  BY <1>2, <1>3

------------------------------------------------------------------------------
(* After the last item the words of the properties.                          *)
LEMMA BeforeEnd ==
  ASSUME InputsFixed, NEW n
  PROVE  Before(isClient, file, n, Len(file) + 1) = Counting(n)
<1>1. DOMAIN file = 1 .. Len(file) /\ Len(file) \in Nat
  BY DEF InputsFixed
<1>2. \A k \in DOMAIN file : k < Len(file) + 1
  BY <1>1
<1>3. Kind = KindOf(isClient)
  BY TablesNow DEF InputsFixed
<1>. QED  BY <1>2, <1>3 DEF Before, Counts, Counting

(* A single value is the last one the file says,                            *)
LEMMA LastSaid ==
  ASSUME InputsFixed, NEW n, NEW v, Kind[n] # "files",
         SaidBefore(isClient, file, n, Len(file) + 1, v)
  PROVE  v = Says(n)
<1>1. Kind = KindOf(isClient) /\ Default = DefaultOf(isClient)
  BY TablesNow DEF InputsFixed
<1>2. LastIn(isClient, file, n, Counting(n), v)
  BY <1>1, BeforeEnd DEF SaidBefore
<1>3. CASE Counting(n) = {}
  BY <1>1, <1>2, <1>3 DEF LastIn, Says
<1>4. CASE Counting(n) # {}
  <2>1. PICK k \in Counting(n) :
          (\A l \in Counting(n) : l <= k) /\ v = Meaning(Kind[n], file[k].value)
    BY <1>1, <1>2, <1>4 DEF LastIn
  <2>. DEFINE last == Latest(Counting(n))
  <2>2. last \in Counting(n) /\ \A m \in Counting(n) : m <= last
    BY <2>1, Zenon DEF Latest
  <2>. HIDE DEF last
  <2>3. \A l \in Counting(n) : l \in Int
    BY DEF Counting, InputsFixed
  <2>4. last = k
    BY <2>1, <2>2, <2>3
  <2>5. Says(n) = Meaning(Kind[n], file[last].value)
    BY <1>4 DEF Says, last
  <2>. QED  BY <2>1, <2>4, <2>5
<1>. QED  BY <1>3, <1>4

(* and a list has all files in order.                                       *)
LEMMA ListSaid ==
  ASSUME InputsFixed, NEW n, NEW v, Kind[n] = "files",
         SaidBefore(isClient, file, n, Len(file) + 1, v)
  PROVE  Lists(n, v)
<1>1. Kind = KindOf(isClient)
  BY TablesNow DEF InputsFixed
<1>2. ListIn(file, Counting(n), v)
  BY <1>1, BeforeEnd DEF SaidBefore
<1>. QED  BY <1>2 DEF ListIn, Lists

(* Arguments are single values, and no argument speaks of TLS.               *)
LEMMA GivenNames ==
  ASSUME InputsFixed, NEW n, Given(n)
  PROVE  /\ n \in DOMAIN Kind /\ Kind[n] # "files"
         /\ n \notin {"msgc_enable_ssl", "msgs_enable_ssl"}
         /\ args[n] \in Texts
         /\ Meaning(Kind[n], args[n]) \in Legal(Kind[n])
<1>1. n \in DOMAIN args
  BY DEF Given
<1>2. CASE isClient
  <2>1. n \in ClientArgs
    BY <1>1, <1>2 DEF InputsFixed
  <2>2. n \in ClientNames /\ ClientKind[n] # "files"
    BY <2>1, SMT DEF ClientArgs, ClientKind, ClientNames
  <2>3. n \notin {"msgc_enable_ssl", "msgs_enable_ssl"}
    BY <2>1 DEF ClientArgs
  <2>. QED  BY <1>1, <1>2, <2>2, <2>3, Tables DEF Kind, InputsFixed, Given
<1>3. CASE ~isClient
  <2>1. n \in ServerArgs
    BY <1>1, <1>3 DEF InputsFixed
  <2>2. n \in ServerNames /\ ServerKind[n] # "files"
    BY <2>1, SMT DEF ServerArgs, ServerKind, ServerNames
  <2>3. n \notin {"msgc_enable_ssl", "msgs_enable_ssl"}
    BY <2>1 DEF ServerArgs
  <2>. QED  BY <1>1, <1>3, <2>2, <2>3, Tables DEF Kind, InputsFixed, Given
<1>. QED  BY <1>2, <1>3

(* The server of a client has a name.                                         *)
LEMMA ServerIpKind ==
  isClient => "msgc_server_ip" \in DOMAIN Kind /\ Kind["msgc_server_ip"] = "name"
<1>1. ClientKind["msgc_server_ip"] = "name"
  BY SMT DEF ClientKind
<1>2. "msgc_server_ip" \in ClientNames
  BY DEF ClientNames
<1>. QED  BY <1>1, <1>2, Tables, Zenon DEF Kind

(* What a client is told of its server has an address or none: it is a text   *)
(* or the constructor's.                                                      *)
LEMMA ServerName ==
  ASSUME InputsFixed, isClient, NEW v,
         IF Given("msgc_server_ip") THEN v = args["msgc_server_ip"]
         ELSE SaidBefore(isClient, file, "msgc_server_ip", Len(file) + 1, v)
  PROVE  v \in DOMAIN Address
<1>1. /\ Kind["msgc_server_ip"] = "name" /\ Kind = KindOf(isClient)
      /\ \A t : Meaning("name", t) = t
  BY ServerIpKind, Meanings, TablesNow, Zenon DEF InputsFixed
<1>2. DOMAIN Address = Texts \cup {"127.0.0.1"}
  BY ConfigAssumption
<1>3. CASE Given("msgc_server_ip")
  <2>1. args["msgc_server_ip"] \in Texts
    BY <1>3, GivenNames, Zenon
  <2>. QED  BY <1>2, <1>3, <2>1
<1>4. CASE ~Given("msgc_server_ip")
  <2>1. SaidBefore(isClient, file, "msgc_server_ip", Len(file) + 1, v)
    BY <1>4, Zenon
  <2>2. KindOf(isClient)["msgc_server_ip"] # "files"
    BY <1>1
  <2>3. LastIn(isClient, file, "msgc_server_ip", Counting("msgc_server_ip"), v)
    BY <2>1, <2>2, BeforeEnd, Zenon DEF SaidBefore
  <2>4. CASE v = DefaultOf(isClient)["msgc_server_ip"]
    <3>1. ClientDefault["msgc_server_ip"] = "127.0.0.1"
      BY SMT DEF ClientDefault
    <3>2. v = "127.0.0.1"
      BY <2>4, <3>1, Zenon DEF DefaultOf
    <3>. QED  BY <1>2, <3>2
  <2>5. ASSUME NEW k \in Counting("msgc_server_ip"),
               v = Meaning(KindOf(isClient)["msgc_server_ip"], file[k].value)
        PROVE  v \in DOMAIN Address
    <3>1. v = file[k].value
      BY <1>1, <2>5, Zenon
    <3>2. file \in Seq(Items) /\ k \in DOMAIN file
      BY <2>5 DEF InputsFixed, Counting
    <3>3. k \in 1 .. Len(file)
      BY <3>2
    <3>4. file[k].value \in Texts
      BY <3>2, <3>3, ItemTypes
    <3>. QED  BY <1>2, <3>1, <3>4
  <2>. QED  BY <2>3, <2>4, <2>5, Zenon DEF LastIn
<1>. QED  BY <1>3, <1>4

(* A list is empty if nothing counts for it.                                 *)
LEMMA ListsLength ==
  ASSUME InputsFixed, NEW n, NEW S, NEW v \in Seq(S), Lists(n, v)
  PROVE  Len(v) > 0 <=> Counting(n) # {}
<1>1. PICK where \in [1 .. Len(v) -> Counting(n)] :
        \A b \in Counting(n) : \E k \in 1 .. Len(v) : where[k] = b
  BY DEF Lists
<1>2. Len(v) \in Nat
  OBVIOUS
<1>3. ASSUME Len(v) > 0 PROVE Counting(n) # {}
  BY <1>1, <1>2, <1>3
<1>4. ASSUME NEW b \in Counting(n) PROVE Len(v) > 0
  BY <1>1, <1>2
<1>. QED  BY <1>3, <1>4

------------------------------------------------------------------------------
(* One item of the loop.                                                     *)
LEMMA InputsKept ==
  ASSUME UNCHANGED inputs
  PROVE  /\ Kind' = Kind
         /\ \A n : /\ Counting(n)' = Counting(n)
                   /\ Says(n)' = Says(n)
                   /\ Given(n)' <=> Given(n)
                   /\ Told(n)' = Told(n)
         /\ InputsFixed => InputsFixed'
<1>. isClient' = isClient /\ file' = file /\ args' = args
  BY DEF inputs
<1>1. Kind' = Kind /\ Default' = Default
  BY DEF Kind, Default
<1>2. \A n : Counting(n)' = Counting(n)
  BY <1>1 DEF Counting
<1>3. \A n : Says(n)' = Says(n)
  BY <1>1, <1>2 DEF Says
<1>4. \A n : Given(n)' <=> Given(n)
  BY <1>1 DEF Given
<1>5. \A n : Told(n)' = Told(n)
  BY <1>1, <1>3, <1>4 DEF Told
<1>6. InputsFixed => InputsFixed'
  BY DEF InputsFixed
<1>. QED  BY <1>1, <1>2, <1>3, <1>4, <1>5, <1>6

(* A list that is right stays right as the inputs do not change.            *)
LEMMA ListKept ==
  ASSUME UNCHANGED inputs, NEW n, Lists(n, configInfo'[n])
  PROVE  Lists(n, configInfo[n])'
<1>1. Counting(n)' = Counting(n)
  BY InputsKept, Zenon
<1>2. file' = file
  BY DEF inputs
<1>. DEFINE v == configInfo'[n]
<1>3. PICK where \in [1 .. Len(v) -> Counting(n)] :
        /\ \A k \in 1 .. Len(v) : v[k] = Resolved[file[where[k]].value]
        /\ \A k, m \in 1 .. Len(v) : k < m => where[k] < where[m]
        /\ \A c \in Counting(n) : \E k \in 1 .. Len(v) : where[k] = c
  BY Zenon DEF Lists
<1>4. where \in [1 .. Len(v) -> Counting(n)']
  BY <1>1, <1>3, Zenon
<1>5. \A k \in 1 .. Len(v) : v[k] = Resolved[file'[where[k]].value]
  BY <1>2, <1>3, Zenon
<1>6. \A c \in Counting(n)' : \E k \in 1 .. Len(v) : where[k] = c
  BY <1>1, <1>3, Zenon
<1>. QED  BY <1>3, <1>4, <1>5, <1>6, Zenon DEF Lists

\* The loop has an item to read.
AtItem == stage = "read" /\ i <= Len(configs)

(* What the loop sees of the item it is at.                                 *)
LEMMA ItemRead ==
  ASSUME IInv, AtItem
  PROVE  /\ i \in 1 .. Len(file) /\ file \in Seq(Items)
         /\ Name = file[i].name /\ Text = file[i].value
         /\ Name \in Names /\ Text \in Texts
         /\ \A n : n # Name => ~Counts(isClient, file, n, i)
         /\ Counts(isClient, file, Name, i) <=>
              IF Kind[Name] = "files" THEN Text # ""
              ELSE Meaning(Kind[Name], Text) \in Legal(Kind[Name])
         /\ \A n \in DOMAIN Kind : SaidBefore(isClient, file, n, i, configInfo[n])
         /\ Kind = KindOf(isClient) /\ isClient \in BOOLEAN
<1>0. /\ file \in Seq(Items) /\ isClient \in BOOLEAN
      /\ i \in 1 .. Len(file) + 1 /\ Len(configs) = Len(file) /\ i <= Len(configs)
  BY DEF IInv, AtItem, InputsFixed, Progress, ItemsTaken
<1>1. i \in 1 .. Len(file) /\ file \in Seq(Items) /\ isClient \in BOOLEAN
  <2>1. Len(file) \in Nat
    BY <1>0
  <2>. QED  BY <1>0, <2>1
<1>2. Name = file[i].name /\ Text = file[i].value
  <2>1. \A k \in 1 .. Len(file) : configs[k].name = file[k].name
    BY DEF IInv, ItemsTaken
  <2>2. \A k \in 1 .. Len(file) : k >= i => configs[k].value = file[k].value
    BY DEF IInv, ItemsTaken
  <2>3. i \in 1 .. Len(file) /\ Len(file) \in Nat
    BY <1>0
  <2>. QED  BY <2>1, <2>2, <2>3 DEF Name, Text
<1>3. Name \in Names /\ Text \in Texts
  BY <1>1, <1>2, ItemTypes
<1>4. Kind = KindOf(isClient)
  BY <1>1, TablesNow
<1>5. \A n : n # Name => ~Counts(isClient, file, n, i)
  BY <1>2 DEF Counts
<1>6. Counts(isClient, file, Name, i) <=>
        IF Kind[Name] = "files" THEN Text # ""
        ELSE Meaning(Kind[Name], Text) \in Legal(Kind[Name])
  BY <1>2, <1>4, Zenon DEF Counts
<1>7. \A n \in DOMAIN Kind : SaidBefore(isClient, file, n, i, configInfo[n])
  BY DEF IInv, AsTold, AtItem
<1>. QED  BY <1>1, <1>2, <1>3, <1>4, <1>5, <1>6, <1>7

\* info is what the items up to i say.
Follows(info) ==
  /\ DOMAIN info = DOMAIN Kind
  /\ \A n \in DOMAIN Kind :
       /\ info[n] \in Legal(Kind[n])
       /\ SaidBefore(isClient, file, n, i + 1, info[n])

(* An item that does not count changes nothing.                              *)
LEMMA InfoKept ==
  ASSUME IInv, AtItem,
         Name \in DOMAIN Kind => ~Counts(isClient, file, Name, i)
  PROVE  Follows(configInfo)
<1>1. ASSUME NEW n \in DOMAIN Kind
      PROVE  SaidBefore(isClient, file, n, i + 1, configInfo[n])
  <2>1. ~Counts(isClient, file, n, i) /\ SaidBefore(isClient, file, n, i, configInfo[n])
    BY ItemRead, <1>1, Zenon
  <2>2. i \in 1 .. Len(file) /\ file \in Seq(Items)
    BY ItemRead
  <2>. QED  BY <2>1, <2>2, NotCounted
<1>. QED  BY <1>1 DEF Follows, IInv, Values

(* One that does sets the value of its name.                                 *)
LEMMA InfoSet ==
  ASSUME IInv, AtItem, Name \in DOMAIN Kind,
         NEW v, v \in Legal(Kind[Name]),
         SaidBefore(isClient, file, Name, i + 1, v)
  PROVE  Follows([configInfo EXCEPT ![Name] = v])
<1>. DEFINE info == [configInfo EXCEPT ![Name] = v]
<1>1. DOMAIN configInfo = DOMAIN Kind
  BY DEF IInv, Values
<1>2. DOMAIN info = DOMAIN Kind
  BY <1>1
<1>3. info[Name] = v
  BY <1>1
<1>4. \A n \in DOMAIN Kind : n # Name => info[n] = configInfo[n]
  BY <1>1
<1>. HIDE DEF info
<1>5. ASSUME NEW n \in DOMAIN Kind
      PROVE  info[n] \in Legal(Kind[n]) /\ SaidBefore(isClient, file, n, i + 1, info[n])
  <2>1. CASE n = Name
    BY <1>3, <2>1, Zenon
  <2>2. CASE n # Name
    <3>1. ~Counts(isClient, file, n, i) /\ SaidBefore(isClient, file, n, i, configInfo[n])
      BY ItemRead, <1>5, <2>2, Zenon
    <3>2. i \in 1 .. Len(file) /\ file \in Seq(Items)
      BY ItemRead
    <3>3. SaidBefore(isClient, file, n, i + 1, configInfo[n])
      BY <3>1, <3>2, NotCounted
    <3>. QED  BY <1>4, <1>5, <2>2, <3>3, Zenon DEF IInv, Values
  <2>. QED  BY <2>1, <2>2
<1>. QED  BY <1>2, <1>5, Zenon DEF Follows, info

(* Before i + 1, from i + 1 on, and i.                                       *)
LEMMA NextIndex ==
  ASSUME IInv, AtItem, NEW k \in 1 .. Len(file)
  PROVE  /\ k >= i + 1 => k >= i /\ k # i
         /\ k < i + 1 /\ k # i => k < i
<1>1. i \in 1 .. Len(file) /\ file \in Seq(Items)
  BY ItemRead
<1>2. i \in Nat /\ Len(file) \in Nat
  BY <1>1
<1>. QED  BY <1>2

(* An item that is not a password may be left as it was.                     *)
LEMMA ItemLeft ==
  ASSUME IInv, AtItem, UNCHANGED <<inputs, configs>>, i' = i + 1,
         Name \notin DOMAIN Kind \/ Kind[Name] # "secret"
  PROVE  ItemsTaken'
<1>1. i \in 1 .. Len(file) /\ Name = file[i].name
  BY ItemRead
<1>3. file' = file /\ Kind' = Kind /\ configs' = configs
  BY InputsKept DEF inputs
<1>5. ASSUME NEW k \in 1 .. Len(file)
      PROVE  /\ configs[k].name = file[k].name
             /\ k >= i + 1 => configs[k].value = file[k].value
  <2>1. k >= i + 1 => k >= i
    BY <1>5, NextIndex
  <2>. QED  BY <2>1, <1>5, Zenon DEF IInv, ItemsTaken
<1>6. ASSUME NEW k \in 1 .. Len(file), k < i + 1, file[k].name \in DOMAIN Kind,
             Kind[file[k].name] = "secret"
      PROVE  configs[k].value = ""
  <2>1. k # i
    BY <1>1, <1>6
  <2>2. k < i
    BY <1>6, <2>1, NextIndex, Zenon
  <2>. QED  BY <1>6, <2>1, <2>2, Zenon DEF IInv, ItemsTaken
<1>7. configs \in Seq([name : Names, value : Strings]) /\ Len(configs) = Len(file)
  BY DEF IInv, ItemsTaken
<1>. QED  BY <1>3, <1>5, <1>6, <1>7, Zenon DEF ItemsTaken

\* Item k of s becomes w in t.
Replaces(s, t, k, w) ==
  /\ t \in Seq([name : Names, value : Strings]) /\ Len(t) = Len(s)
  /\ t[k].name = s[k].name /\ t[k].value = w
  /\ \A l \in 1 .. Len(s) : l # k => t[l] = s[l]

(* Changing the value of one item does just that.                           *)
LEMMA Replaced ==
  ASSUME NEW s \in Seq([name : Names, value : Strings]), NEW k \in 1 .. Len(s),
         NEW w \in Strings
  PROVE  Replaces(s, [s EXCEPT ![k].value = w], k, w)
<1>. DEFINE item == [s[k] EXCEPT !.value = w]
            t == [s EXCEPT ![k] = item]
<1>1. s[k] \in [name : Names, value : Strings]
  BY ElementOfSeq, Zenon
<1>2. /\ item \in [name : Names, value : Strings]
      /\ item.name = s[k].name /\ item.value = w
  BY <1>1
<1>. HIDE DEF item
<1>3. /\ t \in Seq([name : Names, value : Strings]) /\ Len(t) = Len(s) /\ t[k] = item
      /\ \A l \in 1 .. Len(s) : l # k => t[l] = s[l]
  BY <1>2
<1>4. Replaces(s, t, k, w)
  BY <1>2, <1>3 DEF Replaces
<1>5. t = [s EXCEPT ![k].value = w]
  BY DEF item
<1>. QED  BY <1>4, <1>5, Zenon

(* Or it gets another value, a password none.                                *)
LEMMA ItemSet ==
  ASSUME IInv, AtItem, UNCHANGED inputs, i' = i + 1, NEW w,
         Replaces(configs, configs', i, w),
         Name \in DOMAIN Kind /\ Kind[Name] = "secret" => w = ""
  PROVE  ItemsTaken'
<1>1. i \in 1 .. Len(file) /\ Name = file[i].name
  BY ItemRead
<1>3. file' = file /\ Kind' = Kind
  BY InputsKept DEF inputs
<1>5. Len(configs) = Len(file)
  BY DEF IInv, ItemsTaken
<1>6. /\ configs' \in Seq([name : Names, value : Strings])
      /\ Len(configs') = Len(file)
      /\ configs'[i].name = configs[i].name /\ configs'[i].value = w
      /\ \A k \in 1 .. Len(file) : k # i => configs'[k] = configs[k]
  BY <1>5, Zenon DEF Replaces
<1>7. ASSUME NEW k \in 1 .. Len(file)
      PROVE  /\ configs'[k].name = file[k].name
             /\ k >= i + 1 => configs'[k].value = file[k].value
  <2>1. k >= i + 1 => k >= i /\ k # i
    BY <1>7, NextIndex, Zenon
  <2>2. configs[k].name = file[k].name
    BY <1>7, Zenon DEF IInv, ItemsTaken
  <2>3. k >= i => configs[k].value = file[k].value
    BY <1>7, Zenon DEF IInv, ItemsTaken
  <2>4. CASE k = i
    BY <1>6, <2>1, <2>2, <2>4, Zenon
  <2>5. CASE k # i
    BY <1>6, <1>7, <2>1, <2>2, <2>3, <2>5, Zenon
  <2>. QED  BY <2>4, <2>5
<1>8. ASSUME NEW k \in 1 .. Len(file), k < i + 1, file[k].name \in DOMAIN Kind,
             Kind[file[k].name] = "secret"
      PROVE  configs'[k].value = ""
  <2>1. CASE k = i
    BY <1>1, <1>6, <1>8, <2>1, Zenon
  <2>2. CASE k # i
    <3>1. k < i
      BY <1>8, <2>2, NextIndex, Zenon
    <3>2. configs[k].value = ""
      BY <1>8, <3>1, Zenon DEF IInv, ItemsTaken
    <3>. QED  BY <1>6, <1>8, <2>2, <3>2, Zenon
  <2>. QED  BY <2>1, <2>2
<1>. QED  BY <1>3, <1>6, <1>7, <1>8, Zenon DEF ItemsTaken

(* The loop may do so to the item it is at.                                 *)
LEMMA ItemReplaced ==
  ASSUME IInv, AtItem, NEW w \in Strings
  PROVE  Replaces(configs, [configs EXCEPT ![i].value = w], i, w)
<1>1. i \in 1 .. Len(file)
  BY ItemRead
<1>2. configs \in Seq([name : Names, value : Strings]) /\ Len(configs) = Len(file)
  BY DEF IInv, ItemsTaken
<1>3. i \in 1 .. Len(configs)
  BY <1>1, <1>2, Zenon
<1>. QED  BY <1>2, <1>3, Replaced

(* Both together are a step of the loop.                                     *)
LEMMA LoopStep ==
  ASSUME IInv, AtItem, i' = i + 1, UNCHANGED <<inputs, stage, sslConfig>>,
         ItemsTaken', Follows(configInfo')
  PROVE  IInv'
<1>1. i \in 1 .. Len(file)
  BY ItemRead
<1>2. Kind' = Kind /\ InputsFixed' /\ file' = file /\ isClient' = isClient
  BY InputsKept, Zenon DEF inputs, IInv
<1>3. Progress'
  BY <1>1, <1>2 DEF IInv, Progress, AtItem, InputsFixed
<1>4. Values'
  BY <1>2, Zenon DEF Values, Follows
<1>5. stage' = "read" /\ sslConfig' = FALSE
  BY DEF AtItem, IInv, TlsMade, Progress
<1>6. \A n \in DOMAIN Kind' : SaidBefore(isClient', file', n, i', configInfo'[n])
  BY <1>2, Zenon DEF Follows
<1>7. AsTold'
  BY <1>5, <1>6, SMT DEF AsTold, LastLegalWins
<1>8. TlsMade'
  BY <1>5 DEF TlsMade
<1>. QED  BY <1>2, <1>3, <1>4, <1>7, <1>8 DEF IInv

(* The value of an item that counts.                                         *)
LEMMA ValueRead ==
  ASSUME IInv, AtItem, Name \in DOMAIN Kind, Kind[Name] # "files",
         Meaning(Kind[Name], Text) \in Legal(Kind[Name])
  PROVE  Follows([configInfo EXCEPT ![Name] = Meaning(Kind[Name], Text)])
<1>1. /\ Counts(isClient, file, Name, i) /\ KindOf(isClient)[Name] # "files"
      /\ Kind = KindOf(isClient) /\ Text = file[i].value
  BY ItemRead, Zenon
<1>2. i \in 1 .. Len(file) /\ file \in Seq(Items)
  BY ItemRead
<1>3. SaidBefore(isClient, file, Name, i + 1,
                 Meaning(KindOf(isClient)[Name], file[i].value))
  BY <1>1, <1>2, LastCounted
<1>. QED  BY <1>1, <1>3, InfoSet, Zenon

(* The path of a file that counts, at the end of the list.                  *)
LEMMA FileRead ==
  ASSUME IInv, AtItem, Name \in DOMAIN Kind, Kind[Name] = "files", Text # ""
  PROVE  Follows([configInfo EXCEPT ![Name] =
                    Append(configInfo[Name], Resolved[Text])])
<1>1. /\ Counts(isClient, file, Name, i) /\ KindOf(isClient)[Name] = "files"
      /\ Kind = KindOf(isClient) /\ Text = file[i].value /\ Text \in Texts
  BY ItemRead, Zenon
<1>2. i \in 1 .. Len(file) /\ file \in Seq(Items)
  BY ItemRead
<1>3. Resolved[Text] \in Strings \ {""}
  <2>1. Resolved[Text] # ""
    BY <1>1, ConfigAssumption
  <2>2. Resolved[Text] \in Strings
    BY <1>1 DEF Strings
  <2>. QED  BY <2>1, <2>2
<1>4. Legal(Kind[Name]) = Seq(Strings \ {""})
  BY Legals, Zenon
<1>5. configInfo[Name] \in Seq(Strings \ {""})
  BY <1>4, Zenon DEF IInv, Values
<1>6. SaidBefore(isClient, file, Name, i, configInfo[Name])
  BY ItemRead, Zenon
<1>7. ListIn(file, Before(isClient, file, Name, i), configInfo[Name])
  BY <1>1, <1>6, Zenon DEF SaidBefore
<1>8. ListIn(file, Before(isClient, file, Name, i + 1),
             Append(configInfo[Name], Resolved[file[i].value]))
  BY <1>1, <1>2, <1>3, <1>5, <1>7, ListCounted, Zenon
<1>9. SaidBefore(isClient, file, Name, i + 1,
                 Append(configInfo[Name], Resolved[Text]))
  BY <1>1, <1>8, Zenon DEF SaidBefore
<1>10. Append(configInfo[Name], Resolved[Text]) \in Legal(Kind[Name])
  <2>1. Append(configInfo[Name], Resolved[Text]) \in Seq(Strings \ {""})
    BY <1>3, <1>5, AppendProperties
  <2>. QED  BY <1>4, <2>1, Zenon
<1>. QED  BY <1>9, <1>10, InfoSet, Zenon

------------------------------------------------------------------------------
(* The actions, one by one.                                                  *)
LEMMA ReadsStep ==
  ASSUME NEW kinds, Reads(kinds)
  PROVE  /\ AtItem /\ Name \in DOMAIN Kind /\ Kind[Name] \in kinds
         /\ i' = i + 1 /\ UNCHANGED <<inputs, stage, sslConfig>>
BY DEF Reads, AtItem

(* The invariant holds at first.                                            *)
LEMMA ConfigInit == Init => IInv
<1>. SUFFICES ASSUME Init PROVE IInv
  OBVIOUS
<1>1. isClient \in BOOLEAN
  BY DEF Init
<1>2. file \in Seq(Items)
  <2>1. PICK n \in 0 .. MaxItems : file \in [1 .. n -> Items]
    BY DEF Init, Files
  <2>2. n \in Nat
    BY <2>1
  <2>. QED  BY <2>1, <2>2
<1>3. /\ DOMAIN args \subseteq (IF isClient THEN ClientArgs ELSE ServerArgs)
      /\ \A n \in DOMAIN args : args[n] \in Texts
  <2>. DEFINE names == IF isClient THEN ClientArgs ELSE ServerArgs
  <2>1. PICK d \in SUBSET names : args \in [d -> Texts]
    BY DEF Init, ArgsOf
  <2>. QED  BY <2>1
<1>4. InputsFixed
  BY <1>1, <1>2, <1>3 DEF InputsFixed
<1>5. i = 1 /\ stage = "read" /\ sslConfig = FALSE /\ configs = file /\ configInfo = Default
  BY DEF Init
<1>6. Progress
  <2>1. Len(file) \in Nat
    BY <1>2, LenProperties
  <2>2. 1 \in 1 .. Len(file) + 1
    BY <2>1
  <2>. QED  BY <1>5, <2>2 DEF Progress
<1>7. ItemsTaken
  <2>1. Items \subseteq [name : Names, value : Strings]
    BY DEF Items, Strings
  <2>2. configs \in Seq([name : Names, value : Strings])
    BY <1>2, <1>5, <2>1, SeqMono, Zenon
  <2>3. \A k \in 1 .. Len(file) : ~(k < i)
    BY <1>5
  <2>. QED  BY <1>5, <2>2, <2>3, Zenon DEF ItemsTaken
<1>8. Kind = KindOf(isClient) /\ Default = DefaultOf(isClient)
  BY <1>1, TablesNow
<1>9. DOMAIN Default = DOMAIN Kind
  BY <1>1, Tables DEF Kind, Default
<1>10. Values
  BY <1>1, <1>5, <1>8, <1>9, TablesFit, Zenon DEF Values
<1>11. \A n \in DOMAIN Kind : SaidBefore(isClient, file, n, i, configInfo[n])
  BY <1>1, <1>2, <1>5, <1>8, NothingBefore, Zenon
<1>12. AsTold
  BY <1>5, <1>11, SMT DEF AsTold, LastLegalWins
<1>13. TlsMade
  BY <1>5 DEF TlsMade
<1>. QED  BY <1>4, <1>6, <1>7, <1>10, <1>12, <1>13 DEF IInv

(* A number, a flag, a name or a text: set if legal, skipped if not.        *)
LEMMA StepReadValue == ASSUME IInv, ReadValue PROVE IInv'
<1>. DEFINE kinds == {"mmType", "port", "count", "flag", "name", "user", "text"}
<1>1. /\ AtItem /\ Name \in DOMAIN Kind /\ Kind[Name] \in kinds
      /\ i' = i + 1 /\ UNCHANGED <<inputs, stage, sslConfig>>
  BY ReadsStep, Zenon DEF ReadValue
<1>2. Kind[Name] # "files" /\ Kind[Name] # "secret"
  BY <1>1
<1>3. UNCHANGED configs
  BY DEF ReadValue
<1>4. ItemsTaken'
  BY <1>1, <1>2, <1>3, ItemLeft
<1>5. CASE Meaning(Kind[Name], Text) \in Legal(Kind[Name])
  <2>1. configInfo' = [configInfo EXCEPT ![Name] = Meaning(Kind[Name], Text)]
    BY <1>5 DEF ReadValue, Sets
  <2>2. Follows(configInfo')
    BY <1>1, <1>2, <1>5, <2>1, ValueRead, Zenon
  <2>. QED  BY <1>1, <1>4, <2>2, LoopStep, Zenon
<1>6. CASE Meaning(Kind[Name], Text) \notin Legal(Kind[Name])
  <2>1. configInfo' = configInfo
    BY <1>6 DEF ReadValue
  <2>2. ~Counts(isClient, file, Name, i)
    BY <1>1, <1>2, <1>6, ItemRead, Zenon
  <2>3. Follows(configInfo')
    BY <1>1, <2>1, <2>2, InfoKept, Zenon
  <2>. QED  BY <1>1, <1>4, <2>3, LoopStep, Zenon
<1>. QED  BY <1>5, <1>6

(* A password: set, and wiped from the item.                                *)
LEMMA StepReadSecret == ASSUME IInv, ReadSecret PROVE IInv'
<1>1. /\ AtItem /\ Name \in DOMAIN Kind /\ Kind[Name] \in {"secret"}
      /\ i' = i + 1 /\ UNCHANGED <<inputs, stage, sslConfig>>
  BY ReadsStep, Zenon DEF ReadSecret
<1>2. Kind[Name] = "secret" /\ Text \in Texts
  BY <1>1, ItemRead, Zenon
<1>3. Meaning(Kind[Name], Text) = Text /\ Meaning(Kind[Name], Text) \in Legal(Kind[Name])
  BY <1>2, Meanings, AlwaysLegal, Zenon
<1>4. Follows(configInfo')
  <2>1. configInfo' = [configInfo EXCEPT ![Name] = Text]
    BY DEF ReadSecret, Sets
  <2>2. Kind[Name] # "files"
    BY <1>2
  <2>. QED  BY <1>1, <1>3, <2>1, <2>2, ValueRead, Zenon
<1>5. ItemsTaken'
  <2>1. Replaces(configs, [configs EXCEPT ![i].value = ""], i, "")
    BY <1>1, ItemReplaced, Literals, Zenon
  <2>2. configs' = [configs EXCEPT ![i].value = ""]
    BY DEF ReadSecret
  <2>. QED  BY <1>1, <2>1, <2>2, ItemSet, Zenon
<1>. QED  BY <1>1, <1>4, <1>5, LoopStep, Zenon

(* ReadFiles and ReadPath leave the path of a file in the item.              *)
LEMMA PathLeft ==
  ASSUME IInv, AtItem, UNCHANGED inputs, i' = i + 1, Kind[Name] # "secret",
         configs' = [configs EXCEPT ![i].value = Resolved[@]]
  PROVE  ItemsTaken'
<1>1. Text \in Texts
  BY ItemRead
<1>2. Resolved[Text] \in Strings
  BY <1>1 DEF Strings
<1>3. configs' = [configs EXCEPT ![i].value = Resolved[Text]]
  BY DEF Text
<1>4. Replaces(configs, configs', i, Resolved[Text])
  BY <1>2, <1>3, ItemReplaced, Zenon
<1>. QED  BY <1>4, ItemSet, Zenon

(* A file: its path is appended, and left in the item.                      *)
LEMMA StepReadFiles == ASSUME IInv, ReadFiles PROVE IInv'
<1>1. /\ AtItem /\ Name \in DOMAIN Kind /\ Kind[Name] \in {"files"}
      /\ i' = i + 1 /\ UNCHANGED <<inputs, stage, sslConfig>>
  BY ReadsStep, Zenon DEF ReadFiles
<1>2. Kind[Name] = "files" /\ Kind[Name] # "secret"
  BY <1>1
<1>3. configs' = [configs EXCEPT ![i].value = Resolved[@]]
  BY DEF ReadFiles
<1>4. ItemsTaken'
  BY <1>1, <1>2, <1>3, PathLeft, Zenon
<1>5. CASE Text # ""
  <2>1. configInfo' = [configInfo EXCEPT ![Name] =
                         Append(configInfo[Name], Resolved[Text])]
    BY <1>5, Zenon DEF ReadFiles, Sets
  <2>2. Follows(configInfo')
    BY <1>1, <1>2, <1>5, <2>1, FileRead, Zenon
  <2>. QED  BY <1>1, <1>4, <2>2, LoopStep, Zenon
<1>6. CASE Text = ""
  <2>1. configInfo' = configInfo
    BY <1>6, Zenon DEF ReadFiles
  <2>2. ~Counts(isClient, file, Name, i)
    BY <1>1, <1>2, <1>6, ItemRead, Zenon
  <2>3. Follows(configInfo')
    BY <1>1, <2>1, <2>2, InfoKept, Zenon
  <2>. QED  BY <1>1, <1>4, <2>3, LoopStep, Zenon
<1>. QED  BY <1>5, <1>6

(* A path: set, and left in the item.                                       *)
LEMMA StepReadPath == ASSUME IInv, ReadPath PROVE IInv'
<1>1. /\ AtItem /\ Name \in DOMAIN Kind /\ Kind[Name] \in {"path"}
      /\ i' = i + 1 /\ UNCHANGED <<inputs, stage, sslConfig>>
  BY ReadsStep, Zenon DEF ReadPath
<1>2. Kind[Name] = "path" /\ Text \in Texts
  BY <1>1, ItemRead, Zenon
<1>3. Kind[Name] # "files" /\ Kind[Name] # "secret"
  BY <1>2
<1>4. /\ Meaning(Kind[Name], Text) = Resolved[Text]
      /\ Meaning(Kind[Name], Text) \in Legal(Kind[Name])
  BY <1>2, Meanings, AlwaysLegal, Zenon
<1>5. configs' = [configs EXCEPT ![i].value = Resolved[@]]
  BY DEF ReadPath
<1>6. ItemsTaken'
  BY <1>1, <1>3, <1>5, PathLeft, Zenon
<1>7. configInfo' = [configInfo EXCEPT ![Name] = Resolved[Text]]
  BY DEF ReadPath, Sets
<1>8. Follows(configInfo')
  BY <1>1, <1>3, <1>4, <1>7, ValueRead, Zenon
<1>. QED  BY <1>1, <1>6, <1>8, LoopStep, Zenon

(* Any other name is skipped.                                               *)
LEMMA StepReadUnknown == ASSUME IInv, ReadUnknown PROVE IInv'
<1>1. /\ AtItem /\ Name \notin DOMAIN Kind /\ i' = i + 1
      /\ UNCHANGED <<inputs, stage, sslConfig>>
      /\ UNCHANGED configs /\ configInfo' = configInfo
  BY DEF ReadUnknown, AtItem
<1>2. ItemsTaken'
  BY <1>1, ItemLeft, Zenon
<1>3. Follows(configInfo')
  BY <1>1, InfoKept, Zenon
<1>. QED  BY <1>1, <1>2, <1>3, LoopStep, Zenon

------------------------------------------------------------------------------
(* The rest of Init.                                                         *)
LEMMA LaterFacts ==
  ASSUME UNCHANGED <<inputs, configs, i>>, IInv
  PROVE  /\ InputsFixed' /\ ItemsTaken' /\ Kind' = Kind /\ isClient' = isClient
         /\ file' = file
<1>1. UNCHANGED inputs /\ configs' = configs /\ i' = i
  OBVIOUS
<1>2. InputsFixed' /\ Kind' = Kind /\ isClient' = isClient /\ file' = file
  BY <1>1, InputsKept, Zenon DEF inputs, IInv
<1>3. ItemsTaken'
  BY <1>1, <1>2, Zenon DEF IInv, ItemsTaken
<1>. QED  BY <1>2, <1>3

(* At the end all items are behind i.                                       *)
LEMMA StepReadEnd == ASSUME IInv, ReadEnd PROVE IInv'
<1>1. /\ stage = "read" /\ stage' = "override" /\ i > Len(configs)
      /\ UNCHANGED <<inputs, configs, i, configInfo, sslConfig>>
  BY DEF ReadEnd
<1>2. /\ InputsFixed' /\ ItemsTaken' /\ Kind' = Kind /\ isClient' = isClient
      /\ file' = file /\ i' = i /\ configInfo' = configInfo
      /\ sslConfig' = sslConfig
  BY <1>1, LaterFacts
<1>3. Progress'
  <2>1. file \in Seq(Items) /\ i \in 1 .. Len(file) + 1 /\ Len(configs) = Len(file)
    BY DEF IInv, InputsFixed, Progress, ItemsTaken
  <2>2. Len(file) \in Nat
    BY <2>1, LenProperties
  <2>3. i = Len(file) + 1
    BY <1>1, <2>1, <2>2
  <2>4. sslConfig \in BOOLEAN
    BY DEF IInv, Progress
  <2>. QED  BY <1>1, <1>2, <2>1, <2>3, <2>4 DEF Progress
<1>4. Values'
  BY <1>2, Zenon DEF IInv, Values
<1>5. \A n \in DOMAIN Kind' : SaidBefore(isClient', file', n, i', configInfo'[n])
  BY <1>1, <1>2, Zenon DEF IInv, AsTold
<1>6. AsTold'
  BY <1>1, <1>5, SMT DEF AsTold, LastLegalWins
<1>7. TlsMade'
  BY <1>1, <1>2 DEF IInv, TlsMade
<1>. QED  BY <1>2, <1>3, <1>4, <1>6, <1>7 DEF IInv

(* The arguments that count replace what the file said.                     *)
LEMMA StepOverride == ASSUME IInv, Override PROVE IInv'
<1>1. /\ stage = "override" /\ stage' = IF isClient THEN "address" ELSE "ssl"
      /\ configInfo' = [n \in DOMAIN configInfo |->
                          IF Given(n) THEN Meaning(Kind[n], args[n])
                                      ELSE configInfo[n]]
      /\ UNCHANGED <<inputs, configs, i, sslConfig>>
  BY DEF Override
<1>2. /\ InputsFixed' /\ ItemsTaken' /\ Kind' = Kind /\ isClient' = isClient
      /\ file' = file /\ i' = i /\ sslConfig' = sslConfig
  BY <1>1, LaterFacts
<1>3. DOMAIN configInfo = DOMAIN Kind /\ InputsFixed /\ isClient \in BOOLEAN
  BY DEF IInv, Values, InputsFixed
<1>4. i = Len(file) + 1
  BY <1>1 DEF IInv, Progress
<1>5. DOMAIN configInfo' = DOMAIN Kind
  BY <1>1, <1>3
<1>6. \A n \in DOMAIN Kind :
        configInfo'[n] = IF Given(n) THEN Meaning(Kind[n], args[n]) ELSE configInfo[n]
  BY <1>1, <1>3
<1>7. ASSUME NEW n \in DOMAIN Kind
      PROVE  /\ configInfo'[n] \in Legal(Kind[n])
             /\ IF Kind[n] = "files" THEN Lists(n, configInfo'[n])
                                     ELSE configInfo'[n] = Told(n)
  <2>1. SaidBefore(isClient, file, n, Len(file) + 1, configInfo[n])
    BY <1>1, <1>4, <1>7, Zenon DEF IInv, AsTold
  <2>2. CASE Given(n)
    <3>1. configInfo'[n] = Meaning(Kind[n], args[n])
      BY <1>6, <1>7, <2>2, Zenon
    <3>2. Kind[n] # "files" /\ Meaning(Kind[n], args[n]) \in Legal(Kind[n])
      BY <1>3, <2>2, GivenNames, Zenon
    <3>. QED  BY <2>2, <3>1, <3>2, Zenon DEF Told
  <2>3. CASE ~Given(n)
    <3>1. configInfo'[n] = configInfo[n]
      BY <1>6, <1>7, <2>3, Zenon
    <3>2. configInfo[n] \in Legal(Kind[n])
      BY <1>7, Zenon DEF IInv, Values
    <3>3. Kind[n] = "files" => Lists(n, configInfo[n])
      BY <1>3, <2>1, ListSaid, Zenon
    <3>4. Kind[n] # "files" => configInfo[n] = Says(n)
      BY <1>3, <2>1, LastSaid, Zenon
    <3>5. Told(n) = Says(n)
      BY <2>3, Zenon DEF Told
    <3>. QED  BY <3>1, <3>2, <3>3, <3>4, <3>5, Zenon
  <2>. QED  BY <2>2, <2>3
<1>8. Progress'
  BY <1>1, <1>2 DEF IInv, Progress
<1>9. Values'
  BY <1>2, <1>5, <1>7, Zenon DEF Values
<1>10. \A n : Told(n)' = Told(n)
  BY <1>1, InputsKept, Zenon
<1>11. AsTold'
  <2>1. ASSUME NEW n \in DOMAIN Kind
        PROVE  IF Kind'[n] = "files" THEN Lists(n, configInfo[n])'
                                     ELSE configInfo'[n] = Told(n)'
    <3>1. Kind[n] = "files" => Lists(n, configInfo[n])'
      <4>1. Kind[n] = "files" => Lists(n, configInfo'[n])
        BY <1>7, <2>1, Zenon
      <4>. QED  BY <1>1, <4>1, ListKept
    <3>. QED  BY <1>2, <1>7, <1>10, <2>1, <3>1, Zenon
  <2>2. isClient => /\ configInfo'["msgc_server_ip"] = Told("msgc_server_ip")'
                    /\ configInfo'["msgc_server_ip"] \in DOMAIN Address
    <3>. SUFFICES ASSUME isClient
                  PROVE  /\ configInfo'["msgc_server_ip"] = Told("msgc_server_ip")'
                         /\ configInfo'["msgc_server_ip"] \in DOMAIN Address
      OBVIOUS
    <3>1. "msgc_server_ip" \in DOMAIN Kind /\ Kind["msgc_server_ip"] = "name"
      BY ServerIpKind, Zenon
    <3>2. configInfo'["msgc_server_ip"] = Told("msgc_server_ip")'
      <4>1. Kind["msgc_server_ip"] # "files"
        BY <3>1
      <4>. QED  BY <1>7, <1>10, <3>1, <4>1, Zenon
    <3>3. IF Given("msgc_server_ip")
          THEN configInfo'["msgc_server_ip"] = args["msgc_server_ip"]
          ELSE SaidBefore(isClient, file, "msgc_server_ip", Len(file) + 1,
                          configInfo'["msgc_server_ip"])
      <4>1. SaidBefore(isClient, file, "msgc_server_ip", Len(file) + 1,
                       configInfo["msgc_server_ip"])
        BY <1>1, <1>4, <3>1, Zenon DEF IInv, AsTold
      <4>2. \A t : Meaning("name", t) = t
        BY Meanings
      <4>. QED  BY <1>6, <3>1, <4>1, <4>2, Zenon
    <3>. QED  BY <1>3, <3>2, <3>3, ServerName, Zenon
  <2>3. stage' \notin {"read", "override", "done"} /\ (stage' = "address" => isClient)
        /\ (isClient => stage' = "address")
    BY <1>1, <1>3
  <2>. QED  BY <1>2, <2>1, <2>2, <2>3, Zenon DEF AsTold, LastLegalWins
<1>12. TlsMade'
  BY <1>1, <1>2 DEF IInv, TlsMade
<1>. QED  BY <1>2, <1>8, <1>9, <1>11, <1>12 DEF IInv

(* A value that is as told stays so if it stays.                             *)
LEMMA ToldKept ==
  ASSUME UNCHANGED inputs, NEW n, configInfo'[n] = configInfo[n],
         IF Kind[n] = "files" THEN Lists(n, configInfo[n])
                              ELSE configInfo[n] = Told(n)
  PROVE  IF Kind'[n] = "files" THEN Lists(n, configInfo[n])'
                               ELSE configInfo'[n] = Told(n)'
<1>1. Kind' = Kind /\ Told(n)' = Told(n)
  BY InputsKept, Zenon
<1>2. Kind[n] = "files" => Lists(n, configInfo'[n])
  OBVIOUS
<1>3. Kind[n] = "files" => Lists(n, configInfo[n])'
  BY <1>2, ListKept
<1>. QED  BY <1>1, <1>3, Zenon

(* The address replaces the name of the server, or Init fails.              *)
LEMMA StepResolve == ASSUME IInv, Resolve PROVE IInv'
<1>. DEFINE ip == Address[configInfo.msgc_server_ip]
<1>1. stage = "address" /\ UNCHANGED <<inputs, configs, i, sslConfig>>
  BY DEF Resolve
<1>2. \/ ip = "" /\ stage' = "failed" /\ UNCHANGED configInfo
      \/ /\ ip # "" /\ stage' = "ssl"
         /\ configInfo' = [configInfo EXCEPT !.msgc_server_ip = ip]
  BY Zenon DEF Resolve
<1>3. /\ InputsFixed' /\ ItemsTaken' /\ Kind' = Kind /\ isClient' = isClient
      /\ file' = file /\ i' = i /\ sslConfig' = sslConfig
  BY <1>1, LaterFacts
<1>4. isClient /\ i = Len(file) + 1 /\ DOMAIN configInfo = DOMAIN Kind
  BY <1>1 DEF IInv, Progress, Values
<1>5. "msgc_server_ip" \in DOMAIN Kind /\ Kind["msgc_server_ip"] = "name"
  BY <1>4, ServerIpKind
<1>6. Progress'
  BY <1>1, <1>2, <1>3, <1>4 DEF IInv, Progress
<1>7. sslConfig' = FALSE /\ stage' # "done"
  BY <1>1, <1>2, <1>3 DEF IInv, TlsMade, Progress
<1>8. TlsMade'
  BY <1>7 DEF TlsMade
<1>9. CASE ip = "" /\ stage' = "failed" /\ UNCHANGED configInfo
  <2>1. Values'
    BY <1>3, <1>9, Zenon DEF IInv, Values
  <2>2. AsTold'
    <3>1. stage' \notin {"read", "override", "address", "ssl", "done"}
      BY <1>9
    <3>. QED  BY <3>1, Zenon DEF AsTold, LastLegalWins
  <2>. QED  BY <1>3, <1>6, <1>8, <2>1, <2>2 DEF IInv
<1>10. CASE /\ ip # "" /\ stage' = "ssl"
            /\ configInfo' = [configInfo EXCEPT !.msgc_server_ip = ip]
  <2>1. configInfo["msgc_server_ip"] = Told("msgc_server_ip")
    BY <1>1, Zenon DEF IInv, AsTold
  <2>2. ip \in Strings \ {""}
    <3>1. configInfo["msgc_server_ip"] \in DOMAIN Address
      BY <1>1, Zenon DEF IInv, AsTold
    <3>2. ip \in Strings
      BY <3>1 DEF Strings
    <3>. QED  BY <1>10, <3>2
  <2>3. /\ DOMAIN configInfo' = DOMAIN Kind
        /\ configInfo'["msgc_server_ip"] = ip
        /\ \A n \in DOMAIN Kind \ {"msgc_server_ip"} : configInfo'[n] = configInfo[n]
    BY <1>4, <1>5, <1>10
  <2>4. Legal("name") = Strings \ {""}
    BY Legals
  <2>. HIDE DEF ip
  <2>5. Values'
    <3>1. ASSUME NEW n \in DOMAIN Kind PROVE configInfo'[n] \in Legal(Kind[n])
      <4>1. CASE n = "msgc_server_ip"
        BY <1>5, <2>2, <2>3, <2>4, <4>1, Zenon
      <4>2. CASE n # "msgc_server_ip"
        <5>1. n \in DOMAIN Kind \ {"msgc_server_ip"}
          BY <3>1, <4>2
        <5>. QED  BY <2>3, <3>1, <5>1, Zenon DEF IInv, Values
      <4>. QED  BY <4>1, <4>2
    <3>. QED  BY <1>3, <2>3, <3>1, Zenon DEF Values
  <2>6. ASSUME NEW n \in DOMAIN Kind \ {"msgc_server_ip"}
        PROVE  IF Kind'[n] = "files" THEN Lists(n, configInfo[n])'
                                     ELSE configInfo'[n] = Told(n)'
    <3>1. IF Kind[n] = "files" THEN Lists(n, configInfo[n])
                               ELSE configInfo[n] = Told(n)
      BY <1>1, <2>6, Zenon DEF IInv, AsTold, LastLegalWins
    <3>. QED  BY <1>1, <2>3, <2>6, <3>1, ToldKept, Zenon
  <2>7. /\ configInfo'["msgc_server_ip"] = Address[Told("msgc_server_ip")']
        /\ configInfo'["msgc_server_ip"] # ""
    <3>1. Told("msgc_server_ip")' = Told("msgc_server_ip")
      BY <1>1, InputsKept, Zenon
    <3>2. ip = Address[Told("msgc_server_ip")]
      BY <2>1, Zenon DEF ip
    <3>3. ip # ""
      BY <1>10
    <3>. QED  BY <2>3, <3>1, <3>2, <3>3, Zenon
  <2>8. stage' = "ssl"
    BY <1>10
  <2>9. AsTold'
    <3>1. stage' \notin {"read", "override", "address"}
      BY <2>8
    <3>. QED  BY <1>3, <2>6, <2>7, <3>1, Zenon DEF AsTold, LastLegalWins
  <2>. QED  BY <1>3, <1>6, <1>8, <2>5, <2>9 DEF IInv
<1>. QED  BY <1>2, <1>9, <1>10

(* The TLS decision is taken on the values as told.                         *)
LEMMA StepMakeSsl == ASSUME IInv, MakeSsl PROVE IInv'
<1>. DEFINE wants == IF isClient THEN ClientWantsSsl ELSE ServerWantsSsl
<1>1. stage = "ssl" /\ UNCHANGED <<inputs, configs, i, configInfo>>
  BY DEF MakeSsl
<1>2. sslConfig = FALSE
  BY <1>1 DEF IInv, TlsMade, Progress
<1>3. \/ wants /\ sslConfig' = TRUE /\ stage' = "done"
      \/ stage' = "failed" /\ sslConfig' = FALSE
      \/ ~wants /\ stage' = "done" /\ sslConfig' = FALSE
  BY <1>2, Zenon DEF MakeSsl
<1>4. /\ InputsFixed' /\ ItemsTaken' /\ Kind' = Kind /\ isClient' = isClient
      /\ file' = file /\ i' = i /\ configInfo' = configInfo
  BY <1>1, LaterFacts
<1>5. Progress'
  BY <1>1, <1>3, <1>4 DEF IInv, Progress
<1>6. Values'
  BY <1>4, Zenon DEF IInv, Values
<1>7. wants' <=> wants
  BY <1>4, Zenon DEF ClientWantsSsl, ServerWantsSsl
<1>. HIDE DEF wants
<1>8. TlsMade'
  <2>1. sslConfig' => stage' = "done"
    BY <1>3
  <2>2. stage' = "done" => (sslConfig' <=> wants')
    BY <1>3, <1>7, Zenon
  <2>. QED  BY <2>1, <2>2, Zenon DEF TlsMade, wants
<1>9. AsTold'
  <2>1. stage' \notin {"read", "override", "address"}
    BY <1>3
  <2>2. ASSUME NEW n \in DOMAIN Kind \ {"msgc_server_ip"}
        PROVE  IF Kind'[n] = "files" THEN Lists(n, configInfo[n])'
                                     ELSE configInfo'[n] = Told(n)'
    <3>1. IF Kind[n] = "files" THEN Lists(n, configInfo[n])
                               ELSE configInfo[n] = Told(n)
      BY <1>1, <2>2, Zenon DEF IInv, AsTold, LastLegalWins
    <3>. QED  BY <1>1, <1>4, <3>1, ToldKept, Zenon
  <2>3. isClient => /\ configInfo'["msgc_server_ip"] = Address[Told("msgc_server_ip")']
                    /\ configInfo'["msgc_server_ip"] # ""
    <3>1. Told("msgc_server_ip")' = Told("msgc_server_ip")
      BY <1>1, InputsKept, Zenon
    <3>. QED  BY <1>1, <1>4, <3>1, Zenon DEF IInv, AsTold, LastLegalWins
  <2>. QED  BY <1>4, <2>1, <2>2, <2>3, Zenon DEF AsTold, LastLegalWins
<1>. QED  BY <1>4, <1>5, <1>6, <1>8, <1>9 DEF IInv

(* And nothing changes afterwards.                                          *)
LEMMA StepStopped == ASSUME IInv, UNCHANGED vars PROVE IInv'
<1>1. /\ UNCHANGED <<inputs, configs, i>> /\ configInfo' = configInfo
      /\ stage' = stage /\ sslConfig' = sslConfig
  BY DEF vars
<1>2. /\ InputsFixed' /\ ItemsTaken' /\ Kind' = Kind /\ isClient' = isClient
      /\ file' = file /\ i' = i
  BY <1>1, LaterFacts
<1>3. Progress' /\ Values'
  BY <1>1, <1>2, Zenon DEF IInv, Progress, Values
<1>4. TlsMade'
  BY <1>1, <1>2, Zenon DEF IInv, TlsMade, ClientWantsSsl, ServerWantsSsl
<1>5. AsTold'
  <2>1. stage \in {"address", "ssl", "done"} =>
          \A n \in DOMAIN Kind' \ {"msgc_server_ip"} :
            IF Kind'[n] = "files" THEN Lists(n, configInfo[n])'
                                  ELSE configInfo'[n] = Told(n)'
    <3>. SUFFICES ASSUME stage \in {"address", "ssl", "done"},
                         NEW n \in DOMAIN Kind \ {"msgc_server_ip"}
                  PROVE  IF Kind'[n] = "files" THEN Lists(n, configInfo[n])'
                                               ELSE configInfo'[n] = Told(n)'
      BY <1>2, Zenon
    <3>1. IF Kind[n] = "files" THEN Lists(n, configInfo[n])
                               ELSE configInfo[n] = Told(n)
      BY Zenon DEF IInv, AsTold, LastLegalWins
    <3>. QED  BY <1>1, <3>1, ToldKept, Zenon
  <2>2. Told("msgc_server_ip")' = Told("msgc_server_ip")
    BY <1>1, InputsKept, Zenon
  <2>. QED  BY <1>1, <1>2, <2>1, <2>2, Zenon DEF IInv, AsTold, LastLegalWins
<1>. QED  BY <1>2, <1>3, <1>4, <1>5 DEF IInv

------------------------------------------------------------------------------
(* The theorems.                                                             *)

\* Whatever the files, the arguments and their lengths, the invariant holds.
THEOREM ConfigIInv == Spec => []IInv
<1>1. Init => IInv
  BY ConfigInit
<1>2. IInv /\ [Next]_vars => IInv'
  <2>. SUFFICES ASSUME IInv, [Next]_vars PROVE IInv'
    OBVIOUS
  <2>1. CASE ReadValue
    BY <2>1, StepReadValue
  <2>2. CASE ReadSecret
    BY <2>2, StepReadSecret
  <2>3. CASE ReadFiles
    BY <2>3, StepReadFiles
  <2>4. CASE ReadPath
    BY <2>4, StepReadPath
  <2>5. CASE ReadUnknown
    BY <2>5, StepReadUnknown
  <2>6. CASE ReadEnd
    BY <2>6, StepReadEnd
  <2>7. CASE Override
    BY <2>7, StepOverride
  <2>8. CASE Resolve
    BY <2>8, StepResolve
  <2>9. CASE MakeSsl
    BY <2>9, StepMakeSsl
  <2>10. CASE Stopped \/ UNCHANGED vars
    BY <2>10, StepStopped DEF Stopped
  <2>. QED  BY <2>1, <2>2, <2>3, <2>4, <2>5, <2>6, <2>7, <2>8, <2>9, <2>10 DEF Next
<1>. QED  BY <1>1, <1>2, PTL DEF Spec

\* No file and no argument can put an illegal value into the configuration, for
\* any tables of what texts mean.
THEOREM ConfigTypeCorrect == Spec => []TypeOK
<1>1. IInv => TypeOK
  BY Zenon DEF IInv, InputsFixed, Progress, ItemsTaken, Values, TypeOK
<1>. QED  BY <1>1, ConfigIInv, PTL

\* After all stages the configuration is what Init was told, for files with any
\* number of items of one name.
THEOREM ConfigLastLegalWins == Spec => []LastLegalWins
<1>1. IInv => LastLegalWins
  BY DEF IInv, AsTold
<1>. QED  BY <1>1, ConfigIInv, PTL

\* Once the file has been read no item keeps a password, however many items
\* there are with one.
THEOREM ConfigSecretsWiped == Spec => []SecretsWiped
<1>1. IInv => SecretsWiped
  <2>. SUFFICES ASSUME IInv, stage # "read", NEW k \in DOMAIN configs,
                       configs[k].name \in DOMAIN Kind,
                       Kind[configs[k].name] = "secret"
                PROVE  configs[k].value = ""
    BY Zenon DEF SecretsWiped
  <2>1. i = Len(file) + 1 /\ Len(configs) = Len(file)
    BY DEF IInv, Progress, ItemsTaken
  <2>2. k \in 1 .. Len(file) /\ Len(file) \in Nat
    <3>1. configs \in Seq([name : Names, value : Strings])
      BY DEF IInv, ItemsTaken
    <3>2. DOMAIN configs = 1 .. Len(configs) /\ Len(configs) \in Nat
      BY <3>1, LenProperties
    <3>. QED  BY <2>1, <3>2
  <2>3. k < i
    BY <2>1, <2>2
  <2>4. configs[k].name = file[k].name
    BY <2>2, Zenon DEF IInv, ItemsTaken
  <2>. QED  BY <2>2, <2>3, <2>4, Zenon DEF IInv, ItemsTaken
<1>. QED  BY <1>1, ConfigIInv, PTL

(* The kinds of the names the TLS decision looks at.                          *)
LEMMA TlsKinds ==
  /\ isClient =>
       /\ "msgc_ssl_cafile" \in DOMAIN Kind /\ Kind["msgc_ssl_cafile"] = "files"
       /\ "msgc_enable_ssl" \in DOMAIN Kind /\ Kind["msgc_enable_ssl"] = "flag"
  /\ ~isClient =>
       /\ "msgs_ssl_cafile" \in DOMAIN Kind /\ Kind["msgs_ssl_cafile"] = "files"
       /\ "msgs_ssl_certfile" \in DOMAIN Kind /\ Kind["msgs_ssl_certfile"] = "files"
       /\ "msgs_enable_ssl" \in DOMAIN Kind /\ Kind["msgs_enable_ssl"] = "flag"
<1>1. ClientKind["msgc_ssl_cafile"] = "files" /\ ClientKind["msgc_enable_ssl"] = "flag"
  BY SMT DEF ClientKind
<1>2. /\ ServerKind["msgs_ssl_cafile"] = "files"
      /\ ServerKind["msgs_ssl_certfile"] = "files"
      /\ ServerKind["msgs_enable_ssl"] = "flag"
  BY SMT DEF ServerKind
<1>3. {"msgc_ssl_cafile", "msgc_enable_ssl"} \subseteq ClientNames
  BY DEF ClientNames
<1>4. {"msgs_ssl_cafile", "msgs_ssl_certfile", "msgs_enable_ssl"} \subseteq ServerNames
  BY DEF ServerNames
<1>5. CASE isClient
  BY <1>1, <1>3, <1>5, Tables DEF Kind
<1>6. CASE ~isClient
  BY <1>2, <1>4, <1>6, Tables DEF Kind
<1>. QED  BY <1>5, <1>6

\* Init ends with TLS exactly if the file says so and lists what it takes.
THEOREM ConfigSslAsFiled == Spec => []SslAsFiled
<1>1. IInv => SslAsFiled
  <2>. SUFFICES ASSUME IInv, stage = "done" PROVE SslAsFiled
    BY DEF SslAsFiled
  <2>1. sslConfig <=> IF isClient THEN ClientWantsSsl ELSE ServerWantsSsl
    BY DEF IInv, TlsMade
  <2>2. ASSUME NEW n \in DOMAIN Kind, Kind[n] = "files",
               n # "msgc_server_ip"
        PROVE  Len(configInfo[n]) > 0 <=> Counting(n) # {}
    <3>2. Lists(n, configInfo[n])
      BY <2>2 DEF IInv, AsTold, LastLegalWins
    <3>3. configInfo[n] \in Seq(Strings \ {""})
      BY <2>2, Legals, Zenon DEF IInv, Values
    <3>. QED  BY <3>2, <3>3, ListsLength DEF IInv
  <2>3. ASSUME NEW n \in DOMAIN Kind, Kind[n] # "files",
               n \in {"msgc_enable_ssl", "msgs_enable_ssl"}
        PROVE  configInfo[n] = Says(n)
    <3>1. configInfo[n] = Told(n)
      BY <2>3 DEF IInv, AsTold, LastLegalWins
    <3>2. ~Given(n)
      BY <2>3, GivenNames DEF IInv
    <3>. QED  BY <3>1, <3>2, Zenon DEF Told
  <2>4. CASE isClient
    <3>1. /\ Kind["msgc_ssl_cafile"] = "files" /\ "msgc_ssl_cafile" \in DOMAIN Kind
          /\ Kind["msgc_enable_ssl"] = "flag" /\ "msgc_enable_ssl" \in DOMAIN Kind
      BY <2>4, TlsKinds
    <3>2. Kind["msgc_enable_ssl"] # "files"
      BY <3>1
    <3>. QED  BY <2>1, <2>2, <2>3, <2>4, <3>1, <3>2, Zenon
              DEF SslAsFiled, ClientWantsSsl
  <2>5. CASE ~isClient
    <3>1. /\ Kind["msgs_ssl_cafile"] = "files" /\ "msgs_ssl_cafile" \in DOMAIN Kind
          /\ Kind["msgs_ssl_certfile"] = "files" /\ "msgs_ssl_certfile" \in DOMAIN Kind
          /\ Kind["msgs_enable_ssl"] = "flag" /\ "msgs_enable_ssl" \in DOMAIN Kind
      BY <2>5, TlsKinds
    <3>2. Kind["msgs_enable_ssl"] # "files"
      BY <3>1
    <3>. QED  BY <2>1, <2>2, <2>3, <2>5, <3>1, <3>2, Zenon
              DEF SslAsFiled, ServerWantsSsl
  <2>. QED  BY <2>4, <2>5
<1>. QED  BY <1>1, ConfigIInv, PTL
==============================================================================
