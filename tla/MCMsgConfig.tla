----------------------------- MODULE MCMsgConfig -----------------------------
(* An instance of MsgConfig: names of every kind, texts that mean a legal or  *)
(* an illegal number, a relative or an absolute path, a known or unknown      *)
(* host, a user, a user of class 0 (as of a malformed text) or none.          *)
EXTENDS MsgConfig

MCTexts == {"", "7", "0", "70000", "/x", "y"}
MCAtoi == [t \in MCTexts |-> CASE t = "7" -> 7 [] t = "70000" -> 70000
                               [] OTHER -> 0]
MCResolved == [t \in MCTexts |-> IF t \in {"", "/x"} THEN t ELSE "exe/" \o t]
MCAddress == [t \in MCTexts \cup {"127.0.0.1"} |->
                CASE t = "y" -> "10.0.0.1" [] t = "127.0.0.1" -> t
                  [] OTHER -> ""]
MCUsers == {"2-0-0", "7-0-0", "0-0-0"}
MCUserOf == [t \in MCTexts |-> CASE t = "7" -> "7-0-0" [] t = "0" -> "0-0-0"
                                 [] OTHER -> ""]
MCMmTypes == 5 .. 10
MCNames ==
  {"msgc_server_ip", "msgc_server_port", "msgc_id", "msgc_password",
   "msgc_enable_ssl", "msgc_ssl_cafile", "msgc_ssl_sni", "msgs_mm_type", "msgs_redline_bytes",
   "msgs_password_cid2", "msgs_enable_ssl", "msgs_ssl_cafile",
   "msgs_ssl_certfile", "msgs_ssl_keyfile"}
==============================================================================
