---------------------------- MODULE MCFtpSession ----------------------------
(* Small instances of FtpSession for TLC. *)
EXTENDS FtpSession, TLC

AllCommands == {"PASS", "PORT", "PASV", "REST", "ABOR", "QUIT",
                "RETR", "STOR", "APPE", "LIST"}

\* Behaviours in which nothing fails, and behaviours in which anything may.
AllFaults == {{}, {"open", "lock", "seek", "net", "disk", "truncate", "rate"}}
NoFaults == {{}}

\* Every setting of idle_session_timeout and data_connection_timeout.
AllTunables == [idle : BOOLEAN, data : BOOLEAN]
BothTimers == {[idle |-> TRUE, data |-> TRUE]}
=============================================================================
