------------------------------- MODULE MCConf -------------------------------
(* Configurations with a few blocks and directives.                        *)
EXTENDS ConfMerge, TLC

\* http { server { location l1 { location l2 {} } } }
Nested == [http |-> Unset, server |-> "http", l1 |-> "server", l2 |-> "l1"]

KeyFiles == {"pem", "text", "short", "gone"}
KeyContent == [pem |-> "pem", text |-> "text", short |-> "short",
               gone |-> "unreadable"]

\* Two good key files, for the runs about which of them is used.
TwoPem == {"k1", "k2"}
TwoPemContent == [k1 |-> "pem", k2 |-> "pem"]
=============================================================================
