----------------------------- MODULE MC_MtpTable -----------------------------
(* Instantiations of MtpTable for TLC.  Both use two slots and three MTP   *)
(* instances over time, so that the table fills, an add is refused, and a  *)
(* slot is reused.  The STOMP configuration varies connections and queues  *)
(* with a single CoAP port and path; the CoAP configuration varies ports   *)
(* and paths with one connection and no non-empty queue.                   *)
EXTENDS MtpTable

MC_MaxMtps        == 2
MC_MaxInstance    == 3
MC_ProtocolInputs == {"", "STOMP", "CoAP", "XMPP"}

MC_StompConns  == 2
MC_StompQueues == {"", "q1"}
MC_StompPorts  == {5683}
MC_StompPaths  == {""}

MC_CoapConns  == 1
MC_CoapQueues == {""}
MC_CoapPorts  == {5683, 5684}
MC_CoapPaths  == {"", "a"}

\* Liveness: the STOMP configuration with two instance numbers and the
\* protocols that decide whether a slot matches a connection
MC_LiveMaxInstance    == 2
MC_LiveProtocolInputs == {"STOMP", "CoAP"}
\* Three slots sharing one connection, so the first match and the cascade
\* run over a full table; the queue stays q1 or ""
MC_WideMtps      == 3
MC_WideConns     == 1
MC_WideInstance  == 4
MC_WideProtocols == {"STOMP", "CoAP"}
====
