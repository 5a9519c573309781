------------------------------- MODULE MtpConfig -------------------------------
(***************************************************************************)
(* What the MTP component promises about the persisted configuration of   *)
(* Device.LocalAgent.MTP.{i}, seen from the data model: rows are added up  *)
(* to the table's capacity, deleted, and written one validated parameter   *)
(* at a time; deleting a STOMP connection empties the Reference of the     *)
(* STOMP-protocol rows that named it; and the only row the agent removes   *)
(* on its own is one that cannot be brought up at start (a Reference that  *)
(* no longer resolves, or an enabled CoAP endpoint whose server may fail   *)
(* to start), and it does so only while it serves no request, between a  *)
(* restart or shutdown and the end of its start.  Nothing here says how   *)
(* the in-memory table works.                                              *)
(***************************************************************************)
EXTENDS Naturals, FiniteSets, TLC

CONSTANTS
    MaxMtps,         \* capacity of the table
    Instances,       \* instance numbers the data model can hand out
    Connections,     \* Device.STOMP.Connection instance numbers
    NoRef,           \* an empty STOMP.Reference
    ProtocolStrings, \* Protocol values the validator accepts
    Queues, Ports, Paths

VARIABLES
    rows,    \* the persisted rows, a function from present instances
    conns,   \* instances present in Device.STOMP.Connection
    serving  \* the agent runs and serves data-model requests

cvars == <<rows, conns, serving>>

\* A row as a set of parameter values, every one admitted by its validator
\* when the connections present are live
ValidRows(live) ==
    [enable: BOOLEAN, protocol: ProtocolStrings, reference: {NoRef} \cup live,
     destination: Queues, port: Ports, path: Paths]

\* The values parameter f may be set to
FieldValues(f, live) ==
    CASE f = "enable"      -> BOOLEAN
      [] f = "protocol"    -> ProtocolStrings
      [] f = "reference"   -> {NoRef} \cup live
      [] f = "destination" -> Queues
      [] f = "port"        -> Ports
      [] f = "path"        -> Paths

Fields == {"enable", "protocol", "reference", "destination", "port", "path"}

Init ==
    /\ rows = [i \in {} |-> NoRef]
    /\ conns = {}
    /\ serving = TRUE

\* A request of the data model, served only once the agent runs
Request(A) == serving /\ A /\ UNCHANGED serving

Add(i, r) ==
    /\ i \in Instances \ DOMAIN rows
    /\ Cardinality(DOMAIN rows) < MaxMtps
    /\ r \in ValidRows(conns)
    /\ rows' = rows @@ (i :> r)
    /\ UNCHANGED conns

Delete(i) ==
    /\ i \in DOMAIN rows
    /\ rows' = [j \in DOMAIN rows \ {i} |-> rows[j]]
    /\ UNCHANGED conns

Set(i, f, v) ==
    /\ i \in DOMAIN rows
    /\ v \in FieldValues(f, conns)
    /\ rows' = [rows EXCEPT ![i][f] = v]
    /\ UNCHANGED conns

AddConn(c) ==
    /\ c \in Connections \ conns
    /\ conns' = conns \cup {c}
    /\ UNCHANGED rows

\* The Reference of every STOMP row naming c becomes empty
DeleteConn(c) ==
    /\ c \in conns
    /\ conns' = conns \ {c}
    /\ rows' = [i \in DOMAIN rows |->
                  IF rows[i].protocol = "STOMP" /\ rows[i].reference = c
                    THEN [rows[i] EXCEPT !.reference = NoRef]
                    ELSE rows[i]]

\* The agent restarts or shuts down and stops serving requests
Halt ==
    /\ serving
    /\ ~serving'
    /\ UNCHANGED <<rows, conns>>

\* A row that cannot be brought up
Unstartable(r) ==
    \/ r.reference \notin {NoRef} \cup conns
    \/ r.enable /\ r.protocol = "CoAP"

\* Not serving, the agent removes such a row, possibly as the last step of
\* its start
Heal(i) ==
    /\ ~serving
    /\ i \in DOMAIN rows
    /\ Unstartable(rows[i])
    /\ rows' = [j \in DOMAIN rows \ {i} |-> rows[j]]
    /\ serving' \in BOOLEAN
    /\ UNCHANGED conns

Started ==
    /\ ~serving
    /\ serving'
    /\ UNCHANGED <<rows, conns>>

\* The row added, and the value written, are read off the next state rather
\* than enumerated
Next ==
    \/ \E i \in Instances \ DOMAIN rows :
         Request(i \in DOMAIN rows' /\ Add(i, rows'[i]))
    \/ \E i \in DOMAIN rows : Request(Delete(i)) \/ Heal(i)
    \/ \E i \in DOMAIN rows, f \in Fields :
         Request(DOMAIN rows' = DOMAIN rows /\ Set(i, f, rows'[i][f]))
    \/ \E c \in Connections : Request(AddConn(c)) \/ Request(DeleteConn(c))
    \/ Halt \/ Started

Spec == Init /\ [][Next]_cvars

====
