------------------------------- MODULE MtpTable -------------------------------
(***************************************************************************)
(* The Device.LocalAgent.MTP table of src/src/core/device_mtp.c: the       *)
(* in-memory array agent_mtps[] of MAX_AGENT_MTPS slots, the persisted     *)
(* data model rows it mirrors, and the two transport collaborators it      *)
(* drives: the STOMP connection manager (deferred reconnects) and the CoAP *)
(* servers (synchronous start/stop that may fail).                         *)
(*                                                                         *)
(* Every notify handler of device_mtp.c is a pure operator from a          *)
(* handler state St == [mtps, servers, sched, err] to the next one; an     *)
(* action performs the data-model write that triggers it and applies the   *)
(* result.  ENABLE_COAP is taken as compiled in.                           *)
(***************************************************************************)
EXTENDS Integers, Sequences, FiniteSets, SequencesExt

CONSTANTS
    MaxMtps,          \* MAX_AGENT_MTPS
    MaxInstance,      \* bound on the MTP instance numbers the data model hands out
    NumConns,         \* bound on the Device.STOMP.Connection instance numbers
    Queues,           \* values of STOMP.Destination tried ("" included)
    Ports,            \* values of CoAP.Port tried (already range-checked)
    Paths,            \* values of CoAP.Path tried
    ProtocolInputs,   \* strings written to Protocol, valid and invalid
    CoapStartMayFail, \* whether COAP_StartServer may return an error
    StoreDeleteMayFail, \* whether DATA_MODEL_DeleteInstance may return an error
    ReferenceReadMayFail, \* whether the Reference handler's re-read of
                          \* STOMP.Reference (DATA_MODEL_GetParameterValue)
                          \* may return an error
    ReuseInstances,   \* whether the data model hands out max(present)+1
                      \* rather than a never-used instance number
    ReconnectCapturesQueue \* whether a scheduled reconnect takes the queue
                           \* current when DEVICE_STOMP_ScheduleReconnect is
                           \* called, rather than when it is performed

ASSUME MaxMtps \in Nat \ {0} /\ MaxInstance \in Nat /\ NumConns \in Nat
ASSUME "" \in Queues /\ 5683 \in Ports /\ "" \in Paths
ASSUME CoapStartMayFail \in BOOLEAN /\ ReuseInstances \in BOOLEAN
ASSUME StoreDeleteMayFail \in BOOLEAN /\ ReferenceReadMayFail \in BOOLEAN
ASSUME ReconnectCapturesQueue \in BOOLEAN

INVALID == -1
Instances   == 1..MaxInstance
Connections == 1..NumConns
SlotIdx     == 1..MaxMtps

\* mtp_protocols[]: the enum table used by TEXT_UTILS_StringToEnum
mtp_protocols == [s \in {"", "STOMP", "CoAP"} |->
                    CASE s = ""      -> "None"
                      [] s = "STOMP" -> "STOMP"
                      [] s = "CoAP"  -> "CoAP"]
\* INVALID, as TEXT_UTILS_StringToEnum returns it for an unknown string
INVALID_ENUM == "INVALID"
StringToEnum(v) == IF v \in DOMAIN mtp_protocols THEN mtp_protocols[v] ELSE INVALID_ENUM
Protocols == {"None", "STOMP", "CoAP"}

NullStr  == "(null)"     \* a freed or never-allocated string pointer
NoQueue  == "(none)"     \* DEVICE_MTP_GetAgentStompQueue returned NULL
ReadNow  == "(at reconnect)" \* no queue captured: read when the reconnect runs
NoServer == [port |-> 0, path |-> NullStr]  \* no CoAP server runs for the instance
EmptyRef == 0            \* STOMP.Reference holding the empty string

OK == "OK"

\* A persisted row of Device.LocalAgent.MTP.{i}; reference c stands for the
\* path "Device.STOMP.Connection.c"
DbRow == [enable: BOOLEAN, protocol: ProtocolInputs, reference: {EmptyRef} \cup Connections,
          destination: Queues, port: Ports, path: Paths]
\* Registration defaults of DEVICE_MTP_Init
DefaultRow == [enable |-> FALSE, protocol |-> "STOMP", reference |-> EmptyRef,
               destination |-> "", port |-> 5683, path |-> ""]

\* agent_mtp_t
Slot == [instance: {INVALID} \cup Instances, enable: BOOLEAN, protocol: Protocols,
         stomp_connection_instance: {INVALID, 0} \cup Connections,
         stomp_agent_queue: Queues \cup {NullStr}, coap_port: Ports \cup {0},
         coap_path: Paths \cup {NullStr}]
\* The memset of DEVICE_MTP_Init followed by instance = INVALID
InitSlot == [instance |-> INVALID, enable |-> FALSE, protocol |-> "None",
             stomp_connection_instance |-> 0, stomp_agent_queue |-> NullStr,
             coap_port |-> 0, coap_path |-> NullStr]
Server == [port: Ports, path: Paths]

VARIABLES
    agent_mtps,   \* the agent_mtps[] array
    db,           \* persisted rows, by instance number
    dbInst,       \* instances present in Device.LocalAgent.MTP
    nextInst,     \* next never-used instance number; also bounds the adds
    conns,        \* instances present in Device.STOMP.Connection
    nextConn,     \* next STOMP connection instance number
    pending,      \* connections with a reconnect scheduled and not yet done
    captured,     \* queue a pending reconnect of each connection will use
    subscribed,   \* queue each connection took from this table at its last (re)connect
    coap_servers, \* CoAP server running per MTP instance, with its port and path
    phase,        \* "running"; "starting" while DEVICE_MTP_Start runs;
                  \* "aborted" once it returned an error and the agent stopped;
                  \* "stopped" after DEVICE_MTP_Stop at a clean shutdown
    bootTodo      \* instances DEVICE_MTP_Start has still to process

vars == <<agent_mtps, db, dbInst, nextInst, conns, nextConn, pending, captured, subscribed,
          coap_servers, phase, bootTodo>>

-----------------------------------------------------------------------------
(* Collaborators outside src/: the STOMP and CoAP modules.                 *)

COAP_StartServer(st, i, port, path, ok) ==
    [st EXCEPT !.servers[i] = IF ok THEN [port |-> port, path |-> path] ELSE NoServer,
               !.err = IF ok THEN OK ELSE "COAP_START"]

COAP_StopServer(st, i) == [st EXCEPT !.servers[i] = NoServer]

StartOutcomes == IF CoapStartMayFail THEN BOOLEAN ELSE {TRUE}

\* DATA_MODEL_DeleteInstance succeeds (TRUE) or returns an error
DeleteOutcomes == IF StoreDeleteMayFail THEN BOOLEAN ELSE {TRUE}

\* DATA_MODEL_GetParameterValue of STOMP.Reference succeeds (TRUE) or fails
ReadOutcomes == IF ReferenceReadMayFail THEN BOOLEAN ELSE {TRUE}

\* Stands for a Reference whose read returned an error
ReadFailed == -2

\* The instance number the data model gives a new Device.LocalAgent.MTP row
NewInstance ==
    IF ReuseInstances
      THEN IF dbInst = {} THEN 1 ELSE Max(dbInst) + 1
      ELSE nextInst

-----------------------------------------------------------------------------
(* Slot store.                                                             *)

FindUnusedAgentMtp(mtps) ==
    LET free == {k \in SlotIdx : mtps[k].instance = INVALID}
    IN  IF free = {} THEN INVALID ELSE Min(free)

FindAgentMtpByInstance(mtps, i) ==
    LET hit == {k \in SlotIdx : mtps[k].instance = i}
    IN  IF hit = {} THEN INVALID ELSE Min(hit)

DestroyAgentMtp(m) ==
    [m EXCEPT !.instance = INVALID, !.protocol = "None", !.enable = FALSE,
              !.stomp_connection_instance = INVALID, !.stomp_agent_queue = NullStr,
              !.coap_path = NullStr, !.coap_port = 0]

\* DEVICE_MTP_GetAgentStompQueue: first enabled STOMP slot on connection c
\* with a non-empty destination
DEVICE_MTP_GetAgentStompQueue(mtps, c) ==
    LET hit == {k \in SlotIdx : /\ mtps[k].instance # INVALID
                                /\ mtps[k].enable
                                /\ mtps[k].stomp_connection_instance = c
                                /\ mtps[k].protocol = "STOMP"
                                /\ mtps[k].stomp_agent_queue # ""}
    IN  IF hit = {} THEN NoQueue ELSE mtps[Min(hit)].stomp_agent_queue

\* DEVICE_STOMP_ScheduleReconnect: queued, performed after the response.
\* Read as capturing the parameters current at the call, it records the
\* queue DEVICE_MTP_GetAgentStompQueue returns for c at that moment.
ScheduleReconnect(st, c) ==
    [st EXCEPT !.sched = @ \cup {c},
               !.snap[c] = IF ReconnectCapturesQueue
                             THEN DEVICE_MTP_GetAgentStompQueue(st.mtps, c)
                             ELSE ReadNow]

\* DEVICE_MTP_GetStompReference: resolve a persisted reference against the
\* STOMP connection table
DEVICE_MTP_GetStompReference(ref, live) ==
    CASE ref = ReadFailed -> [err |-> "READ", inst |-> INVALID]
      [] ref = EmptyRef -> [err |-> OK, inst |-> INVALID]
      [] ref \in live   -> [err |-> OK, inst |-> ref]
      [] OTHER          -> [err |-> "REFERENCE", inst |-> INVALID]

DEVICE_MTP_ValidateStompReference(ref, live) == ref = EmptyRef \/ ref \in live

\* Mutant: the protocol validator is not registered, any string passes
Validate_AgentMtpProtocol_AcceptAll(v) == TRUE

Validate_AgentMtpProtocol(v) == StringToEnum(v) # INVALID_ENUM

-----------------------------------------------------------------------------
(* Population: ProcessAgentMtpAdded reads the persisted row of instance i  *)
(* into the first free slot, in the order Enable, Protocol, Reference,     *)
(* Destination, Port, Path, then starts a CoAP server; any failure         *)
(* destroys the slot.  The trailing reconnect reads the slot after that    *)
(* destroy.                                                                *)

\* Mutant: the CoAP server is started whatever the Enable read
ProcessAgentMtpAdded_StartDisabled(st, i, row, live, ok) ==
    LET k   == FindUnusedAgentMtp(st.mtps)
        ref == DEVICE_MTP_GetStompReference(row.reference, live)
        \* the slot as read up to and including the Reference
        m1  == [InitSlot EXCEPT !.instance = i, !.stomp_connection_instance = ref.inst,
                                !.enable = row.enable, !.protocol = StringToEnum(row.protocol)]
        m2  == [m1 EXCEPT !.stomp_agent_queue = row.destination,
                          !.coap_port = row.port, !.coap_path = row.path]
        read == CASE m1.protocol = INVALID_ENUM -> [st EXCEPT !.mtps[k] = m1, !.err = "PROTOCOL"]
                  [] ref.err # OK          -> [st EXCEPT !.mtps[k] = m1, !.err = ref.err]
                  [] OTHER                 -> [st EXCEPT !.mtps[k] = m2]
        started == IF read.err = OK /\ m2.protocol = "CoAP"
                     THEN COAP_StartServer(read, i, m2.coap_port, m2.coap_path, ok)
                     ELSE read
        done == IF started.err # OK
                  THEN [started EXCEPT !.mtps[k] = DestroyAgentMtp(@)]
                  ELSE started
        m == done.mtps[k]
    IN  IF k = INVALID
          THEN [st EXCEPT !.err = "RESOURCES_EXCEEDED"]
        ELSE IF m.enable /\ m.protocol = "STOMP" /\ m.stomp_connection_instance # INVALID
          THEN ScheduleReconnect(done, m.stomp_connection_instance)
        ELSE done

ProcessAgentMtpAdded(st, i, row, live, ok) ==
    LET k   == FindUnusedAgentMtp(st.mtps)
        ref == DEVICE_MTP_GetStompReference(row.reference, live)
        \* the slot as read up to and including the Reference
        m1  == [InitSlot EXCEPT !.instance = i, !.stomp_connection_instance = ref.inst,
                                !.enable = row.enable, !.protocol = StringToEnum(row.protocol)]
        m2  == [m1 EXCEPT !.stomp_agent_queue = row.destination,
                          !.coap_port = row.port, !.coap_path = row.path]
        read == CASE m1.protocol = INVALID_ENUM -> [st EXCEPT !.mtps[k] = m1, !.err = "PROTOCOL"]
                  [] ref.err # OK          -> [st EXCEPT !.mtps[k] = m1, !.err = ref.err]
                  [] OTHER                 -> [st EXCEPT !.mtps[k] = m2]
        started == IF read.err = OK /\ m2.protocol = "CoAP" /\ m2.enable
                     THEN COAP_StartServer(read, i, m2.coap_port, m2.coap_path, ok)
                     ELSE read
        done == IF started.err # OK
                  THEN [started EXCEPT !.mtps[k] = DestroyAgentMtp(@)]
                  ELSE started
        m == done.mtps[k]
    IN  IF k = INVALID
          THEN [st EXCEPT !.err = "RESOURCES_EXCEEDED"]
        ELSE IF m.enable /\ m.protocol = "STOMP" /\ m.stomp_connection_instance # INVALID
          THEN ScheduleReconnect(done, m.stomp_connection_instance)
        ELSE done

-----------------------------------------------------------------------------
(* Notify handlers.  k is the slot FindAgentMtpByInstance returned.        *)

Notify_AgentMtpDeleted(st, i) ==
    LET k == FindAgentMtpByInstance(st.mtps, i)
        m == st.mtps[k]
        torn == CASE m.protocol = "STOMP" /\ m.stomp_connection_instance # INVALID
                       -> ScheduleReconnect(st, m.stomp_connection_instance)
                  [] m.protocol = "CoAP" -> COAP_StopServer(st, m.instance)
                  [] OTHER -> st
    IN  IF k = INVALID THEN st
        ELSE IF ~m.enable THEN st
        ELSE [torn EXCEPT !.mtps[k] = DestroyAgentMtp(@)]

\* Mutant: disabling a CoAP MTP forgets to stop its server
NotifyChange_AgentMtpEnable_NoStop(st, k, v, ok) ==
    LET m   == st.mtps[k]
        st1 == [st EXCEPT !.mtps[k].enable = v]
    IN  IF v = m.enable THEN st
        ELSE CASE m.protocol = "STOMP" ->
                    IF m.stomp_connection_instance # INVALID
                      THEN ScheduleReconnect(st1, m.stomp_connection_instance)
                      ELSE st1
               [] m.protocol = "CoAP" /\ v ->
                    COAP_StartServer(st1, m.instance, m.coap_port, m.coap_path, ok)
               [] OTHER -> st1

NotifyChange_AgentMtpEnable(st, k, v, ok) ==
    LET m   == st.mtps[k]
        st1 == [st EXCEPT !.mtps[k].enable = v]
    IN  IF v = m.enable THEN st
        ELSE CASE m.protocol = "STOMP" ->
                    IF m.stomp_connection_instance # INVALID
                      THEN ScheduleReconnect(st1, m.stomp_connection_instance)
                      ELSE st1
               [] m.protocol = "CoAP" ->
                    IF v THEN COAP_StartServer(st1, m.instance, m.coap_port, m.coap_path, ok)
                         ELSE COAP_StopServer(st1, m.instance)
               [] OTHER -> st1

\* Mutant: the "not enabled" early return placed before the store
NotifyChange_AgentMtpProtocol_ExitBeforeStore(st, k, v, ok) ==
    LET m   == st.mtps[k]
        new == StringToEnum(v)
        st1 == [st EXCEPT !.mtps[k].protocol = new]
        st2 == IF m.stomp_connection_instance # INVALID
                 THEN ScheduleReconnect(st1, m.stomp_connection_instance)
                 ELSE st1
        st3 == IF m.protocol = "CoAP" THEN COAP_StopServer(st2, m.instance) ELSE st2
    IN  IF ~m.enable THEN st
        ELSE IF new = m.protocol THEN st1
        ELSE IF new = "CoAP"
               THEN COAP_StartServer(st3, m.instance, m.coap_port, m.coap_path, ok)
               ELSE st3

NotifyChange_AgentMtpProtocol(st, k, v, ok) ==
    LET m   == st.mtps[k]
        new == StringToEnum(v)
        st1 == [st EXCEPT !.mtps[k].protocol = new]
        st2 == IF m.stomp_connection_instance # INVALID
                 THEN ScheduleReconnect(st1, m.stomp_connection_instance)
                 ELSE st1
        st3 == IF m.protocol = "CoAP" THEN COAP_StopServer(st2, m.instance) ELSE st2
    IN  IF ~m.enable \/ new = m.protocol THEN st1
        ELSE IF new = "CoAP"
               THEN COAP_StartServer(st3, m.instance, m.coap_port, m.coap_path, ok)
               ELSE st3

\* Stop then start the server with the slot's current port and path
RestartCoap(st, k, ok) ==
    LET m == st.mtps[k]
    IN  IF m.protocol = "CoAP" /\ m.enable
          THEN COAP_StartServer(COAP_StopServer(st, m.instance), m.instance,
                                m.coap_port, m.coap_path, ok)
          ELSE st

\* Mutant: the new port is stored only when the server is restarted
NotifyChange_AgentMtpCoAPPort_StoreIfLive(st, k, v, ok) ==
    LET m == st.mtps[k]
    IN  IF v = m.coap_port \/ ~(m.protocol = "CoAP" /\ m.enable) THEN st
        ELSE RestartCoap([st EXCEPT !.mtps[k].coap_port = v], k, ok)

NotifyChange_AgentMtpCoAPPort(st, k, v, ok) ==
    IF v = st.mtps[k].coap_port THEN st
    ELSE RestartCoap([st EXCEPT !.mtps[k].coap_port = v], k, ok)

NotifyChange_AgentMtpCoAPPath(st, k, v, ok) ==
    RestartCoap([st EXCEPT !.mtps[k].coap_path = v], k, ok)

NotifyChange_AgentMtpStompReference(st, k, ref, live) ==
    LET m    == st.mtps[k]
        r    == DEVICE_MTP_GetStompReference(ref, live)
        last == m.stomp_connection_instance
        st1  == [st EXCEPT !.mtps[k].stomp_connection_instance = r.inst]
        st2  == IF last # INVALID THEN ScheduleReconnect(st1, last) ELSE st1
        st3  == IF r.inst # INVALID THEN ScheduleReconnect(st2, r.inst) ELSE st2
    IN  IF r.err # OK
          THEN [st EXCEPT !.mtps[k].stomp_connection_instance = INVALID, !.err = r.err]
        ELSE IF m.enable /\ m.protocol = "STOMP" /\ last # r.inst THEN st3
        ELSE st1

NotifyChange_AgentMtpStompDestination(st, k, v) ==
    LET m   == st.mtps[k]
        st1 == [st EXCEPT !.mtps[k].stomp_agent_queue = v]
    IN  IF /\ m.enable /\ m.protocol = "STOMP" /\ m.stomp_agent_queue # v
           /\ m.stomp_connection_instance # INVALID
          THEN ScheduleReconnect(st1, m.stomp_connection_instance)
          ELSE st1

\* The slots DEVICE_MTP_NotifyStompConnDeleted clears for connection c
StompRefHolders(mtps, c) ==
    {k \in SlotIdx : /\ mtps[k].instance # INVALID
                     /\ mtps[k].protocol = "STOMP"
                     /\ mtps[k].stomp_connection_instance = c}

\* Each cleared Reference re-enters NotifyChange_AgentMtpStompReference
DEVICE_MTP_NotifyStompConnDeleted(st, c, live) ==
    LET Clear(s, k) == IF k \in StompRefHolders(s.mtps, c)
                         THEN NotifyChange_AgentMtpStompReference(s, k, EmptyRef, live)
                         ELSE s
    IN  FoldLeft(Clear, st, [k \in SlotIdx |-> k])

-----------------------------------------------------------------------------
(* The system: data-model writes that trigger the handlers, the STOMP      *)
(* connection table, the STOMP module performing reconnects, and a restart *)
(* of the agent followed by DEVICE_MTP_Start.                              *)

Init ==
    /\ agent_mtps = [k \in SlotIdx |-> InitSlot]
    /\ db = [i \in Instances |-> DefaultRow]
    /\ dbInst = {}
    /\ nextInst = 1
    /\ conns = {}
    /\ nextConn = 1
    /\ pending = {}
    /\ captured = [c \in Connections |-> ReadNow]
    /\ subscribed = [c \in Connections |-> NoQueue]
    /\ coap_servers = [i \in Instances |-> NoServer]
    /\ phase = "running"
    /\ bootTodo = <<>>

Running == phase = "running"

\* A slot in use (instance != INVALID)
Occupied(k) == agent_mtps[k].instance # INVALID

\* The handler state a notify callback starts from
Cur == [mtps |-> agent_mtps, servers |-> coap_servers, sched |-> {}, snap |-> captured,
        err |-> OK]

\* Apply a handler's result; reconnects of connections that no longer exist
\* are dropped by the STOMP module
Apply(st) ==
    /\ agent_mtps' = st.mtps
    /\ coap_servers' = st.servers
    /\ pending' = pending \cup (st.sched \cap conns)
    /\ captured' = st.snap

\* Rows an Add request can persist: every parameter passed its validator
AddRows == {r \in DbRow : /\ Validate_AgentMtpProtocol(r.protocol)
                          /\ DEVICE_MTP_ValidateStompReference(r.reference, conns)}

\* Add Device.LocalAgent.MTP.{i}: ValidateAdd_AgentMtp, then
\* Notify_AgentMtpAdded; a failed notify aborts the add
AddMtp ==
    /\ Running
    /\ nextInst \in Instances
    /\ FindUnusedAgentMtp(agent_mtps) # INVALID
    /\ \E row \in AddRows, ok \in StartOutcomes :
         LET i  == NewInstance
             st == ProcessAgentMtpAdded(Cur, i, row, conns, ok)
         IN  /\ Apply(st)
             /\ IF st.err = OK
                  THEN /\ db' = [db EXCEPT ![i] = row]
                       /\ dbInst' = dbInst \cup {i}
                  ELSE UNCHANGED <<db, dbInst>>
    /\ nextInst' = nextInst + 1
    /\ UNCHANGED <<conns, nextConn, subscribed, phase, bootTodo>>

\* Delete Device.LocalAgent.MTP.{i}, then Notify_AgentMtpDeleted
DeleteMtp ==
    /\ Running
    /\ \E i \in dbInst :
         /\ dbInst' = dbInst \ {i}
         /\ db' = [db EXCEPT ![i] = DefaultRow]
         /\ Apply(Notify_AgentMtpDeleted(Cur, i))
    /\ UNCHANGED <<nextInst, conns, nextConn, subscribed, phase, bootTodo>>

\* A validated write of parameter f of instance i followed by its notify
\* handler, whose result is st
WriteParam(i, f, v, st) ==
    /\ db' = [db EXCEPT ![i][f] = v]
    /\ Apply(st)
    /\ UNCHANGED <<dbInst, nextInst, conns, nextConn, subscribed, phase, bootTodo>>

\* The slot of a persisted instance (USP_ASSERT(mtp != NULL) in the handlers)
SlotOf(i) == FindAgentMtpByInstance(agent_mtps, i)

SetEnable ==
    /\ Running
    /\ \E i \in dbInst, v \in BOOLEAN, ok \in StartOutcomes :
         /\ SlotOf(i) # INVALID
         /\ WriteParam(i, "enable", v, NotifyChange_AgentMtpEnable(Cur, SlotOf(i), v, ok))

SetProtocol ==
    /\ Running
    /\ \E i \in dbInst, v \in ProtocolInputs, ok \in StartOutcomes :
         /\ SlotOf(i) # INVALID
         /\ Validate_AgentMtpProtocol(v)
         /\ WriteParam(i, "protocol", v, NotifyChange_AgentMtpProtocol(Cur, SlotOf(i), v, ok))

SetStompReference ==
    /\ Running
    /\ \E i \in dbInst, r \in {EmptyRef} \cup Connections, rd \in ReadOutcomes :
         /\ SlotOf(i) # INVALID
         /\ DEVICE_MTP_ValidateStompReference(r, conns)
         /\ WriteParam(i, "reference", r,
                       NotifyChange_AgentMtpStompReference(Cur, SlotOf(i),
                                                           IF rd THEN r ELSE ReadFailed, conns))

SetStompDestination ==
    /\ Running
    /\ \E i \in dbInst, v \in Queues :
         /\ SlotOf(i) # INVALID
         /\ WriteParam(i, "destination", v, NotifyChange_AgentMtpStompDestination(Cur, SlotOf(i), v))

SetCoapPort ==
    /\ Running
    /\ \E i \in dbInst, v \in Ports, ok \in StartOutcomes :
         /\ SlotOf(i) # INVALID
         /\ WriteParam(i, "port", v, NotifyChange_AgentMtpCoAPPort(Cur, SlotOf(i), v, ok))

SetCoapPath ==
    /\ Running
    /\ \E i \in dbInst, v \in Paths, ok \in StartOutcomes :
         /\ SlotOf(i) # INVALID
         /\ WriteParam(i, "path", v, NotifyChange_AgentMtpCoAPPath(Cur, SlotOf(i), v, ok))

\* Add Device.STOMP.Connection.{c}; the new connection connects
AddStompConnection ==
    /\ Running
    /\ nextConn \in Connections
    /\ conns' = conns \cup {nextConn}
    /\ pending' = pending \cup {nextConn}
    /\ nextConn' = nextConn + 1
    /\ UNCHANGED <<agent_mtps, db, dbInst, nextInst, captured, subscribed, coap_servers, phase, bootTodo>>

\* Delete Device.STOMP.Connection.{c}; DEVICE_MTP_NotifyStompConnDeleted
\* writes "" to the Reference of every holder, each write re-entering
\* NotifyChange_AgentMtpStompReference
DeleteStompConnection ==
    /\ Running
    /\ \E c \in conns :
         LET live    == conns \ {c}
             st      == DEVICE_MTP_NotifyStompConnDeleted(Cur, c, live)
             cleared == {agent_mtps[k].instance : k \in StompRefHolders(agent_mtps, c)}
         IN  /\ conns' = live
             /\ db' = [i \in Instances |->
                         IF i \in cleared THEN [db[i] EXCEPT !.reference = EmptyRef] ELSE db[i]]
             /\ agent_mtps' = st.mtps
             /\ coap_servers' = st.servers
             /\ pending' = (pending \cup st.sched) \cap live
             /\ captured' = [st.snap EXCEPT ![c] = ReadNow]
             /\ subscribed' = [subscribed EXCEPT ![c] = NoQueue]
    /\ UNCHANGED <<dbInst, nextInst, nextConn, phase, bootTodo>>

\* The STOMP module performs a scheduled reconnect, subscribing to the queue
\* DEVICE_MTP_GetAgentStompQueue returns at that moment, or to the one the
\* schedule captured
StompReconnectOf(c) ==
    /\ Running
    /\ c \in pending
    /\ pending' = pending \ {c}
    /\ subscribed' = [subscribed EXCEPT ![c] = IF captured[c] = ReadNow
                                                 THEN DEVICE_MTP_GetAgentStompQueue(agent_mtps, c)
                                                 ELSE captured[c]]
    /\ captured' = [captured EXCEPT ![c] = ReadNow]
    /\ UNCHANGED <<agent_mtps, db, dbInst, nextInst, conns, nextConn, coap_servers, phase, bootTodo>>

StompReconnect == \E c \in Connections : StompReconnectOf(c)

\* The agent process stops at any point and starts again: memory and CoAP
\* servers are gone, DEVICE_MTP_Init resets the array, DEVICE_MTP_Start
\* begins; every STOMP connection will connect once the agent runs
Restart ==
    /\ agent_mtps' = [k \in SlotIdx |-> InitSlot]
    /\ coap_servers' = [i \in Instances |-> NoServer]
    /\ pending' = conns
    /\ captured' = [c \in Connections |-> ReadNow]
    /\ subscribed' = [c \in Connections |-> NoQueue]
    /\ bootTodo' = SetToSortSeq(dbInst, <)
    /\ phase' = IF dbInst = {} THEN "running" ELSE "starting"
    /\ UNCHANGED <<db, dbInst, nextInst, conns, nextConn>>

\* Clean shutdown: DEVICE_MTP_Stop destroys every occupied slot, the CoAP
\* module's own stop closes its servers, and the agent serves nothing until
\* it is started again
DEVICE_MTP_Stop ==
    /\ phase # "stopped"
    /\ agent_mtps' = [k \in SlotIdx |->
                        IF Occupied(k) THEN DestroyAgentMtp(agent_mtps[k]) ELSE agent_mtps[k]]
    /\ coap_servers' = [i \in Instances |-> NoServer]
    /\ phase' = "stopped"
    /\ bootTodo' = <<>>
    /\ UNCHANGED <<db, dbInst, nextInst, conns, nextConn, pending, captured, subscribed>>

\* Mutant: a failed self-healing delete is logged and the loop goes on
DEVICE_MTP_Start_IgnoreDeleteError ==
    /\ phase = "starting"
    /\ bootTodo # <<>>
    /\ \E ok \in StartOutcomes, deleted \in DeleteOutcomes :
         LET i    == Head(bootTodo)
             st   == ProcessAgentMtpAdded(Cur, i, db[i], conns, ok)
             Advance == /\ bootTodo' = Tail(bootTodo)
                        /\ phase' = IF Tail(bootTodo) = <<>> THEN "running" ELSE "starting"
         IN  CASE st.err = OK ->
                    /\ Apply(st)
                    /\ UNCHANGED <<db, dbInst>>
                    /\ Advance
               [] deleted ->
                    /\ Apply(Notify_AgentMtpDeleted(st, i))
                    /\ dbInst' = dbInst \ {i}
                    /\ db' = [db EXCEPT ![i] = DefaultRow]
                    /\ Advance
               [] OTHER ->
                    /\ Apply(st)
                    /\ UNCHANGED <<db, dbInst>>
                    /\ Advance
    /\ UNCHANGED <<nextInst, conns, nextConn, subscribed>>

\* One iteration of the loop of DEVICE_MTP_Start: a row that cannot be
\* populated is deleted from the data model (Notify_AgentMtpDeleted then
\* finds no slot); if that delete fails, DEVICE_MTP_Start returns the error
\* without visiting the remaining rows, and the agent does not run
DEVICE_MTP_Start ==
    /\ phase = "starting"
    /\ bootTodo # <<>>
    /\ \E ok \in StartOutcomes, deleted \in DeleteOutcomes :
         LET i    == Head(bootTodo)
             st   == ProcessAgentMtpAdded(Cur, i, db[i], conns, ok)
             Advance == /\ bootTodo' = Tail(bootTodo)
                        /\ phase' = IF Tail(bootTodo) = <<>> THEN "running" ELSE "starting"
         IN  CASE st.err = OK ->
                    /\ Apply(st)
                    /\ UNCHANGED <<db, dbInst>>
                    /\ Advance
               [] deleted ->
                    /\ Apply(Notify_AgentMtpDeleted(st, i))
                    /\ dbInst' = dbInst \ {i}
                    /\ db' = [db EXCEPT ![i] = DefaultRow]
                    /\ Advance
               [] OTHER ->
                    /\ Apply(st)
                    /\ UNCHANGED <<db, dbInst>>
                    /\ bootTodo' = <<>>
                    /\ phase' = "aborted"
    /\ UNCHANGED <<nextInst, conns, nextConn, subscribed>>

Next ==
    \/ AddMtp \/ DeleteMtp
    \/ SetEnable \/ SetProtocol \/ SetStompReference \/ SetStompDestination
    \/ SetCoapPort \/ SetCoapPath
    \/ AddStompConnection \/ DeleteStompConnection \/ StompReconnect
    \/ Restart \/ DEVICE_MTP_Start \/ DEVICE_MTP_Stop

Spec == Init /\ [][Next]_vars

\* The STOMP module performs every reconnect it has queued once the agent
\* runs (its scheduler drains the queue after each response), and
\* DEVICE_MTP_Start is a plain loop that runs to its end.  Configuration
\* writes, connection changes and restarts come from outside and carry no
\* fairness.
Fairness ==
    /\ \A c \in Connections : WF_vars(StompReconnectOf(c))
    /\ WF_vars(DEVICE_MTP_Start)

LiveSpec == Spec /\ Fairness

-----------------------------------------------------------------------------
(* Status accessors.  The STOMP and CoAP status calls are the              *)
(* collaborators': a connection is Up once it has (re)connected, a CoAP    *)
(* server once it runs.                                                    *)

DEVICE_STOMP_GetMtpStatus(c) == IF c \in conns /\ c \notin pending THEN "Up" ELSE "Down"
COAP_GetServerStatus(i) == IF coap_servers[i] # NoServer THEN "Up" ELSE "Down"

Get_MtpStatus(m) ==
    IF ~m.enable THEN "Down"
    ELSE CASE m.protocol = "STOMP" -> DEVICE_STOMP_GetMtpStatus(m.stomp_connection_instance)
           [] m.protocol = "CoAP"  -> COAP_GetServerStatus(m.instance)
           [] OTHER                -> "Error"

-----------------------------------------------------------------------------
(* Properties.                                                             *)


\* Every variable holds a value of its type; a persisted Protocol is always
\* a string Validate_AgentMtpProtocol accepted and an occupied slot holds a
\* protocol of mtp_protocols[]
TypeOK ==
    /\ agent_mtps \in [SlotIdx -> Slot]
    /\ \A k \in SlotIdx : agent_mtps[k].protocol \in Protocols
    /\ db \in [Instances -> DbRow]
    /\ \A i \in Instances : db[i].protocol \in DOMAIN mtp_protocols
    /\ dbInst \subseteq Instances
    /\ nextInst \in 1..MaxInstance + 1
    /\ conns \subseteq Connections
    /\ nextConn \in 1..NumConns + 1
    /\ pending \subseteq conns
    /\ captured \in [Connections -> Queues \cup {NoQueue, ReadNow}]
    /\ subscribed \in [Connections -> Queues \cup {NoQueue}]
    /\ coap_servers \in [Instances -> Server \cup {NoServer}]
    /\ phase \in {"running", "starting", "aborted", "stopped"}
    /\ bootTodo \in Seq(Instances)

\* A STOMP connection with no reconnect pending subscribes to exactly the
\* queue DEVICE_MTP_GetAgentStompQueue now returns for it: every handler
\* that changes the first matching slot (Enable, Protocol, Reference,
\* Destination, Delete, Add, the connection-deleted cascade) schedules a
\* reconnect of the affected connection(s).  With ReconnectCapturesQueue
\* the reconnect uses the queue of the moment it was scheduled, and the
\* order of scheduling and storing in each handler (Delete at 510 before
\* 524) decides whether this holds.
StompSubscriptionFresh ==
    Running =>
        \A c \in conns \ pending :
            subscribed[c] = DEVICE_MTP_GetAgentStompQueue(agent_mtps, c)

\* A running CoAP server belongs to a live, enabled CoAP slot and listens on
\* that slot's current port and path: the Enable, Protocol, Port, Path and
\* Delete handlers stop or restart it whenever the slot changes.
CoapServerMatchesSlot ==
    \A i \in Instances :
        coap_servers[i] # NoServer =>
            LET k == FindAgentMtpByInstance(agent_mtps, i)
            IN  /\ k # INVALID
                /\ agent_mtps[k].enable
                /\ agent_mtps[k].protocol = "CoAP"
                /\ coap_servers[i] = [port |-> agent_mtps[k].coap_port,
                                      path |-> agent_mtps[k].coap_path]

\* While the agent runs, each persisted MTP has exactly one slot and that
\* slot holds the persisted values: the notify handlers store every write,
\* including the ones whose transport action then fails.
TableMirrorsStore ==
    Running =>
        \A i \in dbInst :
            LET ks == {k \in SlotIdx : agent_mtps[k].instance = i}
                m  == agent_mtps[FindAgentMtpByInstance(agent_mtps, i)]
            IN  /\ Cardinality(ks) = 1
                /\ m.enable = db[i].enable
                /\ m.protocol = StringToEnum(db[i].protocol)
                /\ m.stomp_connection_instance =
                       IF db[i].reference = EmptyRef THEN INVALID ELSE db[i].reference
                /\ m.stomp_agent_queue = db[i].destination
                /\ m.coap_port = db[i].port
                /\ m.coap_path = db[i].path

\* ValidateAdd_AgentMtp refuses an add only when MaxMtps MTPs are persisted
\* (spec: "Adding the (N+1)-th instance fails with ResourceExhausted";
\* Delete "releases the slot unconditionally").
CapacityMatchesStore ==
    Running /\ FindUnusedAgentMtp(agent_mtps) = INVALID => Cardinality(dbInst) >= MaxMtps

\* With CoAP servers that always start, DEVICE_MTP_Start deletes no MTP the
\* running agent had accepted: the connection-deleted cascade leaves no
\* persisted Reference to a deleted STOMP connection (spec: the cascade
\* clears "the reference in every slot that points to it").
BootKeepsAcceptedMtps == [][DEVICE_MTP_Start => dbInst' = dbInst]_vars

\* An enabled MTP never reports Error: the spec calls "protocol None while
\* enabled" unreachable, yet Validate_AgentMtpProtocol accepts "".
EnabledStatusNotError ==
    \A k \in SlotIdx : Occupied(k) /\ agent_mtps[k].enable =>
        Get_MtpStatus(agent_mtps[k]) # "Error"

\* Writing CoAP.Path with the value it already holds leaves the CoAP
\* server alone (spec: the port and path handlers compare to the stored
\* value and do nothing when unchanged).
PathWriteComparesFirst ==
    [][\A i \in dbInst, v \in Paths, ok \in StartOutcomes :
          ( /\ SlotOf(i) # INVALID
            /\ v = agent_mtps[SlotOf(i)].coap_path
            /\ WriteParam(i, "path", v, NotifyChange_AgentMtpCoAPPath(Cur, SlotOf(i), v, ok)) )
          => coap_servers' = coap_servers]_vars

\* No two occupied slots hold the same instance number (spec, section 3:
\* the instance is "unique among all non-free slots"); FindAgentMtpByInstance
\* returns the first match and would hide any later one.
SlotInstancesUnique ==
    \A k1, k2 \in SlotIdx :
        Occupied(k1) /\ k1 # k2 => agent_mtps[k1].instance # agent_mtps[k2].instance

\* The persisted configuration seen through the data model: the rows of the
\* present instances and the STOMP connections
Config == INSTANCE MtpConfig WITH
    rows <- [i \in dbInst |-> db[i]],
    conns <- conns,
    serving <- Running,
    Instances <- Instances,
    Connections <- Connections,
    NoRef <- EmptyRef,
    ProtocolStrings <- DOMAIN mtp_protocols

\* The table implements MtpConfig: every add, delete, write, connection
\* change, restart and step of DEVICE_MTP_Start changes the persisted rows
\* as one step of MtpConfig or not at all.  In particular the start loop
\* deletes only rows that cannot be populated, an add is accepted only
\* below capacity, and the cascade empties exactly the STOMP rows' stale
\* references.
ConfigRefinement == Config!Spec

====
