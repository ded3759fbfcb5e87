-------------------------------- MODULE Realtime --------------------------------
(***************************************************************************)
(* What is pushed to browsers: the broadcaster's streams per tenant, the   *)
(* dashboard's stream client with its timers, and the notifications behind *)
(* the messages.                                                           *)
(*                                                                         *)
(* A stream is a response the browser reads.  Whether the browser is still *)
(* there is known to the server only when the response emits `close',      *)
(* which may come before the route's authentication has finished.  A write *)
(* to a response whose browser has gone does not throw.                    *)
(***************************************************************************)
EXTENDS Integers, FiniteSets

CONSTANTS
  MaxConn,      \* bound on the streams opened over time
  Tenant,       \* tenants
  Notice,       \* notifications created over time
  Quiet         \* checks of 5 s without an event that the client puts up with

VARIABLES
  tenantClients,  \* Map tenant -> the number of its current Set; 0: no entry
  stream,         \* the responses and the Sets their cleanups captured
  sse,            \* ResilientSSEClient
  notices         \* rows of notifications

vars == <<tenantClients, stream, sse, notices>>

Conn == 1..MaxConn   \* in the order they are opened
NoConn == 0
Streams == [st : {"unused", "authenticating", "registered", "refused"}, tenant : Tenant,
            by : {"client", "other"}, here : BOOLEAN, closed : BOOLEAN,
            set : 0..MaxConn, member : BOOLEAN,
            heard : SUBSET Notice, due : SUBSET Notice]

TypeOK ==
  /\ tenantClients \in [Tenant -> 0..MaxConn]
  /\ stream \in [Conn -> Streams]
  /\ sse \in [state : {"DISCONNECTED", "CONNECTING", "CONNECTED", "RECONNECTING"},
              source : Conn \cup {NoConn}, reconnectTimer : BOOLEAN, heartbeatTimer : BOOLEAN,
              quiet : 0..Quiet]
  /\ notices \in [Notice -> [st : {"none", "unread", "read"}, tenant : Tenant]]

-----------------------------------------------------------------------------
(* The server's side.                                                      *)

ofSet(t, g, s) == {c \in Conn : s[c].tenant = t /\ s[c].set = g /\ s[c].member}

unused(c) == stream[c].st = "unused" /\ \A d \in 1..(c - 1) : stream[d].st # "unused"

\* A browser asks for the live stream; the route first authenticates it.
opened(c, t, who) ==
  [stream EXCEPT ![c] = [@ EXCEPT !.st = "authenticating", !.tenant = t, !.by = who,
                                  !.here = TRUE]]

otherBrowser(c, t) ==
  /\ unused(c)
  /\ stream' = opened(c, t, "other")
  /\ UNCHANGED <<tenantClients, sse, notices>>

\* A Set that is not one of the tenant's earlier ones.
newSet(t) == 1 + Cardinality({c \in Conn : stream[c].tenant = t /\ stream[c].set > 0})

\* The response joins the tenant's Set, made anew when the map has none.  A
\* browser that left during the authentication is not noticed: its `close'
\* came before the handler was attached.
registerClient(c) ==
  LET t == stream[c].tenant
      g == IF tenantClients[t] # 0 THEN tenantClients[t] ELSE newSet(t) IN
  /\ stream[c].st = "authenticating"
  /\ tenantClients' = [tenantClients EXCEPT ![t] = g]
  /\ stream' = [stream EXCEPT ![c] = [@ EXCEPT !.st = "registered", !.set = g, !.member = TRUE]]
  /\ sse' = IF sse.source = c /\ stream[c].here
              THEN [sse EXCEPT !.state = "CONNECTED", !.heartbeatTimer = TRUE, !.quiet = 0]
              ELSE sse
  /\ UNCHANGED notices

\* Mutant: the last cleanup to run takes the tenant's entry away.
cleanupEntry(c, s) == [tenantClients EXCEPT ![s[c].tenant] = 0]

\* cleanup: out of the captured Set; the map's entry goes when that Set is empty.
cleanup(c, s) ==
  IF ofSet(s[c].tenant, s[c].set, s) \ {c} = {}
    THEN [tenantClients EXCEPT ![s[c].tenant] = 0]
    ELSE tenantClients

\* A browser goes away without a word.
browserLeaves(c) ==
  /\ stream[c].by = "other" /\ stream[c].here
  /\ stream' = [stream EXCEPT ![c].here = FALSE]
  /\ UNCHANGED <<tenantClients, sse, notices>>

\* The response emits `close' (after `error', in the same turn, if it failed).
onClose(c) ==
  /\ stream[c].st \in {"authenticating", "registered"} /\ ~stream[c].here /\ ~stream[c].closed
  /\ stream' = [stream EXCEPT ![c].closed = TRUE,
                              ![c].member = @ /\ stream[c].st # "registered"]
  /\ tenantClients' = IF stream[c].st = "registered" THEN cleanup(c, stream) ELSE tenantClients
  /\ UNCHANGED <<sse, notices>>

insertNotification(n, t) == notices' = [notices EXCEPT ![n] = [st |-> "unread", tenant |-> t]]

\* A row is inserted and pushed to the tenant's current Set.  An event also
\* resets the client's liveness clock.
broadcastToTenant(n, t) ==
  LET to == ofSet(t, tenantClients[t], stream) IN
  /\ notices[n].st = "none"
  /\ insertNotification(n, t)
  /\ stream' = [c \in Conn |->
       [stream[c] EXCEPT
         !.heard = IF c \in to /\ stream[c].here THEN @ \cup {n} ELSE @,
         !.due = IF stream[c].st = "registered" /\ stream[c].tenant = t /\ stream[c].here
                   THEN @ \cup {n} ELSE @]]
  /\ sse' = IF sse.source \in to THEN [sse EXCEPT !.quiet = 0] ELSE sse
  /\ UNCHANGED <<tenantClients>>

markNotificationAsRead(n, t) ==
  /\ notices[n].st = "unread" /\ notices[n].tenant = t
  /\ notices' = [notices EXCEPT ![n].st = "read"]
  /\ UNCHANGED <<tenantClients, stream, sse>>

markAllNotificationsAsRead(t) ==
  /\ \E n \in Notice : notices[n].st = "unread" /\ notices[n].tenant = t
  /\ notices' = [n \in Notice |->
       IF notices[n].tenant = t /\ notices[n].st = "unread"
         THEN [notices[n] EXCEPT !.st = "read"] ELSE notices[n]]
  /\ UNCHANGED <<tenantClients, stream, sse>>

-----------------------------------------------------------------------------
(* The dashboard's client.                                                 *)

\* Mutant: the stream is dropped without being closed.
cleanupTimers(s) == s

\* cleanup: the timers are cleared and the stream is closed.
cleanupSource(s) ==
  IF sse.source = NoConn THEN s ELSE [s EXCEPT ![sse.source].here = FALSE]

\* connect: nothing to do while a stream is up or coming up.
connect(t) ==
  /\ sse.state \in {"DISCONNECTED", "RECONNECTING"}
  /\ \E c \in Conn :
       /\ unused(c)
       /\ stream' = cleanupSource(opened(c, t, "client"))
       /\ sse' = [state |-> "CONNECTING", source |-> c, reconnectTimer |-> FALSE,
                  heartbeatTimer |-> FALSE, quiet |-> sse.quiet]
  /\ UNCHANGED <<tenantClients, notices>>

reconnectFires(t) == sse.reconnectTimer /\ connect(t)

reconnecting ==
  sse' = [sse EXCEPT !.state = "RECONNECTING", !.source = NoConn, !.reconnectTimer = TRUE,
                     !.heartbeatTimer = FALSE]

\* onerror: the authentication refused the stream, or the connection broke.
handleDisconnect ==
  /\ sse.source # NoConn
  /\ \/ stream' = cleanupSource(stream)
     \/ /\ stream[sse.source].st = "authenticating"
        /\ stream' = [cleanupSource(stream) EXCEPT ![sse.source].st = "refused"]
  /\ reconnecting
  /\ UNCHANGED <<tenantClients, notices>>

\* The monitor looks every 5 s; the server's keepalive comments are no events.
heartbeatMonitor ==
  /\ sse.heartbeatTimer /\ sse.state = "CONNECTED"
  /\ IF sse.quiet < Quiet
       THEN sse' = [sse EXCEPT !.quiet = @ + 1] /\ UNCHANGED stream
       ELSE reconnecting /\ stream' = cleanupSource(stream)
  /\ UNCHANGED <<tenantClients, notices>>

disconnect ==
  /\ stream' = cleanupSource(stream)
  /\ sse' = [state |-> "DISCONNECTED", source |-> NoConn, reconnectTimer |-> FALSE,
             heartbeatTimer |-> FALSE, quiet |-> sse.quiet]
  /\ UNCHANGED <<tenantClients, notices>>

-----------------------------------------------------------------------------
Init ==
  /\ tenantClients = [t \in Tenant |-> 0]
  /\ stream = [c \in Conn |-> [st |-> "unused", tenant |-> CHOOSE t \in Tenant : TRUE,
                               by |-> "other", here |-> FALSE, closed |-> FALSE, set |-> 0,
                               member |-> FALSE, heard |-> {}, due |-> {}]]
  /\ sse = [state |-> "DISCONNECTED", source |-> NoConn, reconnectTimer |-> FALSE,
            heartbeatTimer |-> FALSE, quiet |-> 0]
  /\ notices = [n \in Notice |-> [st |-> "none", tenant |-> CHOOSE t \in Tenant : TRUE]]

Next ==
  \/ \E c \in Conn : registerClient(c) \/ browserLeaves(c) \/ onClose(c)
  \/ \E t \in Tenant :
       \/ \E c \in Conn : otherBrowser(c, t)
       \/ \E n \in Notice : broadcastToTenant(n, t) \/ markNotificationAsRead(n, t)
       \/ markAllNotificationsAsRead(t) \/ connect(t) \/ reconnectFires(t)
  \/ handleDisconnect \/ heartbeatMonitor \/ disconnect

Spec == Init /\ [][Next]_vars

-----------------------------------------------------------------------------
\* Every stream a browser still reads hears all that is pushed to its tenant
\* from its registration on, nothing of another tenant's, and only rows that
\* are stored (broadcaster.ts 36-93, daemon.ts 265-268): whichever streams come
\* and go, the map's entry is the Set the live ones are in.
StreamsHear ==
  \A c \in Conn : stream[c].heard = stream[c].due
    /\ \A n \in stream[c].heard : notices[n].st # "none" /\ notices[n].tenant = stream[c].tenant

\* The client has one stream at most and always a way back: reconnecting means
\* that the timer is set, connected that the monitor runs, disconnected that
\* nothing does, and every stream it has given up is closed
\* (sse-client.ts 63-65, 122-138, 196-213).
ClientHoldsOneStream ==
  /\ sse.state = "RECONNECTING" <=> sse.reconnectTimer
  /\ sse.heartbeatTimer <=> sse.state = "CONNECTED"
  /\ sse.state \in {"CONNECTING", "CONNECTED"} <=> sse.source # NoConn
  /\ \A c \in Conn : stream[c].by = "client" /\ stream[c].here => c = sse.source
====
