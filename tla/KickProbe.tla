------------------------------ MODULE KickProbe ------------------------------
(***************************************************************************)
(* The canary's probe of the Kick watch transport (ProbeWS): a token, a      *)
(* WebSocket, the presence pump for a window with its reader goroutine, then *)
(* a close and a verdict on what was sent and heard.                         *)
(* source: src/internal/platform/kick/{probe_ws,wswatch}.go,                *)
(*  src/internal/canary/kick.go                                             *)
(***************************************************************************)
EXTENDS Naturals

CONSTANTS Ticks,      \* bound: ticks of the handshake cadence in a window
          WSFaults    \* bound: refusals, connections the server drops
VARIABLES probe,      \* where ProbeWS stands
          verdict,    \* the last probe's: "none", "nil", "error"
          hsSent, counter, pongSeen, \* probingConn; pumpWS's tick
          reader,     \* pumpWS's reader: "off", "reading", "took" a frame, "over"
          wsUp,       \* the server still holds the connection
          toServer, toClient, \* frames under way
          spoke, answered, \* the server sent a frame on this connection; it answered a ping
          wsFaults
wire == <<wsUp, toServer, toClient, spoke, answered>>
seenBy == <<hsSent, counter, pongSeen>>
wpvars == <<probe, verdict, seenBy, reader, wire, wsFaults>>

Fault == wsFaults < WSFaults /\ wsFaults' = wsFaults + 1
Refused == Fault \* newUTLSConn, the request or the upgrade fails
Fresh == /\ hsSent = 0 /\ counter = 0 /\ pongSeen = FALSE /\ reader = "off"
         /\ wsUp = FALSE /\ toServer = 0 /\ toClient = 0 /\ spoke = FALSE /\ answered = FALSE
Init == /\ probe = "rest" /\ verdict = "none" /\ Fresh
        /\ wsFaults = 0
-----------------------------------------------------------------------------
ProbeWS == /\ probe = "rest" /\ probe' = "token" /\ hsSent' = 0 /\ counter' = 0 /\ pongSeen' = FALSE /\ reader' = "off"
           /\ wsUp' = FALSE /\ toServer' = 0 /\ toClient' = 0 /\ spoke' = FALSE /\ answered' = FALSE
           /\ UNCHANGED <<verdict, wsFaults>>
Ends(v) == probe' = "rest" /\ verdict' = v
\* fetchViewerToken, then dialViewerWS; either may be refused
FetchViewerToken == /\ probe = "token" /\ UNCHANGED <<seenBy, reader, wire>>
                    /\ \/ probe' = "dial" /\ UNCHANGED <<verdict, wsFaults>>
                       \/ Refused /\ Ends("error")
DialViewerWS == /\ probe = "dial" /\ UNCHANGED seenBy
                /\ \/ /\ probe' = "hello" /\ wsUp' = TRUE /\ reader' = "reading"
                      /\ UNCHANGED <<verdict, wsFaults, toServer, toClient, spoke, answered>>
                   \/ Refused /\ Ends("error") /\ UNCHANGED <<reader, wire>>

(* WriteJSON: a handshake is counted once the write returned. A write on a   *)
(* connection the server dropped may still be taken by the socket.           *)
Handshake == hsSent' = hsSent + 1 /\ UNCHANGED toServer
Ping == toServer' = (IF wsUp THEN toServer + 1 ELSE toServer) /\ UNCHANGED hsSent
WriteFails == ~wsUp /\ UNCHANGED <<hsSent, toServer>> /\ probe' = "close"
Hello == /\ probe = "hello"
         /\ \/ Handshake /\ probe' = "pump"
            \/ WriteFails
         /\ UNCHANGED <<verdict, counter, pongSeen, reader, wsUp, toClient, spoke, answered, wsFaults>>
(* pumpWS: handshakes and pings in turn, until the window or the reader ends.*)
Tick == /\ probe = "pump" /\ counter < Ticks /\ counter' = counter + 1
        /\ \/ /\ UNCHANGED probe
              /\ IF counter' % 2 = 0 THEN Ping ELSE Handshake
           \/ WriteFails
        /\ UNCHANGED <<verdict, pongSeen, reader, wsUp, toClient, spoke, answered, wsFaults>>
PumpEnds == /\ probe = "pump" /\ probe' = "close"
            /\ UNCHANGED <<verdict, seenBy, reader, wire, wsFaults>>
Close == /\ probe = "close" /\ probe' = "snapshot" /\ wsUp' = FALSE /\ toServer' = 0 /\ toClient' = 0
         /\ UNCHANGED <<verdict, seenBy, reader, spoke, answered, wsFaults>>
\* mutant: one sign of life will do
HeardOnce == hsSent >= 1 \/ pongSeen
Healthy == hsSent >= 2 /\ pongSeen
Verdict == /\ probe = "snapshot" /\ Ends(IF Healthy THEN "nil" ELSE "error")
           /\ UNCHANGED <<seenBy, reader, wire, wsFaults>>

(* The reader: ReadMessage returns a frame, and notes it under the lock.     *)
ReadMessage == /\ reader = "reading"
               /\ \/ toClient > 0 /\ reader' = "took" /\ toClient' = toClient - 1
                  \/ ~wsUp /\ reader' = "over" /\ UNCHANGED toClient
               /\ UNCHANGED <<probe, verdict, seenBy, wsUp, toServer, spoke, answered, wsFaults>>
PongSeen == /\ reader = "took" /\ reader' = "reading" /\ pongSeen' = TRUE
            /\ UNCHANGED <<probe, verdict, hsSent, counter, wire, wsFaults>>
(* The server answers pings, and sends frames nobody asked for: it greets the*)
(* connection, acknowledges handshakes and may send anything else.           *)
Says == /\ wsUp /\ toClient' = toClient + 1 /\ spoke' = TRUE
        /\ UNCHANGED <<probe, verdict, seenBy, reader, wsUp, wsFaults>>
Pong == toServer > 0 /\ toServer' = toServer - 1 /\ answered' = TRUE /\ Says
Greets == toClient < Ticks /\ UNCHANGED <<toServer, answered>> /\ Says
Drops == /\ wsUp /\ Fault /\ wsUp' = FALSE /\ UNCHANGED <<probe, verdict, seenBy, reader, toServer, toClient, spoke, answered>>

Next == \/ ProbeWS \/ FetchViewerToken \/ DialViewerWS \/ Hello \/ Tick \/ PumpEnds \/ Close \/ Verdict
        \/ ReadMessage \/ PongSeen \/ Pong \/ Greets \/ Drops
Spec == Init /\ [][Next]_wpvars
-----------------------------------------------------------------------------
TypeOK == /\ probe \in {"rest", "token", "dial", "hello", "pump", "close", "snapshot"}
          /\ verdict \in {"none", "nil", "error"} /\ reader \in {"off", "reading", "took", "over"}
          /\ hsSent \in 0..(Ticks + 1) /\ counter \in 0..Ticks /\ {wsUp, pongSeen, spoke, answered} \subseteq BOOLEAN

(* A probe that found the transport healthy heard the server: a frame that   *)
(* it sent on this very connection reached the reader, and the cadence ticked*)
(* past the first handshake.                                                 *)
NilMeansHeard == probe = "rest" /\ verdict = "nil" => spoke /\ counter >= 1

(* probe_ws.go: "nil proves WS transport health (connect + periodic handshake*)
(* cadence + server round-trip)".                                            *)
NilMeansAnswered == probe = "rest" /\ verdict = "nil" => answered
(* probe_ws.go: "ensuring any in-flight pong is already recorded in pongSeen *)
(* before snapshot() reads it".                                              *)
PongRecorded == probe = "snapshot" => reader # "took"
(* "nil proves WS transport health": the connection lasted the window.       *)
NilMeansUp == probe = "close" /\ Healthy => wsUp
=============================================================================
