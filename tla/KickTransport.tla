---------------------------- MODULE KickTransport ----------------------------
(***************************************************************************)
(* The HTTP/2 connections of the Kick client: one is kept per host and given *)
(* to every caller, dialled outside the lock when there is none or it has    *)
(* not been used for five minutes, and closed when a request gets no answer. *)
(* Hosts are independent; this is one of them.                               *)
(* source: src/internal/platform/kick/transport.go                         *)
(***************************************************************************)
EXTENDS Naturals, FiniteSets

CONSTANTS Requests,   \* goroutines that call the API
          Conns,      \* connections that may be known at once
          NoConn,
          KTFaults    \* bound: requests refused, connections the peer ends, spells without use

VARIABLES pooled, stale, \* conns[host]; it has not been used for five minutes
          up, ended,     \* connections we hold open; those the peer has ended
          req,           \* the calls: at rest, dialling, on a connection
          failed,        \* connections a request got no answer on
          calm,          \* nothing went wrong since the last failure, which met no other call
          ktFaults
ktvars == <<pooled, stale, up, ended, req, failed, calm, ktFaults>>

Idle == [pc |-> "rest", conn |-> NoConn]
Fault == ktFaults < KTFaults /\ ktFaults' = ktFaults + 1
Init == /\ pooled = NoConn /\ stale = FALSE /\ up = {} /\ ended = {}
        /\ req = [r \in Requests |-> Idle] /\ failed = {} /\ calm = TRUE /\ ktFaults = 0
Used == {req[r].conn : r \in Requests} \union {pooled}
-----------------------------------------------------------------------------
(* do: no session cookies and not anonymous is refused before anything else. *)
(* connFor hands out the kept connection, unless its last use is too old.    *)
ConnFor(r) == /\ req[r].pc = "rest"
              /\ \/ /\ pooled # NoConn /\ ~stale
                    /\ req' = [req EXCEPT ![r] = [pc |-> "trip", conn |-> pooled]]
                 \/ /\ pooled = NoConn \/ stale
                    /\ req' = [req EXCEPT ![r].pc = "dial"]
              /\ UNCHANGED <<pooled, stale, up, ended, failed, calm, ktFaults>>
(* The connection that comes up replaces the kept one, closing nothing.      *)
Dialled(r) == /\ req[r].pc = "dial"
              /\ \E k \in (Conns \ up) \ Used :
                   /\ req' = [req EXCEPT ![r] = [pc |-> "trip", conn |-> k]]
                   /\ up' = up \union {k} /\ pooled' = k /\ stale' = FALSE
                   /\ failed' = failed \ {k} /\ ended' = ended \ {k}
              /\ UNCHANGED <<calm, ktFaults>>
DialFails(r) == /\ req[r].pc = "dial" /\ Fault /\ req' = [req EXCEPT ![r] = Idle]
                /\ UNCHANGED <<pooled, stale, up, ended, failed, calm>>

(* closeConn: closes and forgets whatever is kept now.                       *)
\* mutant: the connection is closed and stays cached
CloseOnly == up' = up \ {pooled} /\ UNCHANGED pooled
CloseConn == up' = up \ {pooled} /\ pooled' = NoConn

Usable(r) == req[r].conn \in up \ ended
(* A request's answer is read from its connection. One cut short, by the host*)
(* or by the caller's deadline, is an error that leaves the connection kept. *)
RoundTrip(r) == /\ req[r].pc = "trip" /\ Usable(r) /\ req' = [req EXCEPT ![r].pc = "body"]
                /\ UNCHANGED <<pooled, stale, up, ended, failed, calm, ktFaults>>
ReadAll(r) == /\ req[r].pc = "body" /\ req' = [req EXCEPT ![r] = Idle]
              /\ UNCHANGED <<pooled, stale, up, ended, failed, calm, ktFaults>>
BodyFails(r) == /\ req[r].pc = "body"
                /\ IF Usable(r) THEN Fault ELSE UNCHANGED ktFaults
                /\ req' = [req EXCEPT ![r] = Idle]
                /\ UNCHANGED <<pooled, stale, up, ended, failed, calm>>
TripFails(r) == /\ req[r].pc = "trip"
                /\ IF Usable(r) THEN Fault ELSE UNCHANGED ktFaults
                /\ CloseConn /\ stale' = FALSE
                /\ failed' = failed \union {req[r].conn}
                /\ calm' = \A q \in Requests \ {r} : req[q].pc # "trip"
                /\ req' = [req EXCEPT ![r] = Idle] /\ UNCHANGED ended

(* The host ends a connection; one that no one knows of any more ends too.   *)
Ends(k) == /\ k \in up \ ended
           /\ IF k \in Used THEN Fault ELSE UNCHANGED ktFaults
           /\ IF k \in Used THEN ended' = ended \union {k} /\ UNCHANGED up
                            ELSE up' = up \ {k} /\ UNCHANGED ended
           /\ calm' = (calm /\ k \notin Used)
           /\ UNCHANGED <<pooled, stale, req, failed>>
Ages == /\ pooled # NoConn /\ ~stale /\ Fault /\ stale' = TRUE
        /\ UNCHANGED <<pooled, up, ended, req, failed, calm>>

Next == \/ \E r \in Requests : \/ ConnFor(r) \/ Dialled(r) \/ DialFails(r)
                               \/ RoundTrip(r) \/ ReadAll(r) \/ BodyFails(r) \/ TripFails(r)
        \/ \E k \in Conns : Ends(k)
        \/ Ages
Spec == Init /\ [][Next]_ktvars
-----------------------------------------------------------------------------
TypeOK == /\ pooled \in Conns \union {NoConn} /\ {stale, calm} \subseteq BOOLEAN /\ ktFaults \in 0..KTFaults
          /\ up \subseteq Conns /\ ended \subseteq Conns /\ failed \subseteq Conns
          /\ req \in [Requests -> [pc : {"rest", "dial", "trip", "body"}, conn : Conns \union {NoConn}]]

(* One failure is enough: once a request got no answer while no other waited *)
(* for one, none waits on a connection that is broken or closed until the    *)
(* host or a deadline breaks one again, whatever is dialled, replaced or cut *)
(* short in between. The broken connection is nobody's next one.             *)
OneFailureSuffices == calm => \A r \in Requests : req[r].pc = "trip" => Usable(r)

(* "Connections are pooled per host" (transport.go:39): one at a time.       *)
OnePerHost == Cardinality(up) <= 1
(* "closeConn closes and removes a cached connection" (transport.go:115), of *)
(* the call that failed and not the healthy one of another call.             *)
HealthySpared == \A r \in Requests : req[r].pc \in {"trip", "body"} => req[r].conn \in up \union failed
=============================================================================
