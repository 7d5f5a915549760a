------------------------------ MODULE Presence -------------------------------
(***************************************************************************)
(* What discovery promises the control points of the network, without the  *)
(* tasks, the datagrams or the sockets behind it.                          *)
(*                                                                         *)
(* A control point holds a lease for each thing a server advertises: until *)
(* when it takes the thing for present.  Leases are renewed for MaxAge, by *)
(* a server that runs or ran so recently that its word may still be on the *)
(* way; they are given up, or run out.                                     *)
(***************************************************************************)
EXTENDS Naturals

CONSTANTS
  Servers,  \* the identities servers have
  Targets,  \* what each of them advertises
  Delay,    \* the longest a datagram is on its way
  MaxAge    \* for how long an advertisement is good

VARIABLES
  now,      \* the time
  running,  \* the servers that run
  ended,    \* server -> when it ended the last time
  lease     \* server -> target -> when it is no longer taken for present

presenceVars == <<now, running, ended, lease>>

NoLease == [s \in Servers |-> [t \in Targets |-> 0]]

Init ==
  /\ now = 0 /\ running = {}
  /\ ended = [s \in Servers |-> 0]
  /\ lease = NoLease

Tick ==
  /\ now' = now + 1
  /\ UNCHANGED <<running, ended, lease>>

Come(s) ==
  /\ running' = running \cup {s}
  /\ UNCHANGED <<now, ended, lease>>

Go(s) ==
  /\ s \in running
  /\ running' = running \ {s}
  /\ ended' = [ended EXCEPT ![s] = now]
  /\ UNCHANGED <<now, lease>>

Renew(s, t) ==
  /\ s \in running \/ now <= ended[s] + Delay
  /\ lease' = [lease EXCEPT ![s][t] = now + MaxAge]
  /\ UNCHANGED <<now, running, ended>>

GiveUp(s, t) ==
  /\ lease' = [lease EXCEPT ![s][t] = 0]
  /\ UNCHANGED <<now, running, ended>>

Next ==
  \/ Tick
  \/ \E s \in Servers : Come(s) \/ Go(s)
  \/ \E s \in Servers, t \in Targets : Renew(s, t) \/ GiveUp(s, t)

Spec == Init /\ [][Next]_presenceVars

(* However a server ends, nobody takes it for present longer than the last *)
(* word it may have sent is on its way and good for.                       *)
ForgottenInTime ==
  \A s \in Servers \ running :
    now > ended[s] + Delay + MaxAge => \A t \in Targets : lease[s][t] < now
==============================================================================
