------------------------------ MODULE AlarmFeed -------------------------------
(***************************************************************************)
(* What the alarms of AvIT-Data promise to everything that reads them (the *)
(* outbox, the panel, the retention rules): alarms are raised one at a     *)
(* time, for an active device at its present address and once per mode;    *)
(* each ends once, by a reply of that address or in the very step that     *)
(* gives its device another target, which ends all alarms of the device.   *)
(***************************************************************************)
EXTENDS Naturals, Sequences

CONSTANTS
  Devices,    \* device ids
  Places,     \* addresses, and what stands for having none
  Modes       \* probe modes

VARIABLES
  target,     \* where each device is, and whether it is watched
  feed        \* the alarms, by id

Targets == [active : BOOLEAN, ip : Places]

IsOpenOf(a, d) == a.device = d /\ a.status = "open"

Raise(d, m) ==
  /\ target[d].active
  /\ \A i \in DOMAIN feed : ~(IsOpenOf(feed[i], d) /\ feed[i].mode = m)
  /\ feed' = Append(feed, [device |-> d, ip |-> target[d].ip, mode |-> m, status |-> "open"])
  /\ UNCHANGED target

Resolve(i) ==
  LET a == feed[i]
  IN  /\ IsOpenOf(a, a.device)
      /\ target[a.device] = [active |-> TRUE, ip |-> a.ip]
      /\ feed' = [feed EXCEPT ![i].status = "resolved"]
      /\ UNCHANGED target

\* No two devices share an address.
Retarget(d, t) ==
  /\ t # target[d]
  /\ \A e \in Devices \ {d} : target[e].ip # t.ip
  /\ target' = [target EXCEPT ![d] = t]
  /\ feed' = [i \in DOMAIN feed |-> IF IsOpenOf(feed[i], d)
                                    THEN [feed[i] EXCEPT !.status = "closed"] ELSE feed[i]]

Init == target \in [Devices -> Targets] /\ feed = <<>>

Next ==
  \/ \E d \in Devices : \/ \E m \in Modes : Raise(d, m)
                        \/ \E t \in Targets : Retarget(d, t)
  \/ \E i \in DOMAIN feed : Resolve(i)

Spec == Init /\ [][Next]_<<target, feed>>
=============================================================================
