-------------------------- MODULE SegmentCatalogue --------------------------
(***************************************************************************)
(* What the recording store promises to those who play recordings back,    *)
(* whatever recorders, maintenance and crashes do at the same time: a      *)
(* segment is published when it is complete; it stays playable until it    *)
(* has expired or the store is over its capacity; its index entry goes     *)
(* after its file. The two exceptions the code has are part of the         *)
(* promise: names that are given out twice within a second (reused), and   *)
(* files that were looked for while the storage was away (doubted).        *)
(***************************************************************************)
EXTENDS Naturals, FiniteSets

CONSTANTS
    Capacity,      \* segments the storage may hold, 0: no limit
    Lifetime,      \* how long a segment is kept, 0: for ever
    Second         \* a file name has a resolution of so many units of time

VARIABLES
    now,
    online,        \* the storage is mounted and answers
    index,         \* segments with an index entry
    playable,      \* those of them whose file is what was recorded
    reused,        \* file names that were given out again
    doubted        \* segments whose file was looked for in vain

vars == <<now, online, index, playable, reused, doubted>>

Expired(s, t) == Lifetime # 0 /\ s.end + Lifetime < t
OverCapacity == Capacity # 0 /\ Cardinality({s \in index : s.size = 1}) > Capacity

Init ==
    /\ now = 0 /\ online = TRUE
    /\ index = {} /\ playable = {} /\ reused = {} /\ doubted = {}

Tick == now' = now + 1 /\ UNCHANGED <<online, index, playable, reused, doubted>>
Mount == online' = ~online /\ UNCHANGED <<now, index, playable, reused, doubted>>

Publish(s) ==
    /\ s \notin index
    /\ index' = index \cup {s}
    /\ \/ playable' = playable \cup {s}
       \/ playable' = playable /\ (s.path \in reused \/ s.size = 0)
    /\ UNCHANGED <<now, online, reused, doubted>>

(* A recorder opens a file by a name of the current second that exists.    *)
Reuse(p) ==
    /\ p.second = now \div Second
    /\ reused' = reused \cup {p}
    /\ playable' = {s \in playable : s.path # p}
    /\ UNCHANGED <<now, online, index, doubted>>

(* What is taken from a playback is old enough, or too much.               *)
Reclaim(s) ==
    /\ s \in playable
    /\ Expired(s, now) \/ OverCapacity \/ s.path \in reused
    /\ playable' = playable \ {s}
    /\ UNCHANGED <<now, online, index, reused, doubted>>

Doubt(s) ==
    /\ online => s \notin playable
    /\ doubted' = {s}
    /\ UNCHANGED <<now, online, index, playable, reused>>

Settle == doubted' = {} /\ UNCHANGED <<now, online, index, playable, reused>>

Forget(s) ==
    /\ s \notin playable \/ s \in doubted
    /\ index' = index \ {s}
    /\ playable' = playable \ {s}
    /\ doubted' = {}
    /\ UNCHANGED <<now, online, reused>>

(* A restart; the index is empty after it when it was kept in memory.      *)
Restart ==
    /\ \/ UNCHANGED <<index, playable>>
       \/ index' = {} /\ playable' = {}
    /\ doubted' = {}
    /\ UNCHANGED <<now, online, reused>>

Next ==
    \/ Tick \/ Mount \/ Settle \/ Restart
    \/ \E s \in index \cup index' \cup doubted' :
           Publish(s) \/ Reclaim(s) \/ Doubt(s) \/ Forget(s)
    \/ \E p \in reused' : Reuse(p)

Spec == Init /\ [][Next]_vars
=============================================================================
