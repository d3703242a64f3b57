---------------------------- MODULE LibraryView ----------------------------
(***************************************************************************)
(* What the cached catalog reads promise a visitor, without the caches: a  *)
(* request that asks about some libraries is shown some of those, and each *)
(* of them exactly if it is on the floor, unless it entered or left the    *)
(* floor less than Delay before the request began.  CatalogCache           *)
(* implements this with Delay the lifetime of an entry and the time of one *)
(* load.                                                                   *)
(***************************************************************************)
EXTENDS Integers

CONSTANTS
    Visitors,     \* requests in flight
    Libraries,
    Keys,         \* what a request can be about
    About,        \* ... and the libraries that is
    Delay         \* how long an edit may take to be seen

VARIABLES
    now,
    floor,        \* the libraries that are public
    since,        \* per library: when it last became public or stopped being so
    stage,        \* per visitor: "idle", "asked" or "shown"
    topic,        \* ... the key asked about
    began,        \* ... when it asked
    view          \* ... the libraries it is shown

vars == <<now, floor, since, stage, topic, began, view>>

Init ==
    /\ now \in Nat
    /\ floor \in SUBSET Libraries
    /\ since = [l \in Libraries |-> 0]
    /\ stage = [v \in Visitors |-> "idle"]
    /\ topic \in [Visitors -> Keys]
    /\ began = [v \in Visitors |-> 0]
    /\ view = [v \in Visitors |-> {}]

\* A visitor asks, after a pause or after another request.
Ask(v) ==
    /\ began' = [began EXCEPT ![v] = now]
    /\ stage' = [stage EXCEPT ![v] = "asked"]
    /\ \E key \in Keys : topic' = [topic EXCEPT ![v] = key]
    /\ view' = [view EXCEPT ![v] = {}]
    /\ UNCHANGED <<now, floor, since>>

\* The promise.
Faithful(libs, key, t) ==
    /\ libs \subseteq About[key]
    /\ \A l \in About[key] : t - since[l] > Delay => (l \in libs <=> l \in floor)

Show(v) ==
    /\ stage[v] = "asked"
    /\ stage' = [stage EXCEPT ![v] = "shown"]
    /\ \E libs \in SUBSET Libraries :
          /\ Faithful(libs, topic[v], began[v])
          /\ view' = [view EXCEPT ![v] = libs]
    /\ UNCHANGED <<now, floor, since, topic, began>>

\* The visitor is done, or its request failed.
Leave(v) ==
    /\ stage[v] # "idle"
    /\ began' = [began EXCEPT ![v] = 0]
    /\ stage' = [stage EXCEPT ![v] = "idle"]
    /\ \E key \in Keys : topic' = [topic EXCEPT ![v] = key]
    /\ view' = [view EXCEPT ![v] = {}]
    /\ UNCHANGED <<now, floor, since>>

Edit ==
    /\ floor' \in SUBSET Libraries
    /\ since' = [l \in Libraries |-> IF (l \in floor) = (l \in floor') THEN since[l] ELSE now]
    /\ UNCHANGED <<now, began, topic, stage, view>>

Tick == now' = now + 1 /\ UNCHANGED <<floor, since, stage, topic, began, view>>

Next == Tick \/ Edit \/ \E v \in Visitors : Ask(v) \/ Show(v) \/ Leave(v)

Spec == Init /\ [][Next]_vars
=============================================================================
