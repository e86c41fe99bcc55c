----------------------------- MODULE ReplicaPromise -----------------------------
(***************************************************************************)
(* What sync/ReplicaService.js promises to its callers, without the disk:   *)
(* every accepted plan is a generation of its owner, generations of one     *)
(* owner become current in the order they were accepted, each at most once, *)
(* and only when no earlier one is still open.                              *)
(***************************************************************************)
EXTENDS Naturals, Sequences

CONSTANTS Owners, Contents

VARIABLES gens,      \* the accepted generations, in order of acceptance
          current    \* the generation each owner's replicas hold, 0 before the first

vars == <<gens, current>>

Generation == [owner: Owners, content: Contents, status: {"open", "withdrawn", "done"}]

Init == gens = <<>> /\ current = [o \in Owners |-> 0]

Accepted(o, c) == [owner |-> o, content |-> c, status |-> "open"]

Accept(o, c) == gens' = Append(gens, Accepted(o, c)) /\ UNCHANGED current

(* A newer version takes the place of one that is still open. *)
Supersede(i, c) ==
  /\ gens[i].status = "open" /\ c # gens[i].content
  /\ gens' = Append([gens EXCEPT ![i].status = "withdrawn"], Accepted(gens[i].owner, c))
  /\ UNCHANGED current

(* The service does not keep a withdrawn generation withdrawn when its
   executor was already waiting for the storage lock (README, section 5). *)
Reopen(i) ==
  /\ gens[i].status = "withdrawn" /\ i > current[gens[i].owner]
  /\ gens' = [gens EXCEPT ![i].status = "open"]
  /\ UNCHANGED current

Commit(i) ==
  /\ gens[i].status = "open" /\ i > current[gens[i].owner]
  /\ \A j \in 1..(i - 1) : gens[j].owner = gens[i].owner => gens[j].status # "open"
  /\ gens' = [gens EXCEPT ![i].status = "done"]
  /\ current' = [current EXCEPT ![gens[i].owner] = i]

Next ==
  \/ \E o \in Owners, c \in Contents : Accept(o, c)
  \/ \E i \in DOMAIN gens, c \in Contents : Supersede(i, c)
  \/ \E i \in DOMAIN gens : Reopen(i) \/ Commit(i)

Spec == Init /\ [][Next]_vars
=============================================================================
