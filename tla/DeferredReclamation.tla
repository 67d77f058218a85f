------------------------- MODULE DeferredReclamation -------------------------
(***************************************************************************)
(* What epoch protection promises to the hybrid log and the store: an      *)
(* action that retires some state runs at most once, and never while a     *)
(* thread is still inside a protected region it entered before the new     *)
(* state was published (such a thread may hold a pointer to the old one).  *)
(*                                                                         *)
(* LightEpoch implements this specification; HybridLog relies on it.       *)
(***************************************************************************)
EXTENDS Naturals

CONSTANTS
  Threads,   (* threads that call the epoch                                *)
  Actions    (* retirements: one deferred action each                      *)

VARIABLES
  inside,    (* threads inside a protected region                          *)
  stale,     (* stale[t]: retirements whose old state t may still hold     *)
  retired    (* retired[a]: "no", "pending" (published) or "done" (run)    *)

dvars == <<inside, stale, retired>>

DInit ==
  /\ inside = {}
  /\ stale = [t \in Threads |-> {}]
  /\ retired = [a \in Actions |-> "no"]

\* Reads of shared state that follow an Enter see every earlier publication.
Enter(t) ==
  /\ t \notin inside
  /\ inside' = inside \union {t}
  /\ UNCHANGED <<stale, retired>>

Leave(t) ==
  /\ t \in inside
  /\ inside' = inside \ {t}
  /\ stale' = [stale EXCEPT ![t] = {}]
  /\ UNCHANGED retired

\* A thread that refreshes gives up every pointer it took before.
Renew(t) ==
  /\ t \in inside
  /\ stale' = [stale EXCEPT ![t] = {}]
  /\ UNCHANGED <<inside, retired>>

\* The new state is published: whoever is inside may hold the old one.
Retire(a) ==
  /\ retired[a] = "no"
  /\ retired' = [retired EXCEPT ![a] = "pending"]
  /\ stale' = [t \in Threads |->
                 IF t \in inside THEN stale[t] \union {a} ELSE stale[t]]
  /\ UNCHANGED inside

\* The deferred action runs: nobody can hold the old state any more.
Reclaim(a) ==
  /\ retired[a] = "pending"
  /\ \A t \in Threads : a \notin stale[t]
  /\ retired' = [retired EXCEPT ![a] = "done"]
  /\ UNCHANGED <<inside, stale>>

DNext ==
  \/ \E t \in Threads : Enter(t) \/ Leave(t) \/ Renew(t)
  \/ \E a \in Actions : Retire(a) \/ Reclaim(a)

DSpec == DInit /\ [][DNext]_dvars
=============================================================================
