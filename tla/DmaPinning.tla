----------------------------- MODULE DmaPinning -----------------------------
(***************************************************************************)
(* What the registry and the map/unmap protocol of the DMA controller      *)
(* promise, without the table, the scatter-gather lists and the reference  *)
(* counts that keep the promise: a device holds pointers only into memory  *)
(* that is registered, and memory is unregistered only when no device      *)
(* holds a pointer into it.  Module DmaController implements this.         *)
(***************************************************************************)
EXTENDS Sequences

CONSTANTS
    Threads,    \* the device threads
    Bases       \* the DMA addresses regions start at

VARIABLES
    registered, \* the regions the guest has registered
    held        \* per thread, the regions of the iovecs it holds, in order

pvars == <<registered, held>>

Holders(b) == { t \in Threads : \E k \in DOMAIN held[t] : held[t][k] = b }

Init ==
    /\ registered = {}
    /\ held = [t \in Threads |-> <<>>]

\* add_region
Register(b) ==
    /\ b \notin registered
    /\ registered' = registered \cup {b}
    /\ UNCHANGED held

\* remove_region that does not return busy
Release(b) ==
    /\ b \in registered
    /\ Holders(b) = {}
    /\ registered' = registered \ {b}
    /\ UNCHANGED held

\* remove_regions, at teardown
ReleaseAll ==
    /\ \A t \in Threads : held[t] = <<>>
    /\ registered' = {}
    /\ UNCHANGED held

\* map_sg hands out a pointer into a region
Pin(t, b) ==
    /\ b \in registered
    /\ held' = [held EXCEPT ![t] = Append(@, b)]
    /\ UNCHANGED registered

\* unmap_sg takes the pointers back in the order they were handed out
Unpin(t) ==
    /\ held[t] # <<>>
    /\ held' = [held EXCEPT ![t] = Tail(@)]
    /\ UNCHANGED registered

Next ==
    \/ \E b \in Bases : Register(b) \/ Release(b)
    \/ ReleaseAll
    \/ \E t \in Threads : Unpin(t) \/ \E b \in Bases : Pin(t, b)

Spec == Init /\ [][Next]_pvars

=============================================================================
