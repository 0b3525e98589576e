---------------------------- MODULE DurableStore ----------------------------
(***************************************************************************)
(* What the write path promises its callers: a write becomes visible as a  *)
(* whole before it is acknowledged; a sync write is durable when it is     *)
(* acknowledged; what is durable stays visible through every crash, and    *)
(* what a crash leaves visible is durable from then on.  A write that has  *)
(* failed or has not returned may or may not be there after a crash, never *)
(* in between two crashes.                                                 *)
(***************************************************************************)
CONSTANTS Writers,      \* the write calls, each with one batch
          SyncWriters   \* the ones with WriteOptions::sync

VARIABLES call,         \* what each caller knows
          visible,      \* the batches reads see
          durable       \* the batches no crash may take away

storeVars == <<call, visible, durable>>

Init ==
    /\ call = [w \in Writers |-> "idle"]
    /\ visible = {} /\ durable = {}

Begin(w) ==
    /\ call[w] = "idle"
    /\ call' = [call EXCEPT ![w] = "pending"]
    /\ UNCHANGED <<visible, durable>>

(* A group of pending batches becomes visible; its leader returns at once. *)
Commit(w, S) ==
    /\ w \in S /\ \A x \in S : call[x] = "pending" /\ x \notin visible
    /\ visible' = visible \cup S
    /\ call' = [call EXCEPT ![w] = "ok"]
    /\ durable' = durable \cup ({w} \cap SyncWriters)

Return(w) ==
    /\ call[w] = "pending" /\ w \in visible
    /\ call' = [call EXCEPT ![w] = "ok"]
    /\ durable' = durable \cup ({w} \cap SyncWriters)
    /\ UNCHANGED visible

Fail(w) ==
    /\ call[w] \in {"idle", "pending"} /\ w \notin visible
    /\ call' = [call EXCEPT ![w] = "err"]
    /\ UNCHANGED <<visible, durable>>

(* A flush makes visible batches durable. *)
Harden(S) ==
    /\ S \subseteq visible
    /\ durable' = durable \cup S
    /\ UNCHANGED <<call, visible>>

Crash(V) ==
    /\ durable \subseteq V
    /\ V \subseteq visible \cup {w \in Writers : call[w] \in {"pending", "err"}}
    /\ visible' = V /\ durable' = V
    /\ call' = [w \in Writers |-> IF call[w] = "pending" THEN "dead" ELSE call[w]]

Next ==
    \/ \E w \in Writers : Begin(w) \/ Return(w) \/ Fail(w)
    \/ \E S \in SUBSET Writers : Harden(S) \/ Crash(S) \/ \E w \in S : Commit(w, S)

Spec == Init /\ [][Next]_storeVars
=============================================================================
