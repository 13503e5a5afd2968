----------------------------- MODULE SingleCopy -----------------------------
(***************************************************************************)
(* What the replicated store promises its clients: one copy of the data,    *)
(* changed by one whole command at a time; every change takes a version     *)
(* larger than any before; and, without a command that removes it, a record *)
(* disappears only if it was given an expiry.  There are no nodes, no log,  *)
(* no clocks and no sweeps here.                                            *)
(***************************************************************************)
EXTENDS Storage

CONSTANTS
  Commands,     \* client requests with an absolute expiry
  MaxVersion

VARIABLES kv, version

Init == kv = EmptyStore /\ version = 0

Write(v) == \E cmd \in Commands : kv' = Exec(kv, cmd, v, 0)

Expire == \E K \in SUBSET {k \in Key : kv[k] # Absent /\ kv[k].expiresAt # 0} :
            kv' = [k \in Key |-> IF k \in K THEN Absent ELSE kv[k]]

Next == \E v \in version + 1 .. MaxVersion :
          version' = v /\ (Write(v) \/ Expire)

Spec == Init /\ [][Next]_<<kv, version>>
=============================================================================
