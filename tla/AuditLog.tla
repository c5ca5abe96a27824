------------------------------ MODULE AuditLog ------------------------------
(***************************************************************************)
(* What the audit trail promises, whatever processes, crashes and outages  *)
(* there are: a log that only grows at its end, and a register that        *)
(* receives copies of entries of the log, each at most once.               *)
(***************************************************************************)
EXTENDS Naturals, Sequences

CONSTANT Payloads  \* decisions to be recorded

VARIABLES
  log,     \* the recorded payloads, oldest first
  copies   \* copies[s]: how many rows of the register are copies of entry s

Init == log = <<>> /\ copies = <<>>

Record(d) ==
  /\ log' = Append(log, d)
  /\ copies' = Append(copies, 0)

Copy(s) ==
  /\ copies[s] = 0
  /\ copies' = [copies EXCEPT ![s] = 1]
  /\ UNCHANGED log

Next == \/ \E d \in Payloads : Record(d)
        \/ \E s \in DOMAIN log : Copy(s)

Spec == Init /\ [][Next]_<<log, copies>>
=============================================================================
