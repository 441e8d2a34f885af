--------------------------- MODULE MCAuditedCalls ---------------------------
(* Instances of AuditedCalls for TLC: SSLSocket.recv calls self.read, both   *)
(* are targets; one target is missing; opening a file has its own event.     *)
EXTENDS AuditedCalls

Recv == "ssl.SSLSocket.recv"
Read == "ssl.SSLSocket.read"
Gone == "os.statvfs"
Open == "open"

SomeTargets == <<Gone, Read, Recv>>
InsideThem  == [f \in {Recv, Read, Open} |-> IF f = Recv THEN {Read} ELSE {}]
=============================================================================
