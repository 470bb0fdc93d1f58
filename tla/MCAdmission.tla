---------------------------- MODULE MCAdmission ----------------------------
(* Small instances of Admission: one GPU and one CPU target (ids 1 and 2),   *)
(* a model of 256 MB and one of 2.5 GB.                                      *)
EXTENDS Admission

Chat(m) == [class |-> "chat", model |-> m]
Siem(m) == [class |-> "siem", model |-> m]
Batch(m) == [class |-> "batch", model |-> m]

SmallAndBig == "small" :> 256 @@ "big" :> 2560
Mixed == <<Batch("small"), Siem("big"), Chat("big")>>
=============================================================================
