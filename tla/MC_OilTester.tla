---------------------------- MODULE MC_OilTester ----------------------------
(* Small instances of OilTester for TLC. *)
EXTENDS OilTester

AllRefBehaviours == {"correct", "clobbers", "overruns", "illegal"}
AllImplBehaviours == {"correct", "idle", "wrong", "nan", "clobbers", "overruns", "illegal"}
SomeFlags == {{}, {"mmx"}}
NoFlags == {}
=============================================================================
