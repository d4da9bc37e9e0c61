----------------------------- MODULE MCJobStore -----------------------------
(* Small instances of JobStore.                                            *)
EXTENDS JobStoreInvariant, TLC

Upload(p, d, i, h) == [picked |-> p, detected |-> d, ifaces |-> i, target |-> h]

CONSTANT host

(* A FortiGate backup, an ASA config, a FortiOS snippet without interfaces *)
(* loaded through the FortiGate tile, and a load whose target is refused.  *)
AllUploads == { Upload(None, "fortios", TRUE, host),
                Upload("cross", "cross", TRUE, None),
                Upload("fortios", "unknown", FALSE, host),
                Upload(None, "fortios", TRUE, Bad) }

TwoUploads == { Upload(None, "fortios", TRUE, host),
                Upload("cross", "cross", TRUE, None) }

Wizard(ok, fmg) == [ok |-> ok, fmg |-> fmg, fixes |-> {}]
AllForms == { Wizard(TRUE, TRUE), Wizard(TRUE, FALSE), Wizard(FALSE, FALSE) }
TwoForms == { Wizard(TRUE, TRUE), Wizard(FALSE, FALSE) }
PlainForm == { Wizard(TRUE, FALSE) }

GateUpload == { Upload(None, "fortios", TRUE, host) }

(* The threads are interchangeable: no definition names one of them.       *)
ThreadSymmetry == Permutations(Threads)
=============================================================================
