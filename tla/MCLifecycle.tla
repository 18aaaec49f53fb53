---------------------------- MODULE MCLifecycle ----------------------------
(* Small instances of the sandbox lifecycle for TLC. *)
EXTENDS Lifecycle, TLC

(* Resolves of one chat are alike. *)
MCSymmetry == Permutations(Resolver)

Deployment(mode, s3, env, resolves, time, writes, npods, nedits) ==
    [mode |-> mode, s3 |-> s3, env |-> env, alone |-> resolves = 1,
     time |-> time, writes |-> writes, pods |-> npods, edits |-> nedits]

(* The hot tier dies with the pod. *)
MCVolatile ==
    {Deployment("empty-dir", TRUE, {"s3", "runtime", "store", "cancel"},
                1, 2, 2, 3, 0),
     Deployment("s3-record", TRUE, {"s3", "runtime", "delete"}, 1, 2, 2, 3, 0)}

(* The hot tier is a PVC: with S3, and with S3 and every fault; and an     *)
(* emptyDir whose Sandbox is suspended.                                    *)
MCVolume ==
    {Deployment("pvc", TRUE, {"s3", "runtime"}, 1, 3, 2, 4, 0),
     Deployment("pvc", TRUE,
                {"s3", "runtime", "store", "torn", "cancel", "podloss", "slow"},
                1, 2, 1, 2, 0),
     Deployment("s3-record", TRUE, {"s3", "runtime", "suspend"}, 1, 1, 1, 2, 0)}

(* A PVC without S3, and two resolves. *)
MCPlain == {Deployment("pvc", FALSE, {"store", "linger"}, 2, 2, 0, 2, 1)}

MCDeletion ==
    {Deployment("s3-record", TRUE,
                {"delete", "suspend", "podloss", "s3", "runtime"}, 1, 1, 1, 2, 0)}

MCAbandoned == {Deployment("empty-dir", TRUE, {"slow"}, 1, 2, 2, 3, 0)}

MCTwoResolves == {Deployment("empty-dir", TRUE, {}, 2, 2, 2, 3, 0)}
=============================================================================
