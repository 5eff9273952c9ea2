------------------------------ MODULE Sandbox -------------------------------
(***************************************************************************)
(* The leased container a stage works in (internal/forge: sandbox.go and   *)
(* lease.go).  The client holds one lease by its number; the service keeps *)
(* the containers that run, and may take any of them away between two      *)
(* commands.  A command that finds its container gone boots a replacement, *)
(* once.                                                                   *)
(*                                                                         *)
(* The operators say what a call makes of the leases, for a module that    *)
(* runs commands; the number of faults is bounded.                         *)
(***************************************************************************)
EXTENDS Integers, FiniteSets

VARIABLES
  leaseID, \* the lease the client holds, or NoLease
  live,    \* the containers that run
  adrift,  \* the leases nobody can give back: a release or an answer was lost
  born,    \* how many leases were created
  faults   \* how many more faults there may be

leases == <<leaseID, live, adrift, born, faults>>

NoLease == 0

LeasesTypeOK ==
  /\ born \in Nat /\ faults \in Nat
  /\ leaseID \in 0..born
  /\ live \subseteq 1..born /\ adrift \subseteq live

NoSandbox(allowed) ==
  leaseID = NoLease /\ live = {} /\ adrift = {} /\ born = 0 /\ faults = allowed

Fault == faults > 0 /\ faults' = faults - 1

(* CreateLease and WaitReady: the sandbox is created and becomes ready. *)
Boots ==
  /\ born' = born + 1
  /\ leaseID' = born + 1
  /\ live' = live \cup {born + 1}
  /\ UNCHANGED adrift

(* It does not: the lease was never created, or it was and is given back,   *)
(* or it was and stays: its number was in an answer that was lost, or the   *)
(* release failed, which is only logged.                                    *)
BootFails ==
  /\ leaseID' = NoLease
  /\ \/ UNCHANGED <<live, adrift, born>>
     \/ born' = born + 1 /\ live' = live \cup {born'} /\ adrift' = adrift \cup {born'}

(* The service reaps the container: it idled, or it ran for too long. *)
Reap ==
  /\ leaseID \in live
  /\ Fault
  /\ live' = live \ {leaseID}
  /\ UNCHANGED <<leaseID, adrift, born>>

(* A command runs, in the container that is held or in its replacement. *)
Replaced == leaseID \notin live

ForgottenMutant ==
  /\ leaseID # NoLease
  /\ IF Replaced THEN live' = live \cup {born + 1} /\ born' = born + 1
                      /\ UNCHANGED <<leaseID, adrift>>
     ELSE UNCHANGED <<leaseID, live, adrift, born>>
  /\ UNCHANGED faults

Runs ==
  /\ leaseID # NoLease
  /\ IF Replaced THEN Boots ELSE UNCHANGED <<leaseID, live, adrift, born>>
  /\ UNCHANGED faults

(* A command ends in an error: no lease is held; the command fails; its     *)
(* container is gone and there is no replacement, or that is gone as well.  *)
Errs ==
  \/ leaseID = NoLease /\ UNCHANGED leases
  \/ leaseID # NoLease /\ ~Replaced /\ Fault /\ UNCHANGED <<leaseID, live, adrift, born>>
  \/ leaseID # NoLease /\ Replaced /\ Fault
     /\ \/ BootFails
        \/ born' = born + 1 /\ leaseID' = born' /\ UNCHANGED <<live, adrift>>

(* Release: the container is given back unless the call fails, which is     *)
(* only logged; without a lease there is nothing to do.                     *)
Release ==
  /\ leaseID' = NoLease
  /\ UNCHANGED born
  /\ \/ live' = live \ {leaseID} /\ UNCHANGED <<adrift, faults>>
     \/ leaseID \in live /\ Fault /\ adrift' = adrift \cup {leaseID} /\ UNCHANGED live

(* Nothing the client could have given back is still running. *)
NothingHeld == leaseID = NoLease /\ live \subseteq adrift
=============================================================================
