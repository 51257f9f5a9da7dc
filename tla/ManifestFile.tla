---------------------------- MODULE ManifestFile ----------------------------
(***************************************************************************)
(* The manifest's database file and the name of its version, as those who  *)
(* read them see one download after another: the database is closed, the   *)
(* file replaced, the version named, the database opened again, and then   *)
(* the observers are told.  Queries are refused while it is closed.        *)
(*                                                                         *)
(* Versions are numbered as installed; 0 is the one found at startup.      *)
(* What a query returns is the version it is of.                           *)
(***************************************************************************)
EXTENDS Naturals

CONSTANTS None,
          MaxInstalls,  \* bound: manifests installed in a run
          MaxFaults     \* bound: failed renames, queries and fetches

VARIABLES file, version,    \* the version of the file, and the one named
          swap,             \* where the download is
          faults

FileVersions == 0 .. MaxInstalls

ManifestTypeOK ==
    /\ file \in FileVersions /\ version \in FileVersions
    /\ swap \in {"idle", "closed", "named", "reopened"}
    /\ faults \in 0 .. MaxFaults

Found == file = 0 /\ version = 0 /\ swap = "idle" /\ faults = 0

Closed == swap \in {"closed", "named"}
Fault == faults < MaxFaults /\ faults' = faults + 1

-----------------------------------------------------------------------------

Close ==
    /\ swap = "idle" /\ file < MaxInstalls
    /\ swap' = "closed"
    /\ UNCHANGED <<file, version, faults>>

Install ==
    /\ swap = "closed" /\ file = version
    /\ file' = file + 1
    /\ UNCHANGED <<version, swap, faults>>

\* The rename fails: the old file is opened again, and nobody is told.
RollBack ==
    /\ swap = "closed" /\ file = version
    /\ Fault
    /\ swap' = "idle"
    /\ UNCHANGED <<file, version>>

Name ==
    /\ swap = "closed" /\ file # version
    /\ version' = file /\ swap' = "named"
    /\ UNCHANGED <<file, faults>>

Reopen ==
    /\ swap = "named"
    /\ swap' = "reopened"
    /\ UNCHANGED <<file, version, faults>>

Download == Close \/ Install \/ RollBack \/ Name \/ Reopen

\* A query fails because the database is closed, or on its own.
QueryFails == IF Closed THEN UNCHANGED faults ELSE Fault

=============================================================================
