------------------------------ MODULE ManagedHost ------------------------------
(***************************************************************************)
(* A machine that requests of the server work on over ssh: who they log in *)
(* as, and when the machine goes down and comes up again.                  *)
(***************************************************************************)
EXTENDS Naturals

CONSTANTS
  MaxReboots, (* bound: reboots                                             *)
  None        (* no file, no process                                        *)

ASSUME RebootAssumption == MaxReboots \in Nat

VARIABLES
  root,       (* the login is root: WhoAmI                                  *)
  reboots     (* how often the machine has been rebooted                    *)

machine == <<root, reboots>>

MachineInit == root \in BOOLEAN /\ reboots = 0

MachineReboots ==
  /\ reboots < MaxReboots
  /\ reboots' = reboots + 1
  /\ UNCHANGED root

MachineTypeOK == root \in BOOLEAN /\ reboots \in 0..MaxReboots
=============================================================================
