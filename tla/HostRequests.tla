----------------------------- MODULE HostRequests -----------------------------
(***************************************************************************)
(* One machine under the requests of /server and of the /haproxy,          *)
(* /keepalived and /apiserver handlers: its host files, its disks and its  *)
(* service configuration, and the reboots that hit all of them.            *)
(*                                                                         *)
(* The three parts share the machine and its login, no other state, so     *)
(* that a behaviour in which requests work on one of them shows whatever   *)
(* one with all of them would.                                             *)
(***************************************************************************)
EXTENDS HostFiles, DiskMount, ServiceConfig

VARIABLE part   (* what the requests of this behaviour work on              *)

vars == <<part, machine, fileVars, mountVars, configVars>>

(* The parts that nobody works on are in one state.                        *)
Init ==
  /\ part \in {"files", "disk", "config"}
  /\ MachineInit /\ FilesInit /\ MountInit /\ ConfigInit
  /\ part # "files" =>
       /\ onServer /\ tmp = None /\ atFirst = CHOOSE s \in Start : TRUE
  /\ part # "disk" => ~padded
  /\ part # "config" =>
       /\ manifest = CHOOSE m \in Manifest : TRUE
       /\ unitRuns = [u \in Unit |-> None]

Files   == part = "files"  /\ FilesNext  /\ UNCHANGED <<part, machine, mountVars, configVars>>
Disk    == part = "disk"   /\ MountNext  /\ UNCHANGED <<part, machine, fileVars, configVars>>
Service == part = "config" /\ ConfigNext /\ UNCHANGED <<part, machine, fileVars, mountVars>>

(* The machine goes down and comes up, with all that is on it.             *)
Reboot ==
  /\ MachineReboots /\ FilesReboot /\ MountReboot /\ ConfigReboot
  /\ UNCHANGED part

Next == Files \/ Disk \/ Service \/ Reboot

Spec == Init /\ [][Next]_vars
=============================================================================
