------------------------------- MODULE DiskMount -------------------------------
(***************************************************************************)
(* Mount of pkg/service/os.go: a new disk is given to the root file system *)
(* by four LVM commands of pkg/utils/os.go, one after the other.           *)
(*                                                                         *)
(* Nothing is undone when a command fails, its reply is lost or the        *)
(* machine reboots, and the commands are not repeatable: what was done     *)
(* once fails the next time.                                               *)
(***************************************************************************)
EXTENDS ManagedHost

CONSTANTS
  MountRequest,
  Device,
  DeviceOf    (* [MountRequest -> Device]                                   *)

ASSUME MountAssumption == DeviceOf \in [MountRequest -> Device]

VARIABLES
  padded,     (* lvs pads the root volume's name, so that its group is not  *)
              (* the second field, or it does not list the volume at all    *)
  pv,         (* devices that are physical volumes                          *)
  vg,         (* devices in the volume group of the root volume             *)
  lv,         (* devices whose extents the root volume has                  *)
  fs,         (* devices the root file system has grown over                *)
  step,       (* each request: its next command, "ok" or "failed"           *)
  joined      (* requests whose vgextend has put their device in the group  *)

disk      == <<pv, vg, lv, fs>>
mountVars == <<padded, disk, step, joined>>

MountInit ==
  /\ padded \in BOOLEAN
  /\ pv = {} /\ vg = {} /\ lv = {} /\ fs = {}
  /\ step = [r \in MountRequest |-> "idle"]
  /\ joined = {}

Command == {"lvs", "pvcreate", "vgextend", "lvextend", "xfs_growfs"}

(* The command has taken effect: the next one follows, unless the reply is *)
(* lost.                                                                   *)
Done(r, next) == \E s \in {next, "failed"} : step' = [step EXCEPT ![r] = s]

----------------------------------------------------------------------------
(* The connection, and what NewOSClient asks the machine.                  *)
Mount(r) ==
  /\ step[r] = "idle"
  /\ step' = [step EXCEPT ![r] = "lvs"]
  /\ UNCHANGED <<padded, disk, joined>>

(* A command fails and has no effect.                                      *)
MountError(r) ==
  /\ step[r] \in Command
  /\ step' = [step EXCEPT ![r] = "failed"]
  /\ UNCHANGED <<padded, disk, joined>>

QueryVGName(r) ==
  /\ step[r] = "lvs"
  /\ step' = [step EXCEPT ![r] = "pvcreate"]
  /\ UNCHANGED <<padded, disk, joined>>

(* pvcreate refuses a device that is in a group.                           *)
CreatePV(r) ==
  /\ step[r] = "pvcreate"
  /\ DeviceOf[r] \notin vg
  /\ pv' = pv \cup {DeviceOf[r]}
  /\ Done(r, "vgextend")
  /\ UNCHANGED <<padded, vg, lv, fs, joined>>

(* Mutant of ExtendVG: a device that is in the group already will do.      *)
ExtendVGAgain(r) ==
  /\ step[r] = "vgextend" /\ ~padded
  /\ vg' = vg \cup {DeviceOf[r]}
  /\ joined' = joined \cup {r}
  /\ Done(r, "lvextend")
  /\ UNCHANGED <<padded, pv, lv, fs>>

(* vgextend: without the group's name, or with a device that has come into *)
(* the group since, it fails (MountError).                                 *)
ExtendVG(r) ==
  /\ step[r] = "vgextend" /\ ~padded
  /\ DeviceOf[r] \notin vg
  /\ vg' = vg \cup {DeviceOf[r]}
  /\ joined' = joined \cup {r}
  /\ Done(r, "lvextend")
  /\ UNCHANGED <<padded, pv, lv, fs>>

(* Mutant of ExtendLVPercent100: a group without free extents is no error. *)
ExtendLVAnyway(r) ==
  /\ step[r] = "lvextend"
  /\ lv' = vg
  /\ Done(r, "ok")
  /\ UNCHANGED <<padded, pv, vg, fs, joined>>

(* lvextend -l +100%FREE takes every free extent of the group, those of    *)
(* other requests' devices too, and fails if there is none.                *)
ExtendLVPercent100(r) ==
  /\ step[r] = "lvextend"
  /\ vg \ lv # {}
  /\ lv' = vg
  /\ Done(r, "xfs_growfs")
  /\ UNCHANGED <<padded, pv, vg, fs, joined>>

(* xfs_growfs: the file system takes the whole volume.                     *)
XGrowFS(r) ==
  /\ step[r] = "xfs_growfs"
  /\ fs' = lv
  /\ Done(r, "ok")
  /\ UNCHANGED <<padded, pv, vg, lv, joined>>

(* The machine goes down: requests under way fail, the disks stay.         *)
MountReboot ==
  /\ step' = [r \in MountRequest |->
       IF step[r] \in Command THEN "failed" ELSE step[r]]
  /\ UNCHANGED <<padded, disk, joined>>

----------------------------------------------------------------------------
MountStep(r) ==
  \/ Mount(r) \/ QueryVGName(r) \/ CreatePV(r) \/ ExtendVG(r)
  \/ ExtendLVPercent100(r) \/ XGrowFS(r) \/ MountError(r)

MountNext == \E r \in MountRequest : MountStep(r)

MountSpec ==
  /\ MachineInit /\ MountInit
  /\ [][\/ MountNext /\ UNCHANGED machine
        \/ MountReboot /\ MachineReboots]_<<machine, mountVars>>

----------------------------------------------------------------------------
MountTypeOK ==
  /\ padded \in BOOLEAN
  /\ pv \subseteq Device
  /\ vg \subseteq Device /\ lv \subseteq Device /\ fs \subseteq Device
  /\ step \in [MountRequest -> Command \cup {"idle", "ok", "failed"}]
  /\ joined \subseteq MountRequest

(* Mount answers without an error only when the root file system has grown *)
(* over the request's own device, whatever other requests do meanwhile.    *)
MountedMeansGrown ==
  \A r \in MountRequest : step[r] = "ok" => DeviceOf[r] \in fs

(* A device is in the group by one request only, and no other request for  *)
(* it ever succeeds: once that one has failed, by an error, a lost reply   *)
(* or a reboot after its vgextend, every repetition fails for ever.        *)
RetryNeverCompletes ==
  \A r, q \in MountRequest :
    DeviceOf[r] = DeviceOf[q] /\ r # q /\ q \in joined =>
      r \notin joined /\ step[r] # "ok"
=============================================================================
